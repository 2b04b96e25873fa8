SPECIFICATION Spec
CONSTANTS
  Proposals = {p1, p2}
  Users = {u1, u2}
  Approvers = {u2}
  NoUser = NoUser
  Workers = {w1}
  NoWorker = NoWorker
  MaxRevisions = 2
  MaxAttempts = 2
SYMMETRY Symmetry
INVARIANTS
  TypeOK
  OneActiveReview
  SubmittedIsVetted
  DecidedOnce
  VersionsChain
  OneReviewAudit
PROPERTIES
  StaleNeverAdvances
  HistoryImmutable
  ImplementsStages
