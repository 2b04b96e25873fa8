SPECIFICATION FairWorkerSpec
CONSTANTS
  Proposals = {p1}
  Users = {u1}
  Approvers = {u1}
  NoUser = NoUser
  Workers = {w1, w2}
  NoWorker = NoWorker
  MaxRevisions = 2
  MaxAttempts = 3
INVARIANTS
  WorkerTypeOK
PROPERTIES
  WrittenByHolder
  ImplementsLifecycle
  EventuallyReviewed
