SPECIFICATION Spec
CONSTANTS
  Proposals = {p1, p2}
  Users = {u1}
  Approvers = {u1}
  NoUser = NoUser
  Workers = {w1}
  NoWorker = NoWorker
  MaxRevisions = 2
  MaxAttempts = 2
INVARIANTS
  RevisableWhenOpen
