SPECIFICATION FairOptimizationSpec
CONSTANTS
  Proposals = {p1}
  Users = {u1, u2}
  Approvers = {u2}
  NoUser = NoUser
  Workers = {w1}
  NoWorker = NoWorker
  Optimizers = {o1, o2}
  NoOptimizer = NoOptimizer
  NoProposal = NoProposal
  MaxRevisions = 1
  MaxAttempts = 3
  MaxDrafts = 3
INVARIANTS
  OptimizationTypeOK
  HolderIsCurrent
PROPERTIES
  OptimizedByHolder
  EventuallyOptimized
