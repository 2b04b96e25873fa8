SPECIFICATION OptimizationSpec
CONSTANTS
  Proposals = {p1, p2}
  Users = {u1, u2}
  Approvers = {u2}
  NoUser = NoUser
  Workers = {w1}
  NoWorker = NoWorker
  Optimizers = {o1}
  NoOptimizer = NoOptimizer
  NoProposal = NoProposal
  MaxRevisions = 1
  MaxAttempts = 2
  MaxDrafts = 2
PROPERTIES
  OutcomeFollowsReviews
  ImplementsLifecycle
