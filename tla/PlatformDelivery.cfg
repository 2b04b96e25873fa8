SPECIFICATION FairRecordedSpec
CONSTANTS
  Products = {p1}
  MaxVersion = 2
  Workers = {w1, w2}
  Approvers = {a1}
  NoWorker = NoWorker
  NoDelivery = NoDelivery
  NoApprover = NoApprover
  MaxAttempts = 2
INVARIANTS
  TypeOK
  OneTerminalAudit
  NoOvertaking
  SucceededOnPlatform
  SucceededInOrder
  IInv
PROPERTIES
  LeaseRespected
  SettledForGood
  WithdrawalTakesHold
  ImplementsContract
  EventuallySettled
