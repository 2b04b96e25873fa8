SPECIFICATION OperationsSpec
CONSTANTS
  Documents = {d1}
  Contents = {c1, c2}
  NoContent = NoContent
  Workers = {w1, w2}
  NoWorker = NoWorker
  MaxVersions = 2
  MaxAttempts = 2
  AnalysisIds = {a1}
  Ranked = {x1, x2}
  NoProduct = NoProduct
  Analysts = {w1, w2}
  NoAnalyst = NoAnalyst
  MaxClaims = 3
  Shipments = {s1}
  Patrols = {p1}
  Horizon = 2
  DispatchDue = 0
  DeliveryDue = 1
  ReturnTerm = 1
  Stalled = 0
  Ahead = 1
  Inspection = 0
  MaxTrail = 7
  Events = {e1, e2}
  Bodies = {b1, b2}
  NoBody = NoBody
  Requests = {q1, q2, q3}
  NoEvent = NoEvent
  LastUser = 3
  Changes = {t1, t2}
INVARIANTS
  KnowledgeTypeOK
  ServedIsFound
  SearchIsExact
  OfferIsHolders
  TrailInOrder
  RaisedOnceInTime
  AnswersAgree
  AdministratorRemains
PROPERTIES
  EndedForGood
  OfferStands
CHECK_DEADLOCK FALSE
