SPECIFICATION Spec
CONSTANTS
  Documents = {d1, d2}
  Contents = {c1, c2}
  NoContent = NoContent
  Workers = {w1, w2}
  NoWorker = NoWorker
  MaxVersions = 1
  MaxAttempts = 2
INVARIANTS
  ServedIsFound
CHECK_DEADLOCK FALSE
