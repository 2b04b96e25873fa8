SPECIFICATION Spec
CONSTANTS
  Documents = {d1}
  Contents = {c1, c2}
  NoContent = NoContent
  Workers = {w1, w2}
  NoWorker = NoWorker
  MaxVersions = 2
  MaxAttempts = 2
PROPERTIES
  CurrentNeverGoesBack
CHECK_DEADLOCK FALSE
