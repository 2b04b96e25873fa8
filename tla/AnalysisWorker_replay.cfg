SPECIFICATION AnalysisSpec
CONSTANTS
  AnalysisIds = {a1}
  Ranked = {x1, x2}
  NoProduct = NoProduct
  Analysts = {w1, w2}
  NoAnalyst = NoAnalyst
  MaxClaims = 3
INVARIANTS
  ReplayIsAccepted
CHECK_DEADLOCK FALSE
