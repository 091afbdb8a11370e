CONSTANTS
  t5 = t5
  t10 = t10
  t20 = t20
  t20b = t20b
  t20c = t20c
  t50 = t50
  Tokens = {t5, t10, t20, t20b, t20c, t50}
  Denom <- MCDenom
  Targets = {1, 450, 500, 1000, 1200, 1999, 2000, 4001, 5999, 6000, 6001, 12500, 12501}
SPECIFICATION Spec
INVARIANTS BestSoFar ResultOptimal
PROPERTIES SearchEnds
CHECK_DEADLOCK FALSE
