CONSTANTS
  t5 = t5
  t5b = t5b
  t10 = t10
  None = None
  Tokens = {t5, t10}
  Denom <- MCDenom2
  Wallets = {w1}
  TxIds = {p1, p2}
  Codes = {}
  Requests = {r1, r2}
  Workers = {k1, k2}
  Amounts = {500}
  Allowance = 2000
  MaxRestarts = 0
  BatchSize = 2
  TopUpBodies <- TopUp1500
SPECIFICATION Spec
INVARIANTS SignOnce
CHECK_DEADLOCK FALSE
