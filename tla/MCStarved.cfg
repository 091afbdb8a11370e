CONSTANTS
  t5 = t5
  t5b = t5b
  t10 = t10
  None = None
  Tokens = {t5}
  Denom <- OneFive
  Wallets = {w1}
  TxIds = {p1, p2}
  Codes = {}
  Requests = {r1, r2}
  Workers = {k1, k2}
  Amounts = {500}
  Allowance = 2000
  MaxRestarts = 0
  BatchSize = 1
  TopUpBodies <- FiveOnly
SPECIFICATION FairSpec
PROPERTIES QueueDrains
CHECK_DEADLOCK FALSE
