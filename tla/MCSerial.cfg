CONSTANTS
  t5 = t5
  t5b = t5b
  t10 = t10
  None = None
  Tokens = {t5, t5b, t10}
  Denom <- MCDenom
  Wallets = {w1, w2}
  TxIds = {p1, p2}
  Codes = {c1}
  Requests = {r1}
  Workers = {k1}
  Amounts = {500, 700}
  Allowance = 2000
  MaxRestarts = 1
  BatchSize = 2
  TopUpBodies <- TopUps
SPECIFICATION Spec
INVARIANTS Solvent NoMoneyCreated PaymentsDisjoint NoFalseDoubleSpend SignedPerStart
SYMMETRY SerialSymmetry
CHECK_DEADLOCK FALSE
