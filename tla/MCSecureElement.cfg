CONSTANTS
  t5 = t5
  t5b = t5b
  t10 = t10
  Tokens = {t5, t5b, t10}
  Denom <- MCDenom
  MaxKeys = 6
SPECIFICATION Spec
INVARIANTS SignsOnce ProofsMatchKeys
PROPERTIES ImplementsSigner
SYMMETRY Symmetry
