CONSTANTS
  Splits <- MCSplits
  Coeffs <- MCCoeffs
  Damages <- MCDamages
  Guesses <- MCGuesses
SPECIFICATION Spec
INVARIANTS RecoversSeed BelowThresholdHides VerifyFindsDamage TablesAreField
CHECK_DEADLOCK FALSE
