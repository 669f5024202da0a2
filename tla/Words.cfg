SPECIFICATION Spec
CONSTANTS
  WORD = 64
  MaxLap = 40
CHECK_DEADLOCK FALSE
INVARIANTS
  MaskingInvariant
  WordArithmetic
  EqualityIsSame
  OneLapFits
  MasksSplitWords
