SPECIFICATION Spec
CONSTANTS
  Rows = 2
  Columns = 2
  Bytes = 34
  NumGoroutines = 3
  ByRow = FALSE
  MinLength = 16
  Divisor = 16
  Old = Old
CHECK_DEADLOCK FALSE
INVARIANTS
  NoRace
  IndInv
PROPERTIES
  Implements
