SPECIFICATION Spec
CONSTANTS
  ByteBits = 2
  CrcBytes = 2
  Polynomial <- MCPolynomial
  ZeroByte = {}
  SliceByteCount = 4
  Files <- MCFiles
  KnownSets <- MCKnownSets
CHECK_DEADLOCK FALSE
INVARIANTS
  RollsRight
  HitsAsDefined
