SPECIFICATION Spec
CONSTANTS
  ZeroByte = 0
  SliceByteCount = 2
  Paths <- MCPaths
  RecoverySet <- MCSet
  Original <- MCOriginal
  Byte <- MCByte
  Contents <- MCContents
  Missing = Missing
  Unreadable = Unreadable
  NilData = NilData
  Junk <- MCJunk
  Exponents <- MCExponents
  VolumeShards <- MCOverlap
  CutShards <- MCCut
  StaleChoices <- MCStale
  Singular <- MCSingular
  MaxDamage = 2
CHECK_DEADLOCK FALSE
INVARIANTS
  TypeOK
  DecoderConsistent
  SuccessRestores
  RepairedPathsHold
  VerdictSound
  MismatchMeansStale
  UsableNotCorrupt
PROPERTIES
  WritesOnlyOriginals
  IntactNotOpened
