SPECIFICATION Spec
CONSTANTS
  ZeroByte = 0
  SliceByteCount = 2
  Paths <- MCPaths
  RecoverySet <- MCSet
  Original <- MCOriginal
  Byte <- MCByte
  Contents <- MCContents
  Missing = Missing
  Unreadable = Unreadable
  NilData = NilData
  Junk <- MCJunk
  Exponents <- MCExponents
  VolumeShards <- MCVolumes
  CutShards <- MCCut
  StaleChoices <- MCNoStale
  Singular <- MCSingular
  MaxDamage = 2
CHECK_DEADLOCK FALSE
INVARIANTS
  DamageNeedsRepair
