SPECIFICATION CommandSpec
CONSTANTS
  Paths <- MCPaths
  EntryLists <- MCAligned
  Original <- MCOriginal
  Byte <- MCByte
  Contents <- MCContents
  Missing = Missing
  Unreadable = Unreadable
  Nil = Nil
  ShardLimit = 4
  VolumeLimit = 2
  Written = 2
  Singular <- MCSingular
  MaxDamage = 2
  MaxFaults = 0
CHECK_DEADLOCK FALSE
PROPERTIES
  PossibleNotPanic
