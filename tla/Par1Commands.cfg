SPECIFICATION CommandSpec
CONSTANTS
  Paths <- MCPaths
  EntryLists <- MCEntries
  Original <- MCOriginal
  Byte <- MCByte
  Contents <- MCContents
  Missing = Missing
  Unreadable = Unreadable
  Nil = Nil
  ShardLimit = 4
  VolumeLimit = 2
  Written = 2
  Singular <- MCSingular
  MaxDamage = 2
  MaxFaults = 1
CHECK_DEADLOCK FALSE
INVARIANTS
  TypeOK
  UsableIsOnDisk
  SuccessRestores
  PromiseKept
  StaysRecoverable
PROPERTIES
  WritesOnlyOriginals
  IntactNotOpened
  Converges
