SPECIFICATION Spec
CONSTANTS
  Paths <- MCPaths
  Arguments <- MCArguments
  Contents <- MCContents
  Empty = "none"
  Missing = Missing
  Counts <- MCCounts
  NoFile = NoFile
  Broken = Broken
  ShardLimit = 5
  VolumeLimit = 2
  MaxChanges = 1
  MaxFaults = 1
INVARIANTS
  CreatedIsProtected
  MixIsSafe
  RefusalSpares
PROPERTIES
  RerunProtects
