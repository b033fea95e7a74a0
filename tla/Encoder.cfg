SPECIFICATION Spec
CONSTANTS
  Broken = Broken
  Malformed = Malformed
  AnySet = AnySet
  Paths <- MCPaths
  Arguments <- MCArguments
  Contents <- MCContents
  FirstFiles <- MCFirst
  Empty = "none"
  Missing = Missing
  Start <- MCStart
  Rank <- MCRank
  Counts <- MCCounts
  Oversized <- MCOversized
  NoFile = NoFile
  MaxChanges = 1
  MaxFaults = 1
INVARIANTS
  CreatedIsProtected
  MixIsSafe
  RefusalSpares
PROPERTIES
  RerunProtects
