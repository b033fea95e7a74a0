SPECIFICATION Spec
CONSTANTS
  Broken = Broken
  Malformed = Malformed
  AnySet = AnySet
  None = None
  Packets <- MCPackets
  MaxLength = 3
CHECK_DEADLOCK FALSE
INVARIANTS
  IndInv
  ReadsAsDefined
