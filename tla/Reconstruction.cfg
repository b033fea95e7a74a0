SPECIFICATION Spec
CONSTANTS
  Width = 4
  Modulus <- MCModulus
  ChunkWords = 3
  DataCounts <- MCDataCounts
  Exponents <- MCExponents
  Nil = Nil
CHECK_DEADLOCK FALSE
INVARIANTS
  TablesRight
  ParityInPlace
  SolutionKept
  ReconstructedRight
  RefusedRightly
