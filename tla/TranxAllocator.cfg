SPECIFICATION Spec
CONSTANTS
  Blocks = {b1, b2, b3, b4, b5}
  NULL = NULL
  BLOCK_TRANX_NODES = 3
  MaxReserved = 9
SYMMETRY MCSymmetry
INVARIANTS
  InSequence
  TableWhole
PROPERTIES
  ReserveKept
