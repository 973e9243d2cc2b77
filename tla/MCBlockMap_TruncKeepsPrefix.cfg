CONSTANTS
  NDIRECT = 1
  NINDIRECT = 1
  BSIZE = 2
  Blocks = {1, 2, 3, 4, 5, 6}
  Sparse = FALSE
SPECIFICATION Spec
PROPERTY TruncKeepsPrefix
\* a panic stops the machine: a state after one has no successor
CHECK_DEADLOCK FALSE
