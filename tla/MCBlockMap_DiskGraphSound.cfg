CONSTANTS
  NDIRECT = 1
  NINDIRECT = 2
  BSIZE = 1
  Blocks = {1, 2, 3, 4, 5, 6, 7, 8}
  Sparse = FALSE
SPECIFICATION Spec
INVARIANT DiskGraphSound
