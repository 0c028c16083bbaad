SPECIFICATION Spec
CONSTANTS
  Thread = {t1, t2}
  Address = {b1, b2, b3, b4}
  Allocators <- MCAllocators
  HEADER = 8
  SIZE_MAX = 63
  Request <- MCRequest
  MaxObjects = {0, 2}
  NULL = NULL
  NOBODY = NOBODY
  MaxBlockCnt = 2
SYMMETRY Symmetric
INVARIANTS Inv Kept
PROPERTIES ImplementsPools
