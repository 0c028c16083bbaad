SPECIFICATION FairSpec
CONSTANTS
  Thread = {t1, t2}
  HEAP_SIZE = 144
  SIZE_MAX = 1023
  Request <- MCRequest
  NULL = NULL
  NOBODY = NOBODY
INVARIANTS TypeOK Separate Coalesced Restored Inv
PROPERTIES HeldUntouched ImplementsHeap CallsEnd AloneIsServed
