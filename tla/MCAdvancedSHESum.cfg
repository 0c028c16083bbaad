SPECIFICATION Spec
CONSTANTS
  n = 8
  W = 32
  t = 17
  batchSize = 8
  maxRelinSkDeg = 3
  Reg = {r1, r2}
  Fresh <- MCFresh
  IndexList <- MCIndexList
  Rotation <- MCRotation
  SumSize = {3}
  MaxMany = 1
  MaxCalls = 1
INVARIANTS AlwaysDecodes
