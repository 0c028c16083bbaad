SPECIFICATION Spec
CONSTANTS
  n = 8
  W = 32
  t = 17
  batchSize = 8
  maxRelinSkDeg = 3
  Reg = {r1, r2}
  Fresh <- MCFresh
  IndexList <- MCIndexList
  Rotation <- MCRotation
  SumSize <- MCSumSize
  MaxMany = 3
  MaxCalls = 2
SYMMETRY Symmetric
INVARIANTS TypeOK Decodes SumsServed
