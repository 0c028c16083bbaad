SPECIFICATION Spec
CONSTANTS
  STAGE_COUNT = 2
  INT_MAX = 15
  Size = {1, 5}
  Start = {0, 3, 12}
  MaxCalls = 6
INVARIANTS Inv NetGrowthIsTrue PeakIsTrue PeakCoversNet
