SPECIFICATION Spec
CONSTANTS
  Point <- MCPoint
  Voxel <- MCVoxel
  Box <- MCBox
  Searcher = {s1}
  MaxOps = 3
INVARIANT
  NothingMissed
CHECK_DEADLOCK FALSE
