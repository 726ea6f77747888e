SPECIFICATION Spec
CONSTANTS
  Point <- MCPoint
  Voxel <- MCVoxel
  Box <- MCBox
  Searcher = {s1}
  MaxOps = 4
INVARIANT
  RangeSearchSafe
CHECK_DEADLOCK FALSE
