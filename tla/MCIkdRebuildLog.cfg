SPECIFICATION Spec
CONSTANTS
  Point <- MCPoint
  Voxel <- MCVoxel
  Box <- MCBox
  Searcher = {s1}
  MaxOps = 4
INVARIANT
  LogStartsEmpty
CHECK_DEADLOCK FALSE
