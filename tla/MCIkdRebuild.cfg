SPECIFICATION FairSpec
CONSTANTS
  Point <- MCPoint
  Voxel <- MCVoxel
  Box <- MCBox
  Searcher = {s1, s2}
  MaxOps = 3
CHECK_DEADLOCK FALSE
INVARIANTS SearchesExclude LoggedReachNewTree
PROPERTIES EverythingEnds
