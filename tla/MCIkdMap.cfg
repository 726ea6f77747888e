CONSTANTS
  Minimal_Unbalanced_Tree_Size = 2
  delete_criterion_param = 5
  balance_criterion_param = 7
  downsample_size = 4
  Point <- MCPoint
  Cloud <- MCCloud
  Box <- MCBox
  Query <- MCQuery
  Reach <- MCReach
  MaxNear = 4
  MaxSize = 4
  MaxDeleted = 1
SPECIFICATION Spec
CHECK_DEADLOCK FALSE
INVARIANTS CountsRight SearchesRight ReportedOnce RootKept
PROPERTY IsPointMap
