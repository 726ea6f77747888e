SPECIFICATION LioSpec
CONSTANTS
  LidarTypes = {"RSM1_BREAK"}
  num_sub_cloud = 1
  ScanTime = 2
  Spans = {1, 2}
  MAX_INI_COUNT = 1
  Garbage = {0}
  MaxTime = 9
  MaxGap = 2
  MaxSkew = 2
  MaxScans = 5
  MaxLoops = 0
INVARIANT
  AtFrameEnd
CHECK_DEADLOCK FALSE
