SPECIFICATION LioSpec
CONSTANTS
  LidarTypes = {"VELO16", "RSM1", "RSM1_BREAK"}
  num_sub_cloud = 2
  ScanTime = 2
  Spans = {1, 2}
  MAX_INI_COUNT = 2
  Garbage = {0, 100}
  MaxTime = 9
  MaxGap = 2
  MaxSkew = 2
  MaxScans = 4
  MaxLoops = 1
CHECK_DEADLOCK FALSE
INVARIANTS ScanTimes AtFrameEndUndisturbed MappedOnce ScansServed
