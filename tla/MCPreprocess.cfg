CONSTANTS
  LidarTypes = {"AVIA", "VELO16", "OUST64", "RSM1", "RSM1_BREAK"}
  FilterNums = {1, 2}
  N_SCANS = 2
  GroupSize = 2
  SubClouds = {1, 2, 3}
  Turn = 4
  Messages <- MCMessages
  Later <- MCLater
  MaxMessages = 2
SPECIFICATION Spec
CHECK_DEADLOCK FALSE
INVARIANTS TimesRight PartsMakeWhole ReadsInside
