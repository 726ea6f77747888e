SPECIFICATION Spec
CONSTANTS
  RANGE = 3
  Parts = 6
  Pixels = 4
  CloudPointMax = 5000
  Lidars = {"RSM1", "RSM2", "RSM3", "RSMX", "RSE1", "RSEMX", "RSM1_JUMBO"}
  Setups <- MCSetups
  N = 12
  Starts = {0, 9}
  MaxPkts = 17
  MaxFaults = 1
CHECK_DEADLOCK FALSE
INVARIANTS PixelsInPlace FramesAreClouds PacketsInClouds
