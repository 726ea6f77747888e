SPECIFICATION Spec
CONSTANTS
  RANGE = 3
  Parts = 6
  Pixels = 4
  CloudPointMax = 5000
  Lidars = {"RSEMX"}
  Setups <- MCSetups
  N = 12
  Starts = {0, 9}
  MaxPkts = 17
  MaxFaults = 1
CHECK_DEADLOCK FALSE
INVARIANT
  SlightReorderingTolerated
