SPECIFICATION Spec
CONSTANTS
  Round = 40
  BlindStep = 5
  CloudPointMax = 400
  Lidars = {"RSAIRY"}
  Setups <- MCSetups
  Starts = {0}
  Lost = 4
  BadBlocks = {2}
  MaxPkts = 10
  MaxDifops = 1
  MaxFaults = 0
CHECK_DEADLOCK FALSE
INVARIANT
  StampedWithFirstPoint
