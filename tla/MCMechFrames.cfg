SPECIFICATION Spec
CONSTANTS
  Round = 40
  BlindStep = 5
  CloudPointMax = 400
  Lidars = {"RS16", "RSBP", "RS32", "RSHELIOS", "RSHELIOS_16P", "RSP128", "RSP80", "RSP48", "RS128", "RS80", "RS48", "RSAIRY", "RSFAIRY"}
  Setups <- MCSetups
  Starts = {0, 35}
  Lost = 4
  BadBlocks = {2}
  MaxPkts = 10
  MaxDifops = 1
  MaxFaults = 1
CHECK_DEADLOCK FALSE
INVARIANTS BlockTimes TurnsAreClouds OrderedCloudsWhole
