SPECIFICATION DriverSpec
CONSTANTS
  Value <- MCValue
  NoValue = 0
  Capacity = 3
  MaxBatch = 2
  Vlen = 2
  Kinds = {"short", "points"}
  MaxReady = 1
  MaxPackets = 4
  MaxSessions = 2
CHECK_DEADLOCK FALSE
INVARIANTS OneHolder Accounted DecodedInOrder
