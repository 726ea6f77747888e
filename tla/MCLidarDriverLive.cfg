SPECIFICATION DriverFairSpec
CONSTANTS
  Value <- MCValue
  NoValue = 0
  Capacity = 3
  MaxBatch = 2
  Vlen = 1
  Kinds = {"first", "last"}
  MaxReady = 1
  MaxPackets = 3
  MaxSessions = 2
INVARIANT
  NoPointLost
PROPERTIES
  StopReturns
  QueueDrains
CHECK_DEADLOCK FALSE
