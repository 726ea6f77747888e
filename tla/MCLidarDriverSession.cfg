SPECIFICATION DriverSpec
CONSTANTS
  Value <- MCValue
  NoValue = 0
  Capacity = 3
  MaxBatch = 2
  Vlen = 1
  Kinds = {"points"}
  MaxReady = 1
  MaxPackets = 2
  MaxSessions = 2
INVARIANT
  SessionIsolation
CHECK_DEADLOCK FALSE
