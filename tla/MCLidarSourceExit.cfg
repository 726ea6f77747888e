SPECIFICATION SourceSpec
CONSTANTS
  Setups <- MCSetups
  PktCap = 2
  Batch = 2
  CloudCap = 1
  Clouds = {c1, c2, c3, c4, c5}
  Height = 2
  MaxPackets = 2
  MaxStrays = 1
  MaxDatagrams = 2
INVARIANT ReturnsFromMain
