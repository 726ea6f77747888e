SPECIFICATION SourceSpec
CONSTANTS
  Setups <- MCSetups
  PktCap = 2
  Batch = 2
  CloudCap = 1
  Clouds = {c1, c2, c3, c4, c5}
  Height = 2
  MaxPackets = 5
  MaxStrays = 1
  MaxDatagrams = 2
INVARIANTS PublishedInOrder PointsInOnePlace ReplayGivesSameClouds WholeDatagrams
PROPERTIES SourceStops CloudsArePublished
