SPECIFICATION FairSpec
CONSTANTS
  a = a
  b = b
  Value <- MCValue
  NoValue = NoValue
  Capacity = 4
  MaxBatch = 2
INVARIANTS SlotExclusion
PROPERTIES ImplementsFifo RingDelivers
