SPECIFICATION FairSpec
CONSTANTS
  v1 = v1
  v2 = v2
  p1 = p1
  p2 = p2
  k1 = k1
  k2 = k2
  None = None
  Values <- TwoValues
  Producers <- TwoProducers
  Consumers <- TwoConsumers
  Cap = 2
INVARIANTS
  SlotExclusive
  NeverAllBlocked
PROPERTIES
  IsBoundedFifo
  SlotsRecycled
