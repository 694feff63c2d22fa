SPECIFICATION FairSpec
CONSTANTS
  v1 = v1
  v2 = v2
  p1 = p1
  p2 = p2
  k1 = k1
  k2 = k2
  None = None
  Producers <- TwoProducers
  Consumers <- TwoConsumers
  Values <- TwoValues
  Uses <- AllUses
  Caps <- OneToFive
  MaxOver = 1
INVARIANTS
  FewLeftOver
  NeverAllAsleep
PROPERTIES
  BoundedFifoSteps
  EveryCallReturns
CHECK_DEADLOCK FALSE
