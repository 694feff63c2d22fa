SPECIFICATION FairSpec
CONSTANTS
  v1 = v1
  v2 = v2
  None = None
  Values <- TwoValues
  Cap = 3
INVARIANTS
  SlotExclusive
PROPERTIES
  IsBoundedFifo
  NobodyStarves
