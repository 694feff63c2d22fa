SPECIFICATION FairSpec
CONSTANTS
  c1 = c1
  c2 = c2
  c3 = c3
  None = None
  Clients <- MCClients
  Fds <- MCFds
  Listen = 4
  Programs <- MCPrograms
  Sizes <- MCSizes
  Senders <- MCSenders
  Resetters <- MCResetters
  MaxSends = 2
  Backlog = 2
INVARIANTS
  RecvNeverBlocks
  DescriptorsWatched
PROPERTIES
  EveryEndNoticed
CHECK_DEADLOCK FALSE
