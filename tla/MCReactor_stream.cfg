SPECIFICATION FairSpec
CONSTANTS
  c1 = c1
  c2 = c2
  None = None
  Clients <- TwoClients
  Fds <- TwoFds
  Listen = 3
  Requests = 3
  Quota <- ThreeAndOne
  Malformed <- SecondMalformed
  OnceSize = 3
  SndBuf = 4
  NumRevs = 1
  Backlog = 2
  NonBlocking = TRUE
  AcceptFails = FALSE
  Closers <- OneClient
  Resetters <- Second
  AddFaults = 0
  MaxReads = 4
INVARIANTS
  Conservation
PROPERTIES
  EveryRequestAnswered
  EveryEndNoticed
