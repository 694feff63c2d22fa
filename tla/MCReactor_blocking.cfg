SPECIFICATION FairSpec
CONSTANTS
  c1 = c1
  c2 = c2
  None = None
  Clients <- TwoClients
  Fds <- TwoFds
  Listen = 3
  Requests = 2
  Quota <- TwoEach
  Malformed <- AllValid
  OnceSize = 3
  SndBuf = 3
  NumRevs = 2
  Backlog = 2
  NonBlocking = FALSE
  AcceptFails = FALSE
  Closers <- Nobody
  Resetters <- Nobody
  AddFaults = 0
  MaxReads = 3
PROPERTIES
  ReadRoundEnds
CHECK_DEADLOCK FALSE
