SPECIFICATION Spec
CONSTANTS
  c1 = c1
  c2 = c2
  None = None
  Clients <- OneClient
  Fds <- OneFd
  Listen = 3
  Requests = 2
  Quota <- Two
  Malformed <- AllValid
  OnceSize = 3
  SndBuf = 3
  NumRevs = 2
  Backlog = 2
  NonBlocking = TRUE
  AcceptFails = FALSE
  Closers <- OneClient
  Resetters <- OneClient
  AddFaults = 0
  MaxReads = 3
INVARIANTS
  ErrorsReachTheHandlers
CHECK_DEADLOCK FALSE
