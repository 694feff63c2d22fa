SPECIFICATION Spec
CONSTANTS
  c1 = c1
  c2 = c2
  None = None
  Clients <- OneClient
  Fds <- OneFd
  Listen = 3
  Requests = 2
  Quota <- Two
  Malformed <- AllValid
  OnceSize = 3
  SndBuf = 3
  NumRevs = 2
  Backlog = 2
  NonBlocking = TRUE
  AcceptFails = FALSE
  Closers <- Nobody
  Resetters <- Nobody
  AddFaults = 0
  MaxReads = 4
INVARIANTS
  AnswersInOrder
CHECK_DEADLOCK FALSE
