SPECIFICATION Spec
CONSTANTS
  c1 = c1
  c2 = c2
  None = None
  Clients <- TwoClients
  Fds <- TwoFds
  Listen = 3
  Requests = 2
  Quota <- TwoAndOne
  Malformed <- AllValid
  OnceSize = 3
  SndBuf = 3
  NumRevs = 2
  Backlog = 2
  NonBlocking = TRUE
  AcceptFails = TRUE
  Closers <- TwoClients
  Resetters <- Second
  AddFaults = 1
  MaxReads = 3
INVARIANTS
  MapMatchesEpoll
  NoStaleEvent
  LeakedOnlyByFailedAdd
  WriteOnDemand
  NoLostRead
  NoLostWrite
  NoLostAccept
  AnswersInTurn
PROPERTIES
  HealthyKept
CHECK_DEADLOCK FALSE
