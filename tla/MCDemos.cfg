SPECIFICATION MCSpec
CONSTANTS
  Programs <- AllPrograms
  Threads = {t1, t2, t3}
  Initial = 2
  None = None
  Workers = {w1, w2, w3, w4}
  Clients = {c1, c2}
  Messages <- Words
  Leftovers <- ZeroedBuffer
  Size = 2
  Nobody = Nobody
  MaxSent = 2
  MaxLost = 1
  MaxDup = 1
  Rounds = 3
  Length = 5
  Chunk = 2
  Room = 3
INVARIANTS
  SalesAddUp
  OverlapBounded
  PromptMeansPrinted
  ReportedOnlyIfQuiet
  EchoInOrder
  LinesJustified
PROPERTIES
  SellersEnd
  WorkGoesOn
  AnsweredUnlessLost
  SignalTakesEffect
CHECK_DEADLOCK FALSE
