SPECIFICATION MCSpec
CONSTANTS
  Programs <- OnlyUdp
  Threads = {t1, t2}
  Initial = 1
  None = None
  Workers = {w1, w2}
  Clients = {c1, c2}
  Messages <- WordsOfAllLengths
  Leftovers <- ZeroedBuffer
  Size = 2
  Nobody = Nobody
  MaxSent = 2
  MaxLost = 0
  MaxDup = 0
  Rounds = 3
  Length = 2
  Chunk = 2
  Room = 3
INVARIANTS
  PrintedIsSent
CHECK_DEADLOCK FALSE
