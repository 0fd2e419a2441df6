CONSTANTS
  ServerThreads = {t1, t2, t3}
  FirstThread = t1
  RunThread = r
  MaxThreads = 2
  Clients = {a, b}
  MaxMessages = 1
  Closed = Closed
  NoClient = NoClient
  DoInit = DoInit
  NoCallback = none
  BufSz = 3
SPECIFICATION FairSpec
PROPERTY EveryRequestSettled
CHECK_DEADLOCK FALSE
