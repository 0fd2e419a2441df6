CONSTANTS
  Posters = {p1}
  RunThread = r
  Callbacks = {k1, k2, k3, k4}
  NoCallback = none
  BufSz = 2
SPECIFICATION FairSpec
INVARIANT NoSleepOnWork
PROPERTY ImplementsFairQueue
