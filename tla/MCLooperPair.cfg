CONSTANTS
  Posters = {p1, p2}
  RunThread = r
  Callbacks = {k1, k2, k3}
  NoCallback = none
  BufSz = 2
SPECIFICATION FairSpec
INVARIANTS TypeOK CountExact StrandedBelowBufSz SwapSafe
PROPERTIES ImplementsQueue AwakeDrains
