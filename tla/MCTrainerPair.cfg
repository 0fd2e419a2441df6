CONSTANTS
  population_size = 2
  elite_count = 1
  Cases = {c1}
  Ratings = {0, 1}
  NaN = NaN
  Timeout = 2
  Never = Never
  NoFile = NoFile
  Torn = Torn
  NoReply = NoReply
  MaxCapacity = 2
  MaxBatch = 2
  MaxGeneration = 2
SPECIFICATION Spec
INVARIANTS TypeOK IdsNameGenomes  ReadyIffComplete DiskIsCurrent NoVisibleRollback
PROPERTY BestSurvive
CHECK_DEADLOCK FALSE
