CONSTANTS
  population_size = 2
  elite_count = 2
  Cases = {c1, c2}
  Ratings = {0}
  NaN = NaN
  Timeout = 2
  Never = Never
  NoFile = NoFile
  Torn = Torn
  NoReply = NoReply
  MaxCapacity = 2
  MaxBatch = 2
  MaxGeneration = 2
SPECIFICATION Spec
INVARIANT CrossoverIsSkipped
CHECK_DEADLOCK FALSE
