CONSTANTS
  population_size = 2
  elite_count = 1
  Cases = {c1}
  Ratings = {0}
  NaN = NaN
  Timeout = 1
  Never = Never
  NoFile = NoFile
  Torn = Torn
  NoReply = NoReply
  MaxCapacity = 2
  MaxBatch = 2
  Runners = {r1}
  NoRunner = NoRunner
  MaxGeneration = 1
  MaxKills = 1
SPECIFICATION FairFleetSpec
PROPERTY GenerationCompletes
CHECK_DEADLOCK FALSE
