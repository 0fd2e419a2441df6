CONSTANTS
  population_size = 1
  elite_count = 0
  Cases = {c1}
  Ratings = {0}
  NaN = NaN
  Timeout = 1
  Never = Never
  NoFile = NoFile
  Torn = Torn
  NoReply = NoReply
  MaxCapacity = 2
  MaxBatch = 2
  Runners = {r1, r2}
  NoRunner = NoRunner
  MaxGeneration = 1
  MaxKills = 1
SPECIFICATION FairFleetSpec
INVARIANTS ReportRecorded LabelTellsPopulation
PROPERTIES ImplementsTrainer GenerationCompletes
CHECK_DEADLOCK FALSE
