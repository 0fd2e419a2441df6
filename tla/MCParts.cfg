CONSTANTS
  Populations = {1, 30}
  Shares = {2, 50, 100, 101, 3000}
  Tournaments = {1, 29}
  Names = {"default", "heur", "lx", "laplace", "scatter", "normal", "gaussian", "pwr", "power", "unf", "none", "other"}
  Values <- MCValues
  Predefined = {0, 2}
  Empty = Empty
  Garbage = Garbage
  BreedSize = 3
  BreedSessions <- MCSessions
  BreedScores <- MCScores
  OldGenes <- MCGenes
  Low = 0
  High = 16
  Drawers = {d1, d2}
  buffer_size = 2
  MaxOutputs = 9
  GenomeIds = {1, 2}
  CaseIds = {3}
  NoIds = {9}
  steps_limit = 2
  size_threshold = 2
  Pop = 4
  zone_x_max = 23
  flat_widths = {4, 6}
  surface_points = {5, 13}
  surface_elevation_max = 28
  flat_elevations = {21}
  Heights = {100}
  horz_padding = 2
  tie_break = 1
  altitudes = {24, 27}
  tilt_max = 90
  speeds = {0, 100}
  zone_width = 300
  zone_height = 400
  surface_points_of_case <- MCGround
  safe_area <- MCArea
  turn_zero <- MCTurnZero
  outputs <- MCOutputs
  game_steps = 4
  max_count = 2
  each = 2
  old_files = {0, 2, 3}
  MaxSaves = 3
  RawBytes = {0, 52, 255}
  SurfaceSizes = {2, 3, 4}
  PointSize = 1
  RestSize = 2
  message_ids = {1, 3}
  Fields = {7}
  MaxFields = 2
  MaxMessages = 3
  max_messages_count = 2
  population_size = 2
  elite_count = 2
  Cases = {c1, c2}
  Ratings = {0}
  NaN = NaN
  Timeout = 2
  Never = Never
  NoFile = NoFile
  Torn = Torn
  NoReply = NoReply
  MaxCapacity = 2
  MaxBatch = 2
  MaxGeneration = 2
INIT PartsInit
NEXT PartsNext
INVARIANTS   EngineSound ExportSound CaseIsPlayable LandingsRankFirst LastReplaysKept StateComesBack CutIsNoticed
CHECK_DEADLOCK FALSE
