CONSTANTS
  Cwd = cwd
  DataDir = data
  Dirs = {cwd, data}
  Blocks = 3
  MaxSession = 3
  MaxGeneration = 2
  NoFile = NoFile
  Torn = Torn
  NoState = NoState
SPECIFICATION Spec
INVARIANT AskedBeforeOverwrite
CHECK_DEADLOCK FALSE
