CONSTANTS
  Cwd = cwd
  DataDir = cwd
  Dirs = {cwd, data}
  Blocks = 3
  MaxSession = 3
  MaxGeneration = 2
  NoFile = NoFile
  Torn = Torn
  NoState = NoState
SPECIFICATION Spec
INVARIANTS TypeOK  RestFindsLast AskedBeforeOverwrite
PROPERTY ImplementsSessionFile
CHECK_DEADLOCK FALSE
