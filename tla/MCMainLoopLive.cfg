CONSTANTS
  Classes = {}
  Reserved = reserved
  IdMod = 4
  Separation = 0
  MaxDelay = 1
  MaxScale = 1
  MaxQueue = 2
  StartTime = 0
  MaxTime = 2
  MaxFd = 1
  Handlers = {h}
  None = None
  Events = {"input"}
  InCallback = {}
  MinDelay = 1
  LoopLimit = 20
  LoopFactor = 4
  Rate = 100
  CanQuit = FALSE
  Steps = {1}
  Jumps = {}
  MaxReal = 2
SPECIFICATION MainSpec
INVARIANTS MonoTracksReal
PROPERTIES DueDispatched ImplementsFileHandlers
CHECK_DEADLOCK FALSE
