CONSTANTS
  Classes = {}
  Reserved = reserved
  IdMod = 4
  Separation = 0
  MaxDelay = 1
  MaxScale = 1
  MaxQueue = 2
  StartTime = 0
  MaxTime = 1
  MaxFd = 1
  Handlers = {h}
  None = None
  Events = {"input"}
  InCallback = {}
  MinDelay = 0
  LoopLimit = 20
  LoopFactor = 4
  Rate = 100
  CanQuit = FALSE
  Steps = {}
  Jumps = {}
  MaxReal = 0
SPECIFICATION MainSpec
INVARIANTS SelectTimeoutPositive
CHECK_DEADLOCK FALSE
