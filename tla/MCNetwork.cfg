SPECIFICATION MCSpec
CONSTANTS
  Srcs = {"s"}
  ReachBits = 2
  MaxTime = 3
  NetCap = 2
  MinSamples = 2
  MaxSamples = 4
  MinSeparation = 2
  HwTimes = {0, 1, 2, 3, 4}
  LocalTimes = {0, 1, 2}
  Steps <- BothWays
  Nodes = {"a", "b", "c"}
  LocalNodes = {"a", "b"}
  LocalStratum = 3
  MaxStratum = 6
  LocalUpdate = 2
  MaxClock = 5
  MinPoll <- LowestPoll
  MaxPoll = 2
  DefaultMin = 0
  DefaultMax = 1
  Unit = 4
  Adjustments <- PollAdjustments
  MaxDoffset = 2
  ServerSlews <- SlewsOfServer
  MaxSent = 3
  MaxShift = 3
  MaxSlews = 4
  NtsMaxCookies = 2
  CookieIds <- Names
  RetryStart = 2
  RetryFactor = 1
  MaxRetry2 = 1
  MaxAttempts = 1
  MaxUpsets = 1
  NtsNetCap = 1
INVARIANTS  HwSound  
PROPERTIES  NtsSound
CHECK_DEADLOCK FALSE
