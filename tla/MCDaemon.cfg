SPECIFICATION MCSpec
CONSTANTS
  Clients = {c1, c2, c3}
  QueueLength = 3
  ReqLen = 2
  RespLen = 2
  Srcs = {"s"}
  Freqs = {5}
  Limits = {0, 2}
  MaxSamples = 2
  MinSamples = 2
  MaxSteps = 3
INVARIANTS SigndSound  
PROPERTIES DaemonHearsPlain  
CHECK_DEADLOCK FALSE
