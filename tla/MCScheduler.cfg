SPECIFICATION MCSpec
CONSTANTS
  Classes = {client}
  Reserved = reserved
  IdMod = 5
  Separation = 1
  MaxDelay = 1
  MaxScale = 2
  MaxQueue = 3
  StartTime = 0
  MaxTime = 1
  NoHandler = NoHandler
  Inherited = {3}
  SckMaxFd = 4
  Paths = {"p", "q"}
  Families = {4, 6}
  IoMaxFd = 5
  IoMaxRefs = 2
INVARIANTS QueueOrdered SchedulerSound
PROPERTIES RemainingKept SocketsSound TimeoutsSound ReadyHandled PrivAnswered
