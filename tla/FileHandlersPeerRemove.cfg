CONSTANTS
  MaxFd = 2
  Handlers = {h1, h2}
  None = None
  Events = {"exception", "input"}
  InCallback = {"other"}
SPECIFICATION Spec
PROPERTIES ReadyHandled
CHECK_DEADLOCK FALSE
