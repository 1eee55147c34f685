CONSTANTS
  Srcs = {s}
  ReachBits = 2
  MaxTime = 4
  NetCap = 2
SPECIFICATION NtpSpec
INVARIANTS NtpAnswersMeasured
CHECK_DEADLOCK FALSE
