SPECIFICATION MCSpec
CONSTANTS
  Modes = {"normal", "initstepslew", "updateonce", "printonce"}
  LeapMode = "step"
  DaySecs = 6
  LeapDays = {0}
  LeapSecondClose = 2
  LeapEndDelay = 1
  Leaps = {"normal", "insert", "delete", "unsynchronised"}
  Offsets = {0, 3}
  Steps <- BothWays
  InitStepThreshold = 1
  MakeStepThreshold = 1
  MaxOffset = 1
  StepLimits = {1}
  OffsetDelay = 1
  OffsetIgnore = 1
  FbMin = 1
  FbMax = 1
  MaxAge = 3
  MaxTime = 8
  MinOffset = 2
  MinDuration = 1
  MaxDuration = 4
  ExcessRatio = 5
  MaxExcess = 3
  MaxCorrFreq = 6
  MaxFreq = 8
  MaxDrift = 1
  FastRate = 4
  FastMin = 5
  NullInterval = 2
  ClockOffsets = {3, 8}
  ClockFreqs = {1}
  ClockComps = {0, 1}
  CorrRates = {12}
  MaxLate = 1
  MaxClockOps = 2
  ManMax = 2
  ManSeparation = 1
  RtcMax = 3
  RtcDrop = 2
  RtcEvery = 2
  Errors = {0, 2}
  MrSteps <- TwoBothWays
  MaxT = 3
  MaxFast = 4
INVARIANTS LeapTimerMatches StepBudget SamplesCurrent 
PROPERTIES  LeapOnDayAndEnds ClockConverges
