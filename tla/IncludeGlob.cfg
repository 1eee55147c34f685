SPECIFICATION MCSpec
CONSTANTS
  Precision = 1
  NetMargin = 2
INVARIANTS IncludedMatches
CHECK_DEADLOCK FALSE
