SPECIFICATION MCSpec
CONSTANTS
  Precision = 1
  NetMargin = 2
INVARIANTS  EstimatorsExact  
PROPERTIES TablesImplement
CHECK_DEADLOCK FALSE
