SPECIFICATION Spec
CONSTANTS
  RATE_LIMIT_WINDOW = 3
  RATE_LIMIT_MAX_REQUESTS = 2
  StartTime = 3
  MaxTime = 12
  MaxRequests = 7
INVARIANTS TypeOK 
PROPERTIES CutOnlyWhenOver
CHECK_DEADLOCK FALSE
