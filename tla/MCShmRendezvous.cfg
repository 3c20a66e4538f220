SPECIFICATION ShmSpec
CONSTANTS
  DOITERS = 2
  MaxRuns = 1
INVARIANT SameSegment
CHECK_DEADLOCK FALSE
