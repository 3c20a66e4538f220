SPECIFICATION FairShmSpec
CONSTANTS
  DOITERS = 2
  MaxRuns = 2
INVARIANTS
  StopsAfterLastBlock
  BlocksInOrder
  SharedSegmentRemoved
PROPERTY SharedReaderStops
CHECK_DEADLOCK FALSE
