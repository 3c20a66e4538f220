SPECIFICATION FairSpec
CONSTANTS
  MaxProcs = 2
  MaxSignals = 2
  NumThreads = 3
INVARIANTS
  ThreadsJoined
  PoolsExclusive
PROPERTY AllEnd
CHECK_DEADLOCK FALSE
