SPECIFICATION FairSpec
CONSTANTS
  Messages = 3
  MaxChars = 2
INVARIANTS
  ThreadsExclusive
  NoSigpipe
  ReportsInOrder
  CrashExplained
PROPERTY HelperEnds
CHECK_DEADLOCK FALSE
