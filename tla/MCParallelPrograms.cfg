SPECIFICATION FairSpec
CONSTANTS
  MaxProcs = 7
  MaxSignals = 2
  Threads <- MCThreads
  ForkChoices <- MCForkChoices
  Choices <- MCChoices
INVARIANTS
  LastChildReaped
  WaitHasChild
  OneChildReaped
  TreeShape
PROPERTY RootEnds
CHECK_DEADLOCK FALSE
