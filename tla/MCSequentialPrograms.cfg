SPECIFICATION FairSpec
CONSTANTS
  MaxProcs = 9
  MaxSignals = 2
  NumForks = 3
INVARIANTS
  ReapsWhatItForks
  CascadeBound
  UndisturbedStatuses
  WrongChildExplained
  SetUpFirst
PROPERTY RootEnds
CHECK_DEADLOCK FALSE
