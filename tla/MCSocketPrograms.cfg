SPECIFICATION FairSpec
CONSTANT NumThreads = 3
INVARIANTS
  Answered
  OpenCount
  NoFdReuse
PROPERTY AcceptedRunEnds
CHECK_DEADLOCK FALSE
