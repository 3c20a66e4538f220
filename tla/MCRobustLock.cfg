SPECIFICATION FairSpec
CONSTANT WeakMayFail = FALSE
PROPERTY Recovers
CHECK_DEADLOCK FALSE
