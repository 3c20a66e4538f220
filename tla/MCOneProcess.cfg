SPECIFICATION FairSpec
CHECK_DEADLOCK FALSE
CONSTANT BUF_SIZE = 32
INVARIANTS ShowsTheMessage ReceivedWhole BasesRestored
PROPERTY EndsOrLost
