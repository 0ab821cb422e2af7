SPECIFICATION FairSpec
CONSTANTS
  Threads = {"t1", "t2"}
  Limit = 2
  MaxKeys = 4
  MaxBreaks = 1
INVARIANTS TypeOK PowerFollowsAcc FullDelay
PROPERTIES SleepsAfterOff
CHECK_DEADLOCK FALSE
