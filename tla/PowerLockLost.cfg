SPECIFICATION Spec
CONSTANTS
  Threads = {"t1"}
  Limit = 2
  MaxKeys = 3
  MaxBreaks = 0
INVARIANTS NormalIsHeld
CHECK_DEADLOCK FALSE
