SPECIFICATION FlashFairSpec
CONSTANTS
  MaxRun = 1
  MaxWrite = 3
INVARIANTS OutputComplete
PROPERTIES StopEnds
CHECK_DEADLOCK FALSE
