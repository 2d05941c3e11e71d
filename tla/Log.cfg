SPECIFICATION FairSpec
CONSTANTS
  MaxSession = 2
  MaxLine = 2
  MaxClock = 2
  Disks = {"good", "bad"}
INVARIANTS StopIsComplete OwnSession InOrder
PROPERTIES Contracts CallsReturn
CHECK_DEADLOCK FALSE
