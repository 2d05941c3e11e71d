SPECIFICATION FairSpec
CONSTANTS
  Client = {c1}
  QueueMax = 2
  BatchMax = 2
  RecentMax = 1
  ViewerMax = 2
  MaxViewers = 1
  MaxLine = 2
  MaxFault = 2
INVARIANTS InOrder Gapless
PROPERTIES Farewell
CHECK_DEADLOCK FALSE
