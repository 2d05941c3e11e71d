SPECIFICATION FairSpec
CONSTANTS
  MaxShare = 2
  MaxJoin = 2
INVARIANTS LeaveIsMeant
PROPERTIES ViewersReleased PortReleased
CHECK_DEADLOCK FALSE
