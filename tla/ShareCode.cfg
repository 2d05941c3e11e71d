SPECIFICATION Spec
CONSTANTS
  Code = {"481203", "770012"}
  MaxShare = 2
  Stranger = {9}
  TTL = 1
  MaxSessions = 1
  MaxPerIp = 1
  MaxTime = 2
  Handler = {"t1", "t2", "t3"}
  Ip = {"203.0.113.7"}
  Window = 2
  RateMax = 2
  MaxClock = 3
INVARIANTS RateHonest ShownCodeServed
PROPERTIES DialogSettles
CHECK_DEADLOCK FALSE
