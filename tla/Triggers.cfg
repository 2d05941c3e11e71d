SPECIFICATION FairSpec
CONSTANTS
  Text = {"go", "ok"}
  Rule <- Rules
  Default <- Defaults
  Interval = 3
  Delays = {1}
  MaxTrigger = 2
  MaxMatch = 2
  MaxAir = 1
INVARIANTS BlockedNeverRuns ButtonHonest
PROPERTIES EchoEnds
