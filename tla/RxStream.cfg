SPECIFICATION FairSpec
CONSTANTS
  MaxLine = 2
  MaxByte = 3
  MaxChunk = 3
  MaxPosted = 1
  Scrollback = 2
  MaxNote = 1
INVARIANTS EveryByte OffsetTrue EventTrue
PROPERTIES NoneStuck
CHECK_DEADLOCK FALSE
