SPECIFICATION FairSpec
CONSTANTS
  MaxStep = 3
  MaxRow = 2
  MaxRun = 2
INVARIANTS OneRun
PROPERTIES NoSkip RunEnds
