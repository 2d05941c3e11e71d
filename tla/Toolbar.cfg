SPECIFICATION Spec
CONSTANTS
  Port = {"p1"}
  Url = {"u1"}
  Session <- Sessions
  MaxSession = 2
  MaxConn = 2
INVARIANTS ShownIsOpened OpensSaved
PROPERTIES TabKeepsTarget
