SPECIFICATION ViewsSpec
CONSTANTS
  Name = {"a", "b"}
  Positional = {"b"}
  Snippet = {"a"}
  MaxAuto = 1
  MaxChannel = 2
INVARIANTS ViewsFollow
PROPERTIES CatchesUp
