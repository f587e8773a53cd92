CONSTANTS
  NULL = NULL
  c1 = c1
  c2 = c2
  Conns = {c1, c2}
  Dbs = {"d1", "d2"}
  ByName = {c1}
  Start <- MCStart
  Configured <- MCConfigured
  Events = {"connect", "disconnect", "delete", "open", "next", "prev", "sort", "reload", "close", "move", "row", "structure"}
  MaxEvents = 3
  MaxTasks = 2
  MaxPage = 1
SPECIFICATION OpenedSpec
CHECK_DEADLOCK FALSE
INVARIANTS
  GridIsTrue
  WritesWhatItRead
PROPERTIES
  ClosingIsExact
