CONSTANTS
  NULL = NULL
  c1 = c1
  c2 = c2
  Conns = {c1, c2}
  Dbs = {"d1", "d2"}
  ByName = {c1}
  Start <- MCStart
  Configured <- MCConfigured
  Events = {"connect", "disconnect", "delete", "dialog", "refresh", "expand", "query"}
  MaxEvents = 3
  MaxTasks = 3
  MaxPage = 1
SPECIFICATION Spec
CHECK_DEADLOCK FALSE
INVARIANTS
  GridIsTrue
  SessionIsOne
PROPERTIES
  LoadingEnds
