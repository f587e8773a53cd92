CONSTANTS
  k1 = k1
  k2 = k2
  Conn <- OneConn
  MaxRequests = 3
  Commands = {"connect", "cancel", "disconnect", "use", "exit"}
  IdleEviction = TRUE
SPECIFICATION Spec
INVARIANT TypeOK
INVARIANT PoolHoldsOpenSessions
INVARIANT StatementKeepsSession
INVARIANT FlaggedLeavesPool
INVARIANT OpenSessionIsOwned
INVARIANT CleanExit
PROPERTY ImplementsSessionPool
