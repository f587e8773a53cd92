CONSTANTS
  k1 = k1
  k2 = k2
  Conn <- TwoConns
  MaxRequests = 2
  Commands = {"connect", "cancel", "disconnect", "use", "delete", "save", "list", "exit"}
  IdleEviction = FALSE
SPECIFICATION FairSpec
PROPERTY EveryRequestAnswered
PROPERTY ReaperDisconnects
PROPERTY ExitTerminates
