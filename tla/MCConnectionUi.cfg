CONSTANTS
  c1 = c1
  c2 = c2
  None = None
  Conn <- OneConn
  MaxCalls = 5
  Actions = {"connect", "disconnect", "refresh", "edit", "delete", "db"}
SPECIFICATION FairSpec
INVARIANT TypeOK
INVARIANT AbortIsFinal
PROPERTY LoadingEnds
