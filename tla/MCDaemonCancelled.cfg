CONSTANTS
  k1 = k1
  k2 = k2
  Conn <- OneConn
  MaxRequests = 3
  Commands = {"connect", "cancel", "disconnect", "use"}
  IdleEviction = FALSE
SPECIFICATION ThreadSpec
PROPERTY CancelledIsAnswered
