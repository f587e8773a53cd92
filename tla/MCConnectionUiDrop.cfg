CONSTANTS
  c1 = c1
  c2 = c2
  None = None
  Conn <- TwoConns
  MaxCalls = 7
  Actions = {"connect", "db"}
SPECIFICATION Spec
INVARIANT DropsWhereShown
