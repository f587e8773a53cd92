CONSTANTS
  NULL = NULL
  Conn = {"c1", "c2"}
  Name = {"t"}
  Result = "result"
  MaxPage = 1
  Sizes = {1, 2}
  Slice = 1
  MaxActs = 4
SPECIFICATION OpenedSpec
CHECK_DEADLOCK FALSE
INVARIANTS
  WindowIsHonest
  WritesHitWhatIsShown
