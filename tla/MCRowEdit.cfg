SPECIFICATION Spec
CONSTANTS
  NULL = NULL
  PageSize = 2
  MaxRows = 2
  MaxSteps = 3
  Sorts <- TwoSorts
CHECK_DEADLOCK FALSE
INVARIANT ResultIsHonest
PROPERTY WritesAreExact
PROPERTY PageIsWhole
