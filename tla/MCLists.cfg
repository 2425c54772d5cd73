SPECIFICATION ListSpec
CONSTANTS
  Row = {1, 2, 3, 4, 5}
  Limit = 2
  MaxTime = 3
INVARIANTS StablePages
CHECK_DEADLOCK FALSE
