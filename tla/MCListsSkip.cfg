SPECIFICATION ListSpec
CONSTANTS
  Row = {1, 2, 3}
  Limit = 1
  MaxTime = 2
INVARIANT AllGiven
CHECK_DEADLOCK FALSE
