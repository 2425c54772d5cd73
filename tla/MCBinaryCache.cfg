SPECIFICATION Spec
SYMMETRY Symmetry
CONSTANTS
  Request = {r1, r2, r3}
  MaxUpload = 2
  Chunks = 2
  None = None
INVARIANTS TypeOK ServedMatches StagedIsServed
PROPERTIES FreshStart
CHECK_DEADLOCK FALSE
