SPECIFICATION Spec
SYMMETRY Symmetry
CHECK_DEADLOCK FALSE
CONSTANTS
  root = root
  u1 = u1
  u2 = u2
  s1 = s1
  s2 = s2
  w1 = w1
  w2 = w2
  User = {root, u1, u2}
  Root = root
  Session = {s1, s2}
  Worker = {w1, w2}
  None = None
INVARIANTS TypeOK SessionsEnd
PROPERTY AdminKept
