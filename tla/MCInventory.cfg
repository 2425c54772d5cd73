SPECIFICATION Spec
SYMMETRY Symmetry
CHECK_DEADLOCK FALSE
CONSTANTS
  s1 = s1
  s2 = s2
  p1 = p1
  p2 = p2
  n1 = n1
  a = a
  b = b
  k = k
  k2 = k2
  w1 = w1
  w2 = w2
  Serial = {s1, s2}
  Slot = {p1, p2}
  Anon = {n1}
  Key = {k, k2}
  Value = {a, b}
  Hostname = k
  Worker = {w1, w2}
  None = None
  Snapshot <- Snapshots
  Report <- Reports
INVARIANTS TypeOK 
PROPERTIES OnePerSlot Settles
