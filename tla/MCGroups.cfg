SPECIFICATION Explored
SYMMETRY Symmetry
CONSTANTS
  root = root
  g1 = g1
  g2 = g2
  g3 = g3
  w1 = w1
  w2 = w2
  Group = {root, g1, g2, g3}
  Root = root
  Host = {h1}
  Name = {1, 2, 3}
  Worker = {w1, w2}
  None = None
CONSTRAINT Tree
INVARIANTS TypeOK MembershipMirrorsInheritance ViewsAgree NearestWins
PROPERTIES TreeKept ReparentIsLocal
