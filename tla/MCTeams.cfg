SPECIFICATION Spec
SYMMETRY Symmetry
CHECK_DEADLOCK FALSE
CONSTANTS
  boss = boss
  u1 = u1
  u2 = u2
  t1 = t1
  h1 = h1
  w1 = w1
  w2 = w2
  User = {boss, u1, u2}
  OrgAdmin = {boss}
  Team = {t1}
  Host = {h1}
  Worker = {w1, w2}
  None = None
INVARIANT TypeOK
PROPERTIES TeamAdminKept HostKeepsTeam FrozenOwnership
