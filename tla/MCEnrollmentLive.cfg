SPECIFICATION LiveSpec
CONSTANTS
  h1 = h1
  e1 = e1
  e2 = e2
  t1 = t1
  t2 = t2
  w1 = w1
  w2 = w2
  Host = {h1}
  Enr = {e1, e2}
  Token = {t1, t2}
  Worker = {w1, w2}
  HostOf <- MCHostOf
  None = None
PROPERTIES EveryRequestEnds
\* With every host record deleted nothing is left to ask for: the system rests.
CHECK_DEADLOCK FALSE
