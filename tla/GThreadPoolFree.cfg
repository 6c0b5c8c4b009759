SPECIFICATION Spec
CONSTANTS
  p1 = p1
  p2 = p2
  w1 = w1
  w2 = w2
  w3 = w3
  t1 = t1
  t2 = t2
  t3 = t3
  Pool = {p1}
  MaxPools = 1
  Task = {t1, t2}
  Thread = {w1, w2}
  None = None
  Bogus = Bogus
  Marker = Marker
  Limits = {2}
  NewLimits = {}
  UnusedLimits = {}
  MaxChanges = 0
  MaxFailures = 0
INVARIANT FreeFuncExact
CHECK_DEADLOCK FALSE
