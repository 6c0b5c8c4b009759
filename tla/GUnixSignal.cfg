SPECIFICATION FairSpec
CONSTANTS
  c1 = c1
  c2 = c2
  g1 = g1
  g2 = g2
  a1 = a1
  a2 = a2
  ChildWatch = {c1}
  SignalWatch = {g1}
  Activation = {a1}
  MaxSignals = 2
  None = None
INVARIANTS NothingForgotten WatchesSound
PROPERTY Reported
CHECK_DEADLOCK FALSE
