SPECIFICATION FairSpec
CONSTANTS
  a = a
  b = b
  u1 = u1
  s1 = s1
  Thread = {a, b}
  None = None
  User = {u1}
  Source = {s1}
  MaxFds = 1
  MaxResets = 2
INVARIANTS HandlerCalls CancelIsSeen SourceLives
PROPERTY CallsReturn
CHECK_DEADLOCK FALSE
