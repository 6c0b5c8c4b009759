SPECIFICATION Spec
CONSTANTS
  a = a
  b = b
  o1 = o1
  o2 = o2
  r1 = r1
  r2 = r2
  Thread = {a, b}
  Object = {o1, o2}
  Weak = {r1}
  None = None
  Address <- AddressOf
  Owner <- OwnerOf
  MaxHolds = 1
INVARIANTS RefCounting WeakRefsExact NoDeadlock
PROPERTY ClearedOnlyLast
CHECK_DEADLOCK FALSE
