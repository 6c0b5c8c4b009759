SPECIFICATION Spec
CONSTANTS
  u1 = u1
  u2 = u2
  u3 = u3
  c1 = c1
  c2 = c2
  Owner = Owner
  User = {u1, u2, u3}
  Callback = {c1, c2}
  None = None
SYMMETRY Symmetry
INVARIANTS RefCounting FinalizeMayCall
