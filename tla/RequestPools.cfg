SPECIFICATION Spec
CONSTANTS
  t1 = t1
  t2 = t2
  n1 = n1
  n2 = n2
  Slot = {r1, r2}
  Context = {x1, x2}
  Controller = {k1, k2}
  App = {a1, a2, a3, a4, a5, a6, a7, a8}
  Stack = {s1, s2, s3}
  Type = {t1, t2}
  Name = {n1, n2}
  NameOf <- DistinctNames
  None = None
  ContextRoom = 1
  ControllerRoom = 1
  AppRoom = 2
  AppStart = 1
  Reuses = {TRUE, FALSE}
SYMMETRY Symmetry
INVARIANTS
  TypeOK
  Isolation
  StoredBlank
  ReceiverBound
  ReceiverOfType
