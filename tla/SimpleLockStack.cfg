SPECIFICATION StackSpec
CONSTANTS
  Client = {c1, c2, c3}
  Object = {o1, o2, o3, o4, o5, o6}
  NoObject = NoObject
  StartSizes = {0, 1, 3}
  MaxSizes = {0, 1, 2, 3}
  MaxNode = 3
  MaxActive = 5
SYMMETRY Symmetry
INVARIANTS
  StackTypeOK
  Linked
  Exclusive
  StoredClean
  ActiveCoversHeld
PROPERTY Implements
CHECK_DEADLOCK FALSE
