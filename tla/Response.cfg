SPECIFICATION Spec
CONSTANTS
  None = None
  Bad = Bad
  Coding <- MCCoding
  MaxCodings = 3
  Bodies <- MCBodies
  Steps = 3
INVARIANTS Transparent WireHonest EncodingAccepted
CHECK_DEADLOCK FALSE
