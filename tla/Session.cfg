SPECIFICATION Spec
CONSTANTS
  Request = {r1}
  Key = {"user"}
  Versions = {1, 2}
  Inputs <- SomeInputs
  Durations = {0, 1}
  MaxClock = 2
  Steps = 3
  SessionValueName = session
  None = None
INVARIANTS
  TypeOK
  
  SessionLivesItsDuration
CHECK_DEADLOCK FALSE
