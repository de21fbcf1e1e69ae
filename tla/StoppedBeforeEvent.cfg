SPECIFICATION Spec
CONSTANTS
  Request = {r1, r2}
  Outsider = {o1}
  StartHooks <- ThreeHooks
  StopHooks <- TwoHooks
  InsertionLimit = 2
  PathPrefixes <- TwoPrefixes
  Paths <- TwoPaths
  None = None
INVARIANT StoppedBeforeShutdownEvent
