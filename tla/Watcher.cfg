SPECIFICATION FairSpec
CONSTANTS
  Request = {r1, r2}
  Workers = 2
  None = None
  Setups <- ThreeSetups
  Buffer = 1
  Edits = 2
INVARIANTS
  WaitersCounted
  NoEditLost
PROPERTIES
  ServedFresh
  NotifyReturns
