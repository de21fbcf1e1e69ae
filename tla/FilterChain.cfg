SPECIFICATION FairSpec
CONSTANTS
  Session = {empty, s1}
  NoSession = empty
  Message = {m1}
  None = None
  Unsent = Unsent
INVARIANTS
  HooksComplete
  PanicNeverAnsweredByPage
  NoTempFileLeft
  SessionCarriedOver
  OneShotCookies
PROPERTIES
  LastResultCounts
  Completes
