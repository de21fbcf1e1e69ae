SPECIFICATION FCSpec
CONSTANTS
  Controller = {"App", "Admin"}
  Action = {"App.Index", "App.Show"}
  Of <- Owner
  Default <- SessionAndInvoker
  NewFilter = {"F"}
  Calls = 3
INVARIANTS
  ChainsAsConfigured
CHECK_DEADLOCK FALSE
