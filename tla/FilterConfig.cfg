SPECIFICATION FCSpec
CONSTANTS
  Controller = {"App", "Admin"}
  Action = {"App.Index", "App.Show"}
  Of <- Owner
  Default <- SessionAndInvoker
  NewFilter = {"F"}
  Calls = 4
INVARIANTS
  ControllersApart
  ConfiguredUnlessInherited
CHECK_DEADLOCK FALSE
