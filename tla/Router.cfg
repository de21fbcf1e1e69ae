SPECIFICATION Spec
CONSTANTS
  Module = {"App", "Jobs"}
  AppModule = "App"
  Type <- Types
  Files <- SomeFiles
  ModuleFile <- OfModule
  Asked <- Questions
  Args <- Values
  Requests <- SomeRequests
  None = None
  NotFound = NotFound
INVARIANTS
  FirstLineAnswers
  CacheFollowsRefresh
  ReverseLeadsBack
