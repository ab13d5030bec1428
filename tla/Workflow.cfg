SPECIFICATION Spec
CONSTANTS
  Tasks <- TreeTasks
  Contexts <- TreeContexts
  Root = "root"
  Children <- TreeChildren
  Scopes <- TreeScopes
  Acting <- TreeActing
  Covering = {"guard", "lock"}
  Talkative = {"root", "load", "lock"}
  Reports = {"FAILURE", "FAILURE_COVERED", "PENDING"}
  StepStatuses = {"RUNNING", "ERROR"}
  CallResults = {"SKIPPED", "FAILURE_COVERED", "ERROR"}

  
  
PROPERTY NothingBeginsAfterFailure
