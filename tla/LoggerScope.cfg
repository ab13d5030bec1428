SPECIFICATION FairSpec
CONSTANTS
  Console = "console"
  File = {"audit"}
  Sized = {"audit"}
  Timed = {"audit"}
  MaxBytes = 2
  Header = 1
  Scope = {"first", "second"}
  Producer = {"worker", "request"}
  Wrapped = {"request"}
  Selected <- LogSelected
  RecordLimit <- LogRecords
  FaultLimit = 1
  RotateLimit = 1
INVARIANTS
  ExclusiveScope
  RestoredOutside
  AdmittedHandled
  SinkInv
PROPERTY LeavingEnds
