SPECIFICATION PartsSpec
CONSTANTS
  Subjects = {"bindings"}
  ObjectLimit = 4
  CommitLimit = 4
  Name <- CacheNames
  MayAlias = TRUE
  Offers <- SmallOffers
  Updates <- SmallUpdates
  Defaults <- SmallDefaults
  Lookups <- SmallLookups
  MaxFrames = 3
  MaxEvents = 2
  Definitions <- Ordered
  Externals = {"external"}
  MaxEdges = 3
  Groups <- Commands
  Names = {"key", "run", "group", "reserved"}
  Reserved = {"reserved"}
  ValidDates = {"day"}
  Alphabet <- Arguments
  MaxTokens = 4
  FaultLimit = 3
  Installation <- Hooking
  Optional <- Asking
  ThirdParty = {"other"}
  Native = "native"
  Worker = {0, 1}
  Thread = {"main", "pool"}
  WorkerCount = 2
  SequenceCount = 2
  TimestampCount = 2
  Time <- ClockTime
  Free = Free
  Unread = Unread
  IssueLimit = 3
INVARIANT OpenDescendantsChecked
CHECK_DEADLOCK FALSE
