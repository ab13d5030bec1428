SPECIFICATION Spec
CONSTANTS
  Trees <- TreeSet
  Texts <- TextSet
  Bindings <- Root
  MaxDepth = 7
  MaxSteps = 24
  MaxItems = 5
INVARIANTS
  RoundTrip
  DependenciesSound
  CleanupBalanced
  NoFailureLost
  BudgetIsFinal
CHECK_DEADLOCK FALSE
