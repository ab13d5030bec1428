SPECIFICATION Spec
CONSTANTS
  c1 = c1
  c2 = c2
  c3 = c3
  Caller <- Callers2
  Frame <- ShopFrames
  Def <- CycleDefs
  OwnerOf <- CycleOwner
  Lineage <- ShopLineage
  Deps <- CycleDeps
  Script <- RaceScript
  Impatient <- NoCallers
  Tolerant <- NoDefs
  Fallible <- NoDefs
  Interruptible <- NoDefs
  Stubborn <- NoDefs
  Aliasing <- NoDefs
  TaskLimit = 3
  MixinLimit = 0
INVARIANT CircularPathsDoNotDeadlock
