SPECIFICATION FairSpec
CONSTANTS
  c1 = c1
  c2 = c2
  c3 = c3
  Caller <- Callers3
  Frame <- ShopFrames
  Def <- ShopDefs
  OwnerOf <- ShopOwner
  Lineage <- ShopLineage
  Deps <- LoopDeps
  Script <- PairScript
  Impatient <- Callers3
  Tolerant <- JustTotal
  Fallible <- NoDefs
  Interruptible <- JustPrice
  Stubborn <- NoDefs
  Aliasing <- NoDefs
  TaskLimit = 5
  MixinLimit = 1
INVARIANT Inv
PROPERTY EveryCallReturns
