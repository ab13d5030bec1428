SPECIFICATION Spec
CONSTANTS
  c1 = c1
  c2 = c2
  c3 = c3
  Caller <- Callers3
  Frame <- FamilyFrames
  Def <- FamilyDefs
  OwnerOf <- FamilyOwner
  Lineage <- FamilyLineage
  Deps <- FamilyDeps
  Script <- FamilyScript
  Impatient <- Callers3
  Tolerant <- NoDefs
  Fallible <- JustBase
  Interruptible <- NoDefs
  Stubborn <- JustBase
  Aliasing <- JustLeaf
  TaskLimit = 6
  MixinLimit = 0
SYMMETRY CallerSymmetry
INVARIANTS SingleOwner EveryObjectReleased AnswerCurrent ClosedIsQuiet CancellationHasCause CircleNeedsTwoFlights
PROPERTIES ImplementsStore
