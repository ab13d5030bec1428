SPECIFICATION Spec
CONSTANTS
  Trees <- NoTrees
  Texts <- ReprintTexts
  Bindings <- Root
  MaxDepth = 7
  MaxSteps = 24
  MaxItems = 5
INVARIANTS
  CanonicalTextStable
CHECK_DEADLOCK FALSE
