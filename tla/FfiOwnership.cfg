SPECIFICATION FairSpec
CONSTANTS
  MaxGas = 5
  MaxDepth = 3
INVARIANTS
  TypeOK
  FramesOwnBoxes
  NothingLeaks
PROPERTIES
  ContextsAreOwned
  CopiesAreOwned
  EverythingFreed
