SPECIFICATION Spec
CONSTANTS
  Chunks = 2
  MaxChunks = 1
  MaxParents = 2
INVARIANT OnlyMergesNeedAParent
