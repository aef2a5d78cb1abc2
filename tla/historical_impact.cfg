SPECIFICATION FairSpec
CONSTANTS
  Chunks = 2
  MaxChunks = 1
  MaxParents = 2
INVARIANT CommandIsReleased
INVARIANT TreesAreReleased
INVARIANT AnalysedTreesAreWhole
PROPERTY EveryRequestEnds
