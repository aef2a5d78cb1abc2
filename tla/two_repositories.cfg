SPECIFICATION Spec
CONSTANTS
  Roots = {r1, r2}
  Paths = {p1}
  Contents = {a, b}
  None = None
  ImpactCallers = {}
  Failures = {"storage"}
  MaxPendingPaths = 1
  MaxGeneration = 2
  MaxEpoch = 2
  MaxSequence = 1
  MaxVersion = 2
INVARIANT TypeOK
INVARIANT BaselineMatchesCurrent
INVARIANT CurrentIsStored
INVARIANT OperationTracksService
SYMMETRY Symmetry
