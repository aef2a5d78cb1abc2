SPECIFICATION WorkspaceSpec
CONSTANTS
  Roots = {r1}
  Paths = {p1, p2}
  Contents = {a, b}
  None = None
  Absent = Absent
  ImpactCallers = {}
  Failures = {"storage"}
  MaxPendingPaths = 1
  MaxGeneration = 3
  MaxEpoch = 2
  MaxFileEvents = 2
  MaxSequence = 3
  MaxVersion = 2
INVARIANT PendingIsFlushed
INVARIANT NoLostChange
SYMMETRY Symmetry
CHECK_DEADLOCK FALSE
