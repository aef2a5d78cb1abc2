SPECIFICATION ReopenedSpec
CONSTANTS
  Roots = {r1}
  Paths = {p1, p2}
  Contents = {a, b}
  None = None
  Absent = Absent
  ImpactCallers = {}
  Failures = {}
  MaxPendingPaths = 1
  MaxGeneration = 2
  MaxEpoch = 3
  MaxFileEvents = 2
  MaxSequence = 2
  MaxVersion = 2
PROPERTY ChangesAreAnalysed
PROPERTY Converges
CHECK_DEADLOCK FALSE
