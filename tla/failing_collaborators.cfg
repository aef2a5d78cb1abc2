SPECIFICATION ComparisonSpec
CONSTANTS
  Roots = {r1}
  Paths = {p1}
  Contents = {a, b}
  None = None
  ImpactCallers = {c1}
  Failures = {"git", "pipeline", "storage"}
  MaxPendingPaths = 1
  MaxGeneration = 2
  MaxEpoch = 1
  MaxSequence = 2
  MaxVersion = 2
INVARIANT StorageMatchesCurrent
INVARIANT PublishedIsRecoverable
INVARIANT HistoryEndsAtCurrent
PROPERTY ImpactAnswerIsCurrent
PROPERTY WorkingTreeAnswerIsCurrent
SYMMETRY Symmetry
