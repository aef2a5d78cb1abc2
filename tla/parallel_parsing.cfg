SPECIFICATION FairSpec
CONSTANTS
  FileCount = 5
  WorkerCount = 3
  MinimumParallelFiles = 2
  Unparsable = {2}
  Faults = {"script", "start", "post", "crash", "reply"}
  None = None
INVARIANT NextResultIsUnderWay
INVARIANT TasksAreInOnePlace
INVARIANT WorkersAreTerminated
PROPERTY StageEnds
PROPERTY ParsesEveryFile
PROPERTY AbortStartsNothing
CHECK_DEADLOCK FALSE
