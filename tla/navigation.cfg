SPECIFICATION FairSpec
CONSTANTS
  Routes = {"overview", "architecture", "knowledge"}
  Overview = "overview"
  MaxRevision = 1
  MaxActs = 4
  MaxMessages = 3
  LosesPosted = FALSE
  None = None
INVARIANT DeliveredReachesPage
PROPERTY RoutesConverge
