SPECIFICATION FairSpec
CONSTANTS
    Roots = {root1, root2}
    Kinds = {"entity", "impact", "commit", "pullRequest"}
    Parents = {parent}
    None = None
    MaxVersion = 2
    MaxAnalyses = 1
    MaxRequests = 1
    MaxActs = 1
CHECK_DEADLOCK FALSE
INVARIANTS
    LoadingIsAnswered
    ResultsMatchAnalysis
PROPERTIES
    OpensInWorkspace
    PageFollowsService
