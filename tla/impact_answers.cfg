SPECIFICATION ImpactSpec
CONSTANTS
    Files = {1, 2, 3, 4, 5, 6, 7}
    Comparisons <- MCComparisons
    MaxDepth = 3
    MaxEntities = 4
    MaxEvidencePaths = 3
    MaxTargets = 4
    MaxImpactedEntities = 4
INVARIANTS
    SearchIsExact
    EvidenceIsShortest
    CompleteAnswerIsWhole
    AnswerIsReached
CHECK_DEADLOCK FALSE
