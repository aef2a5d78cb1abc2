SPECIFICATION Spec
CONSTANTS
    Windows = {w1, w2}
    Missing = Missing
    Corrupt = Corrupt
    Invalid = Invalid
    Vanished = Vanished
    Unread = Unread
    Repository = Repository
    InitialDatabases <- MCDatabases
    MaxVersion = 3
    MaxAnalyses = 3
PROPERTIES
    RecoveryIsExact
    RecoveryLosesNothing
    VersionsAreNotOverwritten
    CommitIsRecoverable
SYMMETRY Symmetry
CHECK_DEADLOCK FALSE
