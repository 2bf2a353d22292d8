SPECIFICATION Spec
CONSTANTS
    Viewers = {v1, v2}
    Folders = {f1}
    Repos = {r1}
    NoKey = NoKey
    Freshness = 2
    FolderClaim = 2
    RepoClaim = 2
    Retry = 1
    PruneEvery = 2
    Lag = 1
    MaxNow = 4
    MaxFaults = 2
SYMMETRY Symmetry
INVARIANTS
    TypeOK
    LateResultsFenced
    OneLiveLookup
    AnswersInTimeCount
CHECK_DEADLOCK FALSE
