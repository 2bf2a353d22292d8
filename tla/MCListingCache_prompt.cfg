SPECIFICATION FairSpec
CONSTANTS
    Viewers = {v1, v2}
    NoOwner = NoOwner
    Freshness = 1
    Lease = 2
    Horizon = 4
    MaxNow = 3
    MaxTruth = 2
    MaxFaults = 1
    Prompt = TRUE
INVARIANT
    AtMostOneLister
PROPERTY
    InvalidatedReachesEveryViewer
