SPECIFICATION FairSpec
CHECK_DEADLOCK FALSE
CONSTANTS
    Keys = {k1}
    Clients = {c1, c2}
    NoClient = NoClient
    Limit = 1
    MaxGeneration = 1
    MaxConnection = 4
    FreshMayFail = TRUE
    ReattachMayFail = TRUE
INVARIANT StrandedOnlyInDispute
PROPERTY
    AbandonedChildDies
