SPECIFICATION Spec
CONSTANTS
    Viewers = {v1, v2}
    NoOwner = NoOwner
    Freshness = 1
    Lease = 1
    Horizon = 1
    MaxNow = 3
    MaxTruth = 2
    MaxFaults = 1
    Prompt = FALSE
SYMMETRY Symmetry
INVARIANTS
    TypeOK
    FreshHoldsMutations
    CursorCoversPayload
PROPERTIES
    ImplementsSharedListing
