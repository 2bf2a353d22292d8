SPECIFICATION Spec
CHECK_DEADLOCK FALSE
CONSTANTS
    Keys = {k1, k2}
    Clients = {c1, c2}
    NoClient = NoClient
    Limit = 1
    MaxGeneration = 2
    MaxConnection = 2
    FreshMayFail = TRUE
    ReattachMayFail = TRUE
SYMMETRY Symmetry
INVARIANTS
    TypeOK
    WithinLimit
    NoGhostOwner
PROPERTY
    AdoptedSurvivesGrace
