SPECIFICATION Spec
CHECK_DEADLOCK FALSE
CONSTANTS
    Keys = {k1}
    Clients = {c1, c2}
    NoClient = NoClient
    Limit = 1
    MaxGeneration = 1
    MaxConnection = 2
    FreshMayFail = FALSE
    ReattachMayFail = FALSE
INVARIANT NewConnectionWins
