SPECIFICATION Spec
CHECK_DEADLOCK FALSE
SYMMETRY Symmetry
CONSTANTS
    t1 = t1
    t2 = t2
    Threads = {t1, t2}
    NoThread = NoThread
    Root <- SessionAndSubagent
    Procs = {p1, p2}
    Managed = Managed
    Others = {}
    Listed = {t1}
    Nobody = Nobody
    MaxLen <- Lengths
    MaxFaults = 1
INVARIANTS
    TypeOK
    LiveTurnsLookLive
PROPERTIES
    StopsEndOnlyTheirSession
    NoTurnForked
