SPECIFICATION Spec
CONSTANTS
    Keys = {s1, s2}
    Jobs = {"stop", "remove"}
    NoJob = NoJob
    Taken = Taken
    NoSession = NoSession
SYMMETRY Symmetry
INVARIANTS
    TypeOK
    SealedWhileBusy
    OnlyClearedAreRemoved
    FailedStopRetries
