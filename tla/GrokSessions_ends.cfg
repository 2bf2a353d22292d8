SPECIFICATION FairSpec
CONSTANTS
    Leaders = {l1, l2}
    NoLeader = NoLeader
    Words = {"working", "idle", "completed", "other"}
INVARIANTS
    SessionTypeOK
    RowIgnoresOrder
PROPERTIES
    LiveTurnsAreKept
    StopsAreTrue
    MutationsEnd
