SPECIFICATION Spec
CONSTANTS
    Viewers = {v1, v2}
    Spawns = {p1}
    Sessions = {s1}
    Folders = {f1}
    NoSession = NoSession
    NoSpawn = NoSpawn
    Nobody = Nobody
    Nowhere = Nowhere
    Before = 0
    After = 1
    Abandon = 2
    Retention = 2
    Lag = 1
    LaunchBy = 1
    MaxNow = 4
    MaxFaults = 1
INVARIANT
    TypeOK
PROPERTY
    RecordsOutliveListings
    SpawnsSettle
    PinsShow
