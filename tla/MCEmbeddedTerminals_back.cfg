SPECIFICATION Spec
CONSTANTS
    Sessions = {s1, s2, s3}
    NoSession = NoSession
    MaxTiles = 1
    MaxJobs = 2
SYMMETRY Symmetry
INVARIANT NothingLingers
