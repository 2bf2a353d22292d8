SPECIFICATION FairSpec
CHECK_DEADLOCK FALSE
CONSTANTS
    Sockets = {s1, s2}
    Nobody = Nobody
    MaxChunks = 2
    FrameChunks = 2
    SinkFrames = 2
    SinkBytes = 3
INVARIANTS
    TypeOK
PROPERTIES
    ImplementsScreenMirror
    PhoneCatchesUp
