SPECIFICATION Spec
CONSTANTS
    Keys = {s1}
    Jobs = {"stop", "remove"}
    NoJob = NoJob
    Taken = Taken
    NoSession = NoSession
INVARIANT FailedStopForgets
