SPECIFICATION Spec
CONSTANTS
    MaxRuns = 2
    MaxDials = 2
    DialErrCap = 1
    MaxRequests = 2
    KeepaliveLimit = 2
    MaxSessions = 2
    Chunks = 1
    Codes <- MCCodes
INVARIANTS
    RunResultIsTrue
    Accounted
PROPERTIES
    AlwaysCloses
CHECK_DEADLOCK FALSE
