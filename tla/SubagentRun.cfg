SPECIFICATION TreeSpec
CONSTANTS
    MaxTries = 3
    RetryOnRaise = FALSE
    MaxFaults = 2
    MaxChunks = 2
    MaxCancels = 1
    MaxSlips = 1
    Faults = {"crash", "timeout", "api"}
CHECK_DEADLOCK FALSE
INVARIANTS
    EarlyCancelHonoured
    InvokedOnce
    ActiveChildIsCalled
PROPERTIES
    ChildLifecycle
    CancelEndsRun
    CancelStopsSubagent
    RunEnds
