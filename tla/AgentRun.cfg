SPECIFICATION WatchingSpec
CONSTANTS
    MaxTries = 2
    RetryOnRaise = TRUE
    MaxFaults = 1
    MaxChunks = 2
    MaxCancels = 0
    Faults = {"crash", "raise"}
    BatchLimit = 2
    MaxBreaks = 1
    Breaks = {"network", "away", "server", "limit"}
CHECK_DEADLOCK FALSE
INVARIANTS
    EndIsComplete
    ScreenMatchesCursor
PROPERTIES
    NeverAbandoned
    WatcherLearns
