SPECIFICATION RunSpec
CONSTANTS
    MaxTries = 2
    RetryOnRaise = TRUE
    MaxFaults = 1
    MaxChunks = 2
    MaxCancels = 0
    Faults = {}
    BatchLimit = 2
    MaxBreaks = 1
    Breaks = {"server"}
CHECK_DEADLOCK FALSE
PROPERTY
    ReconnectsAfterUnavailable
