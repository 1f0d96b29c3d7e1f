SPECIFICATION AnsweringSpec
CONSTANTS
    MaxTries = 2
    RetryOnRaise = FALSE
    MaxFaults = 1
    MaxChunks = 1
    MaxCancels = 0
    Faults = {"raise"}
CHECK_DEADLOCK FALSE
PROPERTY
    RetryFollows
