SPECIFICATION Spec
CONSTANTS
    MaxTries = 2
    RetryOnRaise = TRUE
    MaxFaults = 2
    MaxChunks = 3
    MaxCancels = 1
    Faults <- FaultKinds
CHECK_DEADLOCK FALSE
INVARIANTS
    EndOnlyOfTerminal
    FirstEndTruthful
    NothingOvertaken
PROPERTY
    LifecycleSpec
