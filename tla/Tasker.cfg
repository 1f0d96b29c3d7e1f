SPECIFICATION FairSpec
CONSTANTS
    Tasks = {t1, t2}
    Workers = {w1, w2}
    NoTask = NoTask
    Keys = {"a", "b"}
    Timed = {"a", "b"}
    Tidy = {"a"}
    MaxDeletes = 1
    MaxFails = 1
    MaxStops = 1
CHECK_DEADLOCK FALSE
INVARIANTS
    OverlapOnlyByDelete
    ActiveTaskIsHeld
    CancelBeatsSuccess
PROPERTIES
    OutcomeStays
    TaskEnds
    ShutdownReturns
