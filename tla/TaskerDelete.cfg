SPECIFICATION Spec
CONSTANTS
    Tasks = {t1, t2, t3}
    Workers = {w1, w2}
    NoTask = NoTask
    Keys = {"a", "b"}
    Timed = {"a", "b"}
    Tidy = {"a"}
    MaxDeletes = 1
    MaxFails = 0
    MaxStops = 1
CHECK_DEADLOCK FALSE
SYMMETRY Symmetry
INVARIANT
    OneCoroutinePerKey
