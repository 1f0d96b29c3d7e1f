SPECIFICATION KbSpec
CONSTANTS
    NChunks = 2
    BatchSize = 1
    MaxStarts = 2
    MaxGraph = 1
    MaxFaults = 1
INVARIANTS RowIndexedIsSearchable VectorsOnce OneAtATime SetIsLeft GraphMatchesMarks DeletedLeavesNothing
PROPERTIES OnlyUnlockedRevives BuildLeavesOnlyFailures
CHECK_DEADLOCK FALSE
