SPECIFICATION Spec
CONSTANTS
    c1 = c1
    c2 = c2
    c3 = c3
    c4 = c4
    c5 = c5
    NoRun = NoRun
    Calls <- McCalls
    RequestId <- McRequestId
    Kind <- McKind
CHECK_DEADLOCK FALSE
INVARIANTS
    SameAnswer
    QueuedRunsAreCommitted
    AnsweredInterruptHidden
