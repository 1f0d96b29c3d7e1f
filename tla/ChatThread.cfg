SPECIFICATION MCSpec
CONSTANTS
    MaxRuns = 3
    Calls = {"tool", "ask"}
    MaxCalls = 1
    MaxJobs = 2
    MaxFaults = 1
CHECK_DEADLOCK FALSE
INVARIANTS
    StoredOnce
    AnsweredOnce
    QuestionsFollowAnswers
    SettledIsStored
