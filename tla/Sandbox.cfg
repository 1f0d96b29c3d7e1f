SPECIFICATION Spec
CONSTANTS
    Processes = {api, worker}
    Api = api
    KeepAlive = 2
    Latency = 1
    ExecTimeout = 2
    Configured = 2
    Margin = 3
    MaxCommands = 3
    MaxFaults = 2
INVARIANTS RunningIsNotExpired UntrackedIsExplained
PROPERTIES CommandFindsSandbox AbandonedIsReaped
