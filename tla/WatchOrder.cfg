SPECIFICATION OrderFairSpec
CONSTANTS
    Classes = {"evidence-creating", "exclusive"}
    Scopes = {"a", "b"}
    NoScope = NoScope
    HandlerStatuses = {}
    HistoryLimit = 1
    MaxTasks = 3
    Watches = {1, 2}
    ScopeOf <- MCScopeOf
    PollInterval <- MCPollInterval
    Backoff = 2
    Malformed = {}
    SharedGate = {}
    OtherClasses = {}
    NoWatch = NoWatch
    MaxTime = 3
PROPERTIES
    NoSecondOvertaking
    RunsSpaced
    DueWatchRuns
CHECK_DEADLOCK FALSE
