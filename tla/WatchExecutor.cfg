SPECIFICATION WatchSpec
CONSTANTS
    Classes = {"evidence-creating", "exclusive"}
    Scopes = {"a", "b"}
    NoScope = NoScope
    HandlerStatuses = {}
    HistoryLimit = 1
    MaxTasks = 2
    Watches = {1, 2}
    ScopeOf <- MCScopeOf
    PollInterval <- MCPollInterval
    Backoff = 2
    Malformed = {2}
    SharedGate = {1}
    OtherClasses = {"exclusive"}
    NoWatch = NoWatch
    MaxTime = 2
INVARIANTS
    WatchTypeOK
    OneRunAtATime
    RunIsRemembered
CHECK_DEADLOCK FALSE
