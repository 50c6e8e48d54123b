SPECIFICATION FairSpec
CONSTANTS
    Classes = {"metadata-only", "evidence-creating", "exclusive"}
    Scopes = {"a"}
    NoScope = NoScope
    HandlerStatuses = {"partial"}
    HistoryLimit = 1
    MaxTasks = 3
INVARIANTS
    TypeOK
    LocksMatchHandlers
    LiveTaskRecorded
PROPERTIES
    ImplementsIsolation
    LocksReleased
CHECK_DEADLOCK FALSE
