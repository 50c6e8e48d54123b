SPECIFICATION FairSpec
CONSTANTS
    MaxAttempts = 3
    TimeLimit = 60
    RetryBase = 3
    RetryCap = 60
    ErrorBase = 2
    RetryAfters = {0, 2, 60, 62}
INVARIANTS
    TypeOK
    TimeBounded
    LoggedOnce
    ListenersBalanced
PROPERTIES
    ImplementsPromise
    AlwaysSettles
CHECK_DEADLOCK FALSE
