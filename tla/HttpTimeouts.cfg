SPECIFICATION FairSpec
CONSTANTS
    MaxAttempts = 3
    TimeLimit = 6
    RetryBase = 3
    RetryCap = 6
    ErrorBase = 2
    RetryAfters = {0}
INVARIANTS
    CancelledWasAsked
CHECK_DEADLOCK FALSE
