\* One worker that stays up, one call that fails.
SPECIFICATION FairSpec
CONSTANTS
    NULL = NULL
    NoEntry = NoEntry
    Jobs = {j1}
    Workers = {w1}
    Mortal = {}
    Priority <- MCSamePriority
    MaxAttempts = 2
    SchedulerBatch = 1
    RecoveryBatch = 1
    MaxRetries = 0
    MaxFaults = 1
PROPERTY LostIsOnlyDelay
CHECK_DEADLOCK FALSE
