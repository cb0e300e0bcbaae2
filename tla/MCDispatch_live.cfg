\* One job.  One worker stays up (w2), the other may crash or
\* be stopped; two calls or heartbeats fail.
SPECIFICATION FairSpec
CONSTANTS
    NULL = NULL
    NoEntry = NoEntry
    Jobs = {j1}
    Workers = {w1, w2}
    Mortal = {w1}
    Priority <- MCSamePriority
    MaxAttempts = 2
    SchedulerBatch = 1
    RecoveryBatch = 1
    MaxRetries = 0
    MaxFaults = 2
INVARIANTS
    TypeOK
PROPERTIES
    EventuallySettled
    StaleEntriesDrain
    StopLeadsToExit
CHECK_DEADLOCK FALSE
