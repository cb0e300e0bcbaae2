\* Two jobs in one queue and one batch, a manual retry, one failed call.
SPECIFICATION Spec
CONSTANTS
    NULL = NULL
    NoEntry = NoEntry
    Jobs = {j1, j2}
    Workers = {w1, w2}
    Mortal = {w1, w2}
    Priority <- MCSamePriority
    MaxAttempts = 1
    SchedulerBatch = 2
    RecoveryBatch = 2
    MaxRetries = 1
    MaxFaults = 1
SYMMETRY MCSymmetry
INVARIANTS
    PendingIsVisible
    ProcessingIsTended
PROPERTY RefinesLifecycle
CHECK_DEADLOCK FALSE
