\* One job, three requests that race each other, the owner and the sweeps.
SPECIFICATION ApiSpec
CONSTANTS
    NULL = NULL
    Jobs = {j1}
    UnknownId = nobody
    Requests = {q1, q2, q3}
    Workers = {w1}
    Reports = {50}
    MaxAttempts = 2
    LeaseTime = 1
    RetryDelays <- Delays
    SchedulerBatch = 1
    RecoveryBatch = 1
    ApiSkew = 0
    MaxTime = 4
    MaxClaims = 5
SYMMETRY MCSymmetry
INVARIANTS
    CancelledForGood
    OneCyclePerRetry
CHECK_DEADLOCK FALSE
