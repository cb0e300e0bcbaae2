\* Two jobs, two recovery loops that sweep in steps, heartbeats in between.
SPECIFICATION SweepSpec
CONSTANTS
    NULL = NULL
    Jobs = {j1, j2}
    Workers = {w1}
    Sweepers = {s1, s2}
    Reports = {50}
    MaxAttempts = 2
    LeaseTime = 1
    RetryDelays <- Delays
    SchedulerBatch = 2
    RecoveryBatch = 2
    ApiSkew = 0
    MaxTime = 3
    MaxClaims = 3
SYMMETRY MCSymmetry
PROPERTIES
    TakesOnlyExpired
    RefinesLifecycle
CHECK_DEADLOCK FALSE
