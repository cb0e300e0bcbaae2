\* The clock of the API is one tick ahead of the database.
SPECIFICATION Spec
CONSTANTS
    NULL = NULL
    Jobs = {j1}
    Workers = {w1, w2}
    MaxAttempts = 3
    Reports = {50, 150}
    LeaseTime = 2
    RetryDelays <- MCDelays3
    SchedulerBatch = 1
    RecoveryBatch = 1
    ApiSkew = 1
    MaxTime = 9
    MaxClaims = 6
INVARIANT NeverEarly
CHECK_DEADLOCK FALSE
