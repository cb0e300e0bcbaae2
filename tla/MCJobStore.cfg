\* One job through all its attempts and a manual retry, two workers.
SPECIFICATION Spec
CONSTANTS
    NULL = NULL
    Jobs = {j1}
    Workers = {w1, w2}
    MaxAttempts = 3
    Reports = {50, 150}
    LeaseTime = 2
    RetryDelays <- MCDelays3
    SchedulerBatch = 1
    RecoveryBatch = 1
    ApiSkew = 0
    MaxTime = 9
    MaxClaims = 6
INVARIANTS
    TypeOK
    OwnershipIffProcessing
    OnlyNewestAttemptOwns
    OwnerCanAlwaysSettle
    PendingIsClaimable
    BudgetExact
    OutcomeIsNewest
    NeverEarly
PROPERTIES
    FinishedStaysFinished
    RefinesLifecycle
SYMMETRY MCSymmetry
CHECK_DEADLOCK FALSE
