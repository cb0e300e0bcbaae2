\* Two jobs left by Phase 3, an upgrade, and one downgrade and upgrade later.
SPECIFICATION MigrationSpec
CONSTANTS
    NULL = NULL
    Jobs = {j1, j2}
    Workers = {w1}
    LegacyWorker = w1
    MaxDowngrades = 1
    Reports = {}
    MaxAttempts = 2
    LeaseTime = 1
    RetryDelays <- Delays
    SchedulerBatch = 2
    RecoveryBatch = 2
    ApiSkew = 0
    MaxTime = 2
    MaxClaims = 4
INVARIANTS
    RecoverableAfterUpgrade
    OldAttemptsFenced
    BudgetSurvives
CHECK_DEADLOCK FALSE
