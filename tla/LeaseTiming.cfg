\* The defaults in units of five seconds (60, 20, 5) and calls of up to five
\* seconds: the lease survives one failed beat, exactly, and two may fail.
SPECIFICATION Spec
CONSTANTS
    Lease = 12
    Heartbeat = 4
    Interval = 1
    CallDelay = 1
    BeatDelay = 1
    MaxFailed = 2
INVARIANTS
    TypeOK
    OwnerKeepsLease
    RecoveredInTime
    GhostIsShort
CHECK_DEADLOCK FALSE
