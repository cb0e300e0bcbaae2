\* Three requests with one key, time for it to expire twice; no symmetry, since
\* liveness is checked.
SPECIFICATION FairSpec
CONSTANTS
    NULL = NULL
    Requests = {r1, r2, r3}
    TTL = 2
    MaxTime = 4
INVARIANTS
    TypeOK
    OneJobPerWindow
    KeyStaysOnNewest
    RaisesOnlyAfterExpiry
PROPERTIES
    ReplayGetsOriginal
    EveryRequestEnds
CHECK_DEADLOCK FALSE
