\* Two jobs at two priorities, stale candidates removed at any time, restarts
\* from whatever was saved; numbers are printed with three binary digits.
SPECIFICATION Spec
CONSTANTS
    Jobs = {j1, j2}
    NoEntry = NoEntry
    Priorities = {50, 150}
    MaxSequence = 4
    MaxRestarts = 1
    Base = 2
    Width = 3
INVARIANTS
    TypeOK
    SetMatchesHash
    PrintedOrderMatches
PROPERTIES
    LateRemovalHarmless
    NewcomersGoBehind
SYMMETRY MCSymmetry
CHECK_DEADLOCK FALSE
