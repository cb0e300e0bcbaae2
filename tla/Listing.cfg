\* Four jobs, created at three times, read in pages of one.
SPECIFICATION Spec
CONSTANTS
    Ids = {1, 2, 3, 4}
    Limit = 1
    MaxTime = 2
INVARIANTS
    NoJobSkipped
CHECK_DEADLOCK FALSE
