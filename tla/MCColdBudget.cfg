SPECIFICATION Spec
CONSTANTS
    Calls = {p1, p2}
    Keys = {k1, k2}
    None = None
    Burst = 3
    Window = 2
    Grain = 4194304
    MaxKeys = 2
    MaxNow = 5
    MaxStarts = 4
INVARIANTS
    TypeOK
    RateBetweenSweeps
    RetryIsHonest
PROPERTY RefusedOnlyWhenSpent
SYMMETRY MCSymmetry
CHECK_DEADLOCK FALSE
