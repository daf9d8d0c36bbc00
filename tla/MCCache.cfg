SPECIFICATION Spec
CONSTANTS
    k1 = k1
    k2 = k2
    Keys = {k1, k2}
    Threads = {t1, t2}
    Flushers = {f1, f2}
    Cap = 1
    TTLs = {1}
    Graces = {0}
    Clearable <- ClearSome
    None = None
    Gone = Gone
    MaxWrites <- MCWrites
    MaxTime = 1
    MaxKills = 1
INVARIANTS
    TypeOK
    L1Bounded
    MemoryOnlyIsCurrent
PROPERTIES
    NothingComesBack
    OnlyClearedOrOvertaken
SYMMETRY TaskSymmetry
