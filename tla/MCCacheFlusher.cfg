SPECIFICATION FairSpec
CONSTANTS
    k1 = k1
    k2 = k2
    Keys = {k1, k2}
    Threads = {t1}
    Flushers = {f1}
    Cap = 1
    TTLs = {1}
    Graces = {1}
    Clearable <- ClearAll
    None = None
    Gone = Gone
    MaxWrites <- MCWrites
    MaxTime = 2
    MaxKills = 1
PROPERTY WritesReachL2
