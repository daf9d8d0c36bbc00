SPECIFICATION MCSpec
CONSTANTS
    s1 = s1
    s2 = s2
    c1 = c1
    c2 = c2
    r1 = r1
    r2 = r2
    Starts = {s1, s2}
    Clients = {c1, c2}
    Restarts = {r1, r2}
    MaxPids = 2
    MaxCrashes = 1
ACTION_CONSTRAINT
    FewMeet
INVARIANTS
    TypeOK
    OneConnector
PROPERTIES
    DisabledStaysOff
    FailedStartLeavesNothing
    Revived
