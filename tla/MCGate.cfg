SPECIFICATION FairSpec
CONSTANTS
    s1 = s1
    s2 = s2
    Streams = {s1, s2}
    Workers = 2
    Inflight = 1
    Depth = 2
    ChanCap = 1
    None = None
    Parts <- MCParts
    MaxPauses = 1
    MaxErrors = 1
INVARIANTS
    TypeOK
    GateIsExact
    BodyIsBounded
    NoCircle
PROPERTIES
    ReaderIsServed
    GatesAreFair
CHECK_DEADLOCK FALSE
