SPECIFICATION PausedSpec
CONSTANTS
    s1 = s1
    s2 = s2
    Streams = {s1, s2}
    Workers = 1
    Inflight = 1
    Depth = 2
    ChanCap = 1
    None = None
    Parts <- MCParts
    MaxPauses = 1
    MaxErrors = 0
PROPERTY PreflightEnds
CHECK_DEADLOCK FALSE
