SPECIFICATION PanelSpec
CONSTANTS
    Starts = {k1, k2}
    Clicks = {k1, k2}
    Clients = {k1, k2}
    Restarts = {r1}
    MaxPids = 1
    MaxCrashes = 0
    PollLimit = 2
INVARIANTS
    PanelTypeOK
    PageIsNeverStuck
PROPERTIES
    PanelSettles
CHECK_DEADLOCK FALSE
