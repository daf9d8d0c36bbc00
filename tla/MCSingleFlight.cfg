SPECIFICATION FairSpec
CONSTANTS
    Callers = {c1, c2, c3, c4}
    None = None
    Closed = Closed
    MaxExpiries = 1
INVARIANTS
    TypeOK
    FlightIsHeld
    WaiterIsListed
    FailureIsNotShared
PROPERTY EveryCallerAnswered
CHECK_DEADLOCK FALSE
