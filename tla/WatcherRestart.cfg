SPECIFICATION Spec
CONSTANTS
    Addresses = {w, x}
    Tracked = {w}
    NULL = NULL
    Buffer = 1
    MaxBlock = 3
    MaxPolls = 3
    MaxStops = 1
    MaxLostAcks = 0
INVARIANT RefetchedAfterRestart
CHECK_DEADLOCK FALSE
