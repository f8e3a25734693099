SPECIFICATION FairSpec
CONSTANTS
    Addresses = {w, x}
    Tracked = {w}
    NULL = NULL
    Buffer = 1
    MaxBlock = 3
    MaxPolls = 2
    MaxStops = 1
    MaxLostAcks = 1
INVARIANTS TypeOK OnlyRacedSkipped InOrderPerDirection
PROPERTIES ShutdownCompletes FetchedIsPublished
CHECK_DEADLOCK FALSE
