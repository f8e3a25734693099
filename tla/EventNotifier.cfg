SPECIFICATION FairSpec
CONSTANTS
    Notifiers = {n1, n2}
    Messages = {e1, junk}
    Undecodable = {junk}
    MaxRetries = 2
    Prefetch = 2
    MaxQueue = 3
    MaxFaults = 2
INVARIANTS TypeOK NoMessageLost
PROPERTY EveryMessageEnds
CHECK_DEADLOCK FALSE
