SPECIFICATION FairSpec
CONSTANTS
    Members = {p1, p2}
    Messages = {e1, e2, bad, junk}
    Undecodable = {junk}
    Invalid = {bad}
    Replay = FALSE
    NULL = NULL
    MaxRetries = 2
    MaxLog = 2
    MaxFaults = 3
INVARIANTS CommittedSettled StoredInOrder
PROPERTY EverythingSettled
CHECK_DEADLOCK FALSE
