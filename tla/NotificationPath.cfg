SPECIFICATION PathSpec
CONSTANTS
    Members = {r1, r2}
    Messages = {e1, e2}
    Undecodable = {}
    Routable = {e1, e2}
    Replay = FALSE
    NULL = NULL
    MaxRetries = 2
    MaxLog = 2
    MaxFaults = 1
    Notifier = n1
    Prefetch = 2
SYMMETRY Symmetry
INVARIANTS CommittedSettled PublishedInOrder EndToEnd AlertedInLogOrder
CHECK_DEADLOCK FALSE
