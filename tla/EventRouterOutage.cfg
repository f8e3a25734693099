SPECIFICATION Spec
CONSTANTS
    Members = {r1, r2}
    Messages = {e1, e2, quiet, junk}
    Undecodable = {junk}
    Routable = {e1, e2}
    Replay = FALSE
    NULL = NULL
    MaxRetries = 2
    MaxLog = 2
    MaxFaults = 2
PROPERTY OutageDropsNothing
CHECK_DEADLOCK FALSE
