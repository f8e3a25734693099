SPECIFICATION Spec
CONSTANTS
    Tokens = {t1, t2, t3}
    Requests = {r1, r2}
    NULL = NULL
    TTL = 1
    MaxTime = 0
PROPERTY ReplayRevokesChain
