SPECIFICATION FairSpec
CONSTANTS
    Members = {a}
    Messages <- MCMessages
    Undecodable <- MCUndecodable
    Replay = TRUE
    NULL = NULL
    Malformed = Malformed
    Garbage = Garbage
    None = None
    Logs <- MCLogs
    Wallets <- MCWallets
    Times <- MCTimes
    MaxRetries = 2
    MaxLog = 3
    MaxFaults = 2
INVARIANTS NeverUndercounts ExactWhileAssigned LastNumbersPrinted EventIdentity AcceptedByAll
PROPERTY EverythingCounted
CHECK_DEADLOCK FALSE
