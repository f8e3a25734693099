SPECIFICATION FairSnapshot
CONSTANTS
    Wallets = {w1, w2, w3}
    Workers = {k1, k2}
    Native = eth
    Tokens = {usdc}
    Nil = Nil
INVARIANTS EveryWalletOnce StatusIsTrue
PROPERTY RunReturns
CHECK_DEADLOCK FALSE
