SPECIFICATION Spec
CONSTANTS
    UserIds = {u1, u2, u3}
    WalletIds = {w1, w2}
    alice = alice
    bob = bob
    Mailboxes <- MCMailboxes
    Emails <- MCEmails
    Passwords = {p}
    Guesses = {p, q}
    Networks = {"ethereum"}
    Unknown = "solana"
    Requests = {r1, r2}
    Seeded <- MCSeeded
    NULL = NULL
    TTL = 1
    MaxTime = 1
SYMMETRY Symmetry
INVARIANTS OneAccountPerMailbox OnlyOwnData AnswersTrue NothingMissing EveryWalletServable
