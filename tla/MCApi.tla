-------------------------------- MODULE MCApi --------------------------------
(* TLC instance of Api: two mailboxes, one of them spelled in two ways, the *)
(* other one with an account already. The ids of users and wallets, and the *)
(* requests, are interchangeable.                                           *)
EXTENDS Api, TLC

CONSTANTS alice, bob

MCMailboxes == {alice, bob}
MCEmails    == {<<alice, "lower">>, <<alice, "mixed">>, <<bob, "lower">>}

(* bob came with migration 002, or registered with an earlier version.      *)
MCSeeded    == {[email |-> <<bob, "lower">>, hash |-> h] :
                    h \in {NoHash} \cup {PHC(Earlier, IDKey(p, Earlier)) :
                                            p \in Passwords}}

Symmetry ==
    Permutations(Requests) \cup Permutations(UserIds) \cup Permutations(WalletIds)
=============================================================================
