--------------------------- MODULE RefreshSessions ---------------------------
(***************************************************************************)
(* What the refresh-token component promises, without tables, statements or *)
(* requests: a login opens a session whose cursor is one token; a refresh   *)
(* moves the cursor to a token never used before; a logout or a replay ends *)
(* the session for good.                                                    *)
(***************************************************************************)
CONSTANT Tokens

VARIABLES used,     \* the tokens handed out so far
          active    \* the usable tokens of the session each token opened

Init ==
    /\ used = {}
    /\ active = [s \in Tokens |-> {}]

(* A login opens the session named after its first token.                   *)
Open(s) ==
    /\ s \notin used
    /\ used' = used \cup {s}
    /\ active' = [active EXCEPT ![s] = {s}]

(* A refresh exchanges the session's token for an unused one.               *)
Advance(s, t, n) ==
    /\ active[s] = {t}
    /\ n \notin used
    /\ used' = used \cup {n}
    /\ active' = [active EXCEPT ![s] = {n}]

(* A logout or a replay ends the session.                                   *)
End(s, t) ==
    /\ active[s] = {t}
    /\ active' = [active EXCEPT ![s] = {}]
    /\ used' = used

Next ==
    \/ \E s \in Tokens : Open(s)
    \/ \E s, t, n \in Tokens : Advance(s, t, n)
    \/ \E s, t \in Tokens : End(s, t)

Spec == Init /\ [][Next]_<<used, active>>
=============================================================================
