---------------------------- MODULE RefreshTokens ----------------------------
(***************************************************************************)
(* Refresh-token rotation, replay detection and logout, as implemented by   *)
(* AuthService (internal/service/auth_service.go) over the PostgreSQL       *)
(* repository (internal/repository/postgres/refresh_token_repository.go).   *)
(*                                                                         *)
(* Every HTTP request is a process of its own, and every SQL statement is   *)
(* one step: a statement reads the rows committed when it starts. A row     *)
(* that a transaction has locked, with SELECT ... FOR UPDATE or by updating *)
(* it, blocks the others that lock or write it. Only RevokeFamily's UPDATE  *)
(* writes several rows, and is one step for each lock it takes.             *)
(* A token stands for its row id, its hash and the string the client holds. *)
(* The user and the user agent are copied along a chain and decide nothing, *)
(* so they are left out.                                                    *)
(***************************************************************************)
EXTENDS Naturals, FiniteSets

CONSTANTS Tokens,     \* the refresh tokens the generator can mint
          Requests,   \* the requests the API serves concurrently
          NULL,       \* SQL NULL; also "no token", "nobody"
          TTL,        \* AuthService.refreshTTL
          MaxTime     \* bound on the clock

ASSUME ConstantsAssumption ==
    /\ NULL \notin Tokens
    /\ NULL \notin Requests
    /\ NULL \notin Nat
    /\ TTL \in Nat
    /\ MaxTime \in Nat

VARIABLES
    (* the refresh_tokens table *)
    issued,       \* the tokens that have a row
    expiresAt,    \* column expires_at
    revokedAt,    \* column revoked_at
    replacedBy,   \* column replaced_by
    lock,         \* the request whose transaction has locked the row
    (* the requests *)
    pc,           \* the statement a request executes next
    tok,          \* the token it presented
    at,           \* the time it last read from the clock
    family,       \* the rows RevokeFamily's WITH RECURSIVE query selected
    want,         \* the row of these its UPDATE has come to and not locked yet
    (* the world *)
    delivered,    \* the tokens some client has received
    root,         \* history: the login a token descends from
    clock

dbVars  == <<issued, expiresAt, revokedAt, replacedBy, root>>
reqVars == <<pc, tok, at, family, want>>
vars    == <<dbVars, lock, reqVars, delivered, clock>>

Control == {"idle", "find", "rotate", "commit", "burn", "revokeFamily",
            "logoutFind", "revoke"}

-----------------------------------------------------------------------------
(* The two recursive queries of RevokeFamily: the least set of rows that    *)
(* holds the start row and is closed under the join.                        *)

ForwardClosed(S)  == \A y \in S : replacedBy[y] # NULL => replacedBy[y] \in S
BackwardClosed(S) == \A y \in issued : replacedBy[y] \in S => y \in S

Forward(t) ==
    {x \in issued :
        \A S \in SUBSET issued : t \in S /\ ForwardClosed(S) => x \in S}

Backward(t) ==
    {x \in issued :
        \A S \in SUBSET issued : t \in S /\ BackwardClosed(S) => x \in S}

(* Variant: only the newer tokens of the chain.                             *)
FamilyForwardOnly(t) == Forward(t)

Family(t) == Forward(t) \cup Backward(t)

(* The lineage the code means by "chain": everything one login led to.      *)
Chain(s) == {t \in issued : root[t] = s}

Active(s) == {t \in Chain(s) : revokedAt[t] = NULL}

Found(t) == t \in issued

(* A row minted at a given time: it starts unrevoked and unlinked.          *)
InsertRow(t, chain, now) ==
    /\ issued' = issued \cup {t}
    /\ expiresAt' = [expiresAt EXCEPT ![t] = now + TTL]
    /\ root' = [root EXCEPT ![t] = chain]

(* The request returns and its local variables are gone.                    *)
Reply(r) ==
    /\ pc' = [pc EXCEPT ![r] = "idle"]
    /\ tok' = [tok EXCEPT ![r] = NULL]
    /\ at' = [at EXCEPT ![r] = 0]
    /\ family' = [family EXCEPT ![r] = {}]
    /\ want' = [want EXCEPT ![r] = NULL]

(* A transaction ends, committed or rolled back: its rows are free again.   *)
Unlock(r) ==
    lock' = [t \in Tokens |-> IF lock[t] = r THEN NULL ELSE lock[t]]

Goto(r, label) ==
    /\ pc' = [pc EXCEPT ![r] = label]
    /\ tok' = tok

-----------------------------------------------------------------------------
Init ==
    /\ issued = {}
    /\ expiresAt = [t \in Tokens |-> 0]
    /\ revokedAt = [t \in Tokens |-> NULL]
    /\ replacedBy = [t \in Tokens |-> NULL]
    /\ lock = [t \in Tokens |-> NULL]
    /\ pc = [r \in Requests |-> "idle"]
    /\ tok = [r \in Requests |-> NULL]
    /\ at = [r \in Requests |-> 0]
    /\ family = [r \in Requests |-> {}]
    /\ want = [r \in Requests |-> NULL]
    /\ delivered = {}
    /\ root = [t \in Tokens |-> NULL]
    /\ clock = 0

(* Login, once the password has been verified: issueTokens inserts a row    *)
(* that starts a chain of its own. The answer may be lost on its way.       *)
Login(t) ==
    /\ ~Found(t)
    /\ InsertRow(t, t, clock)
    /\ delivered' \in {delivered, delivered \cup {t}}
    /\ UNCHANGED <<revokedAt, replacedBy, lock, reqVars, clock>>

(* Refresh begins: the clock is read before the row is looked up. The       *)
(* client presents a token it received, or a string that was never minted   *)
(* (NULL). The empty string is refused at once and changes nothing.         *)
RefreshStart(r, t) ==
    /\ pc[r] = "idle"
    /\ pc' = [pc EXCEPT ![r] = "find"]
    /\ tok' = [tok EXCEPT ![r] = t]
    /\ at' = [at EXCEPT ![r] = clock]
    /\ UNCHANGED <<dbVars, lock, family, want, delivered, clock>>

(* FindByHash and the checks Refresh makes on the row: unknown and expired  *)
(* tokens are refused, a revoked one is a replay.                           *)
RefreshFind(r) ==
    /\ pc[r] = "find"
    /\ \/ ~Found(tok[r]) /\ Reply(r)
       \/ /\ Found(tok[r])
          /\ revokedAt[tok[r]] # NULL
          /\ Goto(r, "burn")
          /\ UNCHANGED <<at, family, want>>
       \/ /\ Found(tok[r])
          /\ revokedAt[tok[r]] = NULL
          /\ expiresAt[tok[r]] <= at[r]
          /\ Reply(r)
       \/ /\ Found(tok[r])
          /\ revokedAt[tok[r]] = NULL
          /\ at[r] < expiresAt[tok[r]]
          /\ Goto(r, "rotate")
          /\ UNCHANGED <<at, family, want>>
    /\ UNCHANGED <<dbVars, lock, delivered, clock>>

(* Variant: the columns read under the lock are not looked at.              *)
AlreadyRotatedUnchecked(t) == FALSE

(* The row as Rotate's SELECT ... FOR UPDATE finds it.                      *)
AlreadyRotated(t) == revokedAt[t] # NULL \/ replacedBy[t] # NULL

(* Variant: a plain SELECT instead of SELECT ... FOR UPDATE.                *)
RotateSelect(r) ==
    /\ pc[r] = "rotate"
    /\ \/ AlreadyRotated(tok[r]) /\ Goto(r, "burn") /\ UNCHANGED at
       \/ /\ ~AlreadyRotated(tok[r])
          /\ \E now \in at[r] .. clock : at' = [at EXCEPT ![r] = now]
          /\ Goto(r, "commit")
    /\ UNCHANGED <<dbVars, lock, family, want, delivered, clock>>

(* Variant: the lost race is handled as a replay before the transaction     *)
(* that found it is rolled back.                                            *)
RotateHoldsLostRow(r) ==
    /\ pc[r] = "rotate"
    /\ lock[tok[r]] = NULL
    /\ lock' = [lock EXCEPT ![tok[r]] = r]
    /\ \E now \in at[r] .. clock : at' = [at EXCEPT ![r] = now]
    /\ Goto(r, IF AlreadyRotated(tok[r]) THEN "burn" ELSE "commit")
    /\ UNCHANGED <<dbVars, family, want, delivered, clock>>

(* Rotate, first statement. It waits while another transaction holds the    *)
(* row and then sees that transaction's result. A row that was revoked or   *)
(* linked in the meantime rolls the transaction back, and Refresh treats    *)
(* the lost race as a replay. issueTokens read the clock again at some      *)
(* moment between the two; that reading becomes revoked_at.                 *)
RotateLock(r) ==
    /\ pc[r] = "rotate"
    /\ lock[tok[r]] = NULL
    /\ \/ /\ AlreadyRotated(tok[r])
          /\ Goto(r, "burn")
          /\ UNCHANGED <<lock, at>>
       \/ /\ ~AlreadyRotated(tok[r])
          /\ lock' = [lock EXCEPT ![tok[r]] = r]
          /\ \E now \in at[r] .. clock : at' = [at EXCEPT ![r] = now]
          /\ Goto(r, "commit")
    /\ UNCHANGED <<dbVars, family, want, delivered, clock>>

(* Rotate, INSERT of the new row, UPDATE of the old one and COMMIT: visible *)
(* to others at once. The answer, or the outcome of the COMMIT itself, may  *)
(* be lost: then the client never learns the new token.                     *)
RotateCommit(r, n) ==
    /\ pc[r] = "commit"
    /\ ~Found(n)
    /\ InsertRow(n, root[tok[r]], at[r])
    /\ revokedAt' = [revokedAt EXCEPT ![tok[r]] = at[r]]
    /\ replacedBy' = [replacedBy EXCEPT ![tok[r]] = n]
    /\ Unlock(r)
    /\ delivered' \in {delivered, delivered \cup {n}}
    /\ Reply(r)
    /\ UNCHANGED clock

(* A statement of the transaction fails and the deferred Rollback runs.     *)
RotateRollback(r) ==
    /\ pc[r] = "commit"
    /\ Unlock(r)
    /\ Reply(r)
    /\ UNCHANGED <<dbVars, delivered, clock>>

(* RevokeFamily is one statement. Its snapshot is taken when it starts. In  *)
(* which order the UPDATE then comes to the selected rows is open: that     *)
(* depends on the plan and on where the versions of the rows lie.           *)
RevokeFamilyStart(r) ==
    /\ pc[r] = "burn"
    /\ \E first \in Family(tok[r]) : want' = [want EXCEPT ![r] = first]
    /\ family' = [family EXCEPT ![r] = Family(tok[r])]
    /\ Goto(r, "revokeFamily")
    /\ UNCHANGED <<dbVars, lock, at, delivered, clock>>

(* The selected rows the UPDATE has not come to.                            *)
Ahead(r) == {t \in family[r] \ {want[r]} : lock[t] # r}

(* It locks row after row, revoked ones too, waits where another            *)
(* transaction holds one, and keeps those it has.                           *)
RevokeFamilyLock(r) ==
    /\ pc[r] = "revokeFamily" /\ want[r] # NULL
    /\ lock[want[r]] = NULL
    /\ lock' = [lock EXCEPT ![want[r]] = r]
    /\ \/ \E next \in Ahead(r) : want' = [want EXCEPT ![r] = next]
       \/ Ahead(r) = {} /\ want' = [want EXCEPT ![r] = NULL]
    /\ UNCHANGED <<dbVars, pc, tok, at, family, delivered, clock>>

(* Variant: the UPDATE without its WHERE clause.                            *)
RevokeEverything(r) ==
    /\ pc[r] = "revokeFamily" /\ want[r] = NULL
    /\ \A t \in issued : lock[t] \in {NULL, r}
    /\ revokedAt' = [t \in Tokens |->
                        IF t \in issued /\ revokedAt[t] = NULL
                        THEN at[r] ELSE revokedAt[t]]
    /\ Unlock(r)
    /\ Reply(r)
    /\ UNCHANGED <<issued, expiresAt, replacedBy, root, delivered, clock>>

(* It ends and commits, and others see what it wrote; rows inserted since   *)
(* it started are not among the selected ones.                              *)
RevokeFamilyUpdate(r) ==
    /\ pc[r] = "revokeFamily" /\ want[r] = NULL
    /\ revokedAt' = [t \in Tokens |->
                        IF t \in family[r] /\ revokedAt[t] = NULL
                        THEN at[r] ELSE revokedAt[t]]
    /\ Unlock(r)
    /\ Reply(r)
    /\ UNCHANGED <<issued, expiresAt, replacedBy, root, delivered, clock>>

LogoutStart(r, t) ==
    /\ pc[r] = "idle"
    /\ pc' = [pc EXCEPT ![r] = "logoutFind"]
    /\ tok' = [tok EXCEPT ![r] = t]
    /\ UNCHANGED <<dbVars, lock, at, family, want, delivered, clock>>

(* Logout answers "no content" for a token it does not know.                *)
LogoutFind(r) ==
    /\ pc[r] = "logoutFind"
    /\ \/ ~Found(tok[r]) /\ Reply(r)
       \/ /\ Found(tok[r])
          /\ Goto(r, "revoke")
          /\ at' = [at EXCEPT ![r] = clock]
          /\ UNCHANGED <<family, want>>
    /\ UNCHANGED <<dbVars, lock, delivered, clock>>

(* Variant: revoked_at overwritten, without COALESCE.                       *)
RevokeOverwrites(r) ==
    /\ pc[r] = "revoke"
    /\ lock[tok[r]] = NULL
    /\ \E now \in at[r] .. clock :
          revokedAt' = [revokedAt EXCEPT ![tok[r]] = now]
    /\ Reply(r)
    /\ UNCHANGED <<issued, expiresAt, replacedBy, root, lock, delivered, clock>>

(* Revoke: only the presented row, and an earlier revoked_at is kept. The   *)
(* clock was read after the lookup, the row may have been waited for since. *)
Revoke(r) ==
    /\ pc[r] = "revoke"
    /\ lock[tok[r]] = NULL
    /\ \E now \in at[r] .. clock :
          revokedAt' = [revokedAt EXCEPT ![tok[r]] = IF @ = NULL THEN now ELSE @]
    /\ Reply(r)
    /\ UNCHANGED <<issued, expiresAt, replacedBy, root, lock, delivered, clock>>

(* The database reports an error, the client disconnects (which cancels the *)
(* context) or the process dies before the statement ends: whatever the     *)
(* request has committed stays, what its statement has locked is free, and  *)
(* the request does nothing more. The error may be that of the victim       *)
(* PostgreSQL chooses when requests wait for each other in a circle.        *)
RequestFails(r) ==
    /\ pc[r] \notin {"idle", "commit"}
    /\ Unlock(r)
    /\ Reply(r)
    /\ UNCHANGED <<dbVars, delivered, clock>>

Tick ==
    /\ clock < MaxTime
    /\ clock' = clock + 1
    /\ UNCHANGED <<dbVars, lock, reqVars, delivered>>

RotateEnd(r) == (\E n \in Tokens : RotateCommit(r, n)) \/ RotateRollback(r)

Next ==
    \/ \E t \in Tokens : Login(t)
    \/ \E r \in Requests, t \in delivered \cup {NULL} :
          RefreshStart(r, t) \/ LogoutStart(r, t)
    \/ \E r \in Requests :
          \/ RefreshFind(r)
          \/ RotateLock(r)
          \/ RotateEnd(r)
          \/ RevokeFamilyStart(r)
          \/ RevokeFamilyLock(r)
          \/ RevokeFamilyUpdate(r)
          \/ LogoutFind(r)
          \/ Revoke(r)
          \/ RequestFails(r)
    \/ Tick

Spec == Init /\ [][Next]_vars

-----------------------------------------------------------------------------
(* Every column, lock and request field holds a value of its type, and the  *)
(* table's constraints hold: replaced_by references a row of the table. A   *)
(* request past its lookup works on a row of the table.                     *)
TypeOK ==
    /\ issued \subseteq Tokens
    /\ expiresAt \in [Tokens -> Nat]
    /\ revokedAt \in [Tokens -> Nat \cup {NULL}]
    /\ replacedBy \in [Tokens -> issued \cup {NULL}]
    /\ lock \in [Tokens -> Requests \cup {NULL}]
    /\ pc \in [Requests -> Control]
    /\ tok \in [Requests -> issued \cup {NULL}]
    /\ \A r \in Requests :
          pc[r] \in {"rotate", "commit", "burn", "revokeFamily", "revoke"} =>
             tok[r] \in issued
    /\ at \in [Requests -> Nat]
    /\ family \in [Requests -> SUBSET issued]
    /\ want \in [Requests -> issued \cup {NULL}]
    /\ delivered \subseteq issued
    /\ root \in [Tokens -> issued \cup {NULL}]
    /\ clock \in Nat

(* At most one token of a login's chain is unrevoked, whatever rotations,   *)
(* replays, logouts and failures interleave: a stolen token and its         *)
(* successor are never both usable (Rotate's row lock).                     *)
SingleActive ==
    \A s \in Tokens : \A t, u \in Active(s) : t = u

(* The rows RevokeFamily's two recursive queries find from any row are      *)
(* exactly the chain of that row's login: walking replaced_by both ways     *)
(* from the middle of a chain misses nothing and leaks into no other chain. *)
FamilyIsChain ==
    \A t \in issued : Family(t) = Chain(root[t])

(* Whom a request waits for.                                                *)
WaitsFor(r, q) ==
    \/ pc[r] \in {"rotate", "revoke"} /\ lock[tok[r]] = q
    \/ pc[r] = "revokeFamily" /\ want[r] # NULL /\ lock[want[r]] = q

(* Requests that wait for each other: each for one of them, and each is     *)
(* waited for by one.                                                       *)
Circle(C) ==
    /\ C # {}
    /\ \A r \in C : (\E q \in C : WaitsFor(r, q)) /\ (\E q \in C : WaitsFor(q, r))

(* Waiting ends, but for one case that the database has to end. Whoever is  *)
(* waited for is in the middle of its own statement or transaction on the   *)
(* same login's chain: no request leaves a row locked behind it, not even   *)
(* between Rotate and the RevokeFamily a lost race leads to. And a rotation *)
(* or a logout is never in a circle. Two replays of one chain are, when     *)
(* their UPDATEs come to its rows in different orders; PostgreSQL breaks    *)
(* that by failing one of them, whose request then revokes nothing itself.  *)
(* (That those who wait for one row queue is left out: one behind the head  *)
(* of a queue waits for it too, and may be the one that is failed.)         *)
OnlyReplaysDeadlock ==
    /\ \A r, q \in Requests : WaitsFor(r, q) =>
          /\ pc[q] \in {"commit", "revokeFamily"}
          /\ root[tok[r]] = root[tok[q]]
    /\ \A C \in SUBSET Requests : Circle(C) =>
          \A r \in C : pc[r] = "revokeFamily"

(* What is locked. A rotation holds its row, still unrevoked and unlinked,  *)
(* from its SELECT to its end; a replay the selected rows it has passed,    *)
(* in the end all of them. Nobody else holds any.                           *)
LockDiscipline ==
    /\ \A r \in Requests :
          /\ pc[r] = "commit" => tok[r] # NULL /\ lock[tok[r]] = r
          /\ pc[r] # "revokeFamily" => want[r] = NULL
          /\ want[r] # NULL => want[r] \in family[r] /\ lock[want[r]] # r
          /\ pc[r] = "revokeFamily" /\ want[r] = NULL =>
                \A t \in family[r] : lock[t] = r
          /\ \A t \in family[r] :
                pc[r] = "revokeFamily" /\ root[t] = root[tok[r]]
    /\ \A t \in Tokens : lock[t] # NULL =>
          \/ pc[lock[t]] = "commit" /\ tok[lock[t]] = t /\ ~AlreadyRotated(t)
          \/ pc[lock[t]] = "revokeFamily" /\ t \in family[lock[t]]

(* Rows exist before they are linked, held or presented; a row that was     *)
(* exchanged is revoked; a token without a row carries nothing.             *)
TableShape ==
    /\ \A t \in issued : root[t] # NULL /\ root[root[t]] = root[t]
    /\ \A t \in Tokens \ issued :
          root[t] = NULL /\ revokedAt[t] = NULL /\ replacedBy[t] = NULL
    /\ \A t \in Tokens : replacedBy[t] # NULL =>
          revokedAt[t] # NULL /\ root[replacedBy[t]] = root[t]

(* The inductive invariant: SingleActive needs the lock discipline (the row *)
(* about to be exchanged is its chain's only unrevoked one) and the shape   *)
(* of the table (the new row starts unrevoked, in the old row's chain).     *)
IInv == TypeOK /\ LockDiscipline /\ TableShape /\ SingleActive

(* revoked_at and replaced_by are written once: no later logout, replay or  *)
(* rotation moves a revocation in time or relinks a chain.                  *)
RevocationPermanent ==
    [][\A t \in Tokens :
          /\ revokedAt[t] # NULL => revokedAt'[t] = revokedAt[t]
          /\ replacedBy[t] # NULL => replacedBy'[t] = replacedBy[t]]_vars

(* A chain without an unrevoked token stays so: no rotation in flight       *)
(* brings back a session that a logout or a replay has ended.               *)
EndedStaysEnded ==
    [][\A s \in issued : Active(s) = {} => Active(s)' = {}]_vars

(* "Replay of a revoked token is treated as compromise and revokes the      *)
(* whole chain" (auth_service.go): when RevokeFamily returns, no token of   *)
(* the replayed token's chain is unrevoked.                                 *)
ReplayRevokesChain ==
    [][\A r \in Requests, s \in issued :
          RevokeFamilyUpdate(r) /\ s = root[tok[r]] => Active(s)' = {}]_vars

-----------------------------------------------------------------------------
(* What the component promises, RefreshSessions, with the unrevoked tokens  *)
(* of a login as that login's cursor.                                       *)
Sessions == INSTANCE RefreshSessions
               WITH used <- issued, active <- [s \in Tokens |-> Active(s)]

(* Rotation, replay detection and logout implement the abstract sessions.   *)
ImplementsSessions == Sessions!Spec
=============================================================================
