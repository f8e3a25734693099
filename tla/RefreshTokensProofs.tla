------------------------- MODULE RefreshTokensProofs -------------------------
(***************************************************************************)
(* Proofs about RefreshTokens for any number of tokens and requests, any    *)
(* TTL and any clock bound.                                                 *)
(***************************************************************************)
EXTENDS RefreshTokens, TLAPS

-----------------------------------------------------------------------------
(* The type invariant is preserved by every step of every handler.          *)

LEMMA InitTypeOK == Init => TypeOK
  BY ConstantsAssumption DEF Init, TypeOK, Control

LEMMA NextTypeOK == TypeOK /\ [Next]_vars => TypeOK'
  <1> SUFFICES ASSUME TypeOK, [Next]_vars
               PROVE  TypeOK'
    OBVIOUS
  <1> USE ConstantsAssumption DEF TypeOK, Control, dbVars, reqVars
  <1>1. ASSUME NEW t \in Tokens, Login(t)
        PROVE  TypeOK'
    BY <1>1 DEF Login, InsertRow, Found
  <1>2. ASSUME NEW r \in Requests, NEW t \in delivered \cup {NULL},
               RefreshStart(r, t) \/ LogoutStart(r, t)
        PROVE  TypeOK'
    BY <1>2 DEF RefreshStart, LogoutStart
  <1>3. ASSUME NEW r \in Requests, RefreshFind(r)
        PROVE  TypeOK'
    BY <1>3 DEF RefreshFind, Found, Reply, Goto
  <1>4. ASSUME NEW r \in Requests, RotateLock(r)
        PROVE  TypeOK'
    BY <1>4 DEF RotateLock, Goto
  <1>5. ASSUME NEW r \in Requests, NEW n \in Tokens, RotateCommit(r, n)
        PROVE  TypeOK'
    BY <1>5 DEF RotateCommit, InsertRow, Found, Reply, Unlock
  <1>6. ASSUME NEW r \in Requests, RotateRollback(r)
        PROVE  TypeOK'
    BY <1>6 DEF RotateRollback, Reply, Unlock
  <1>7. ASSUME NEW r \in Requests, RevokeFamilyStart(r)
        PROVE  TypeOK'
    BY <1>7 DEF RevokeFamilyStart, Goto, Family, Forward, Backward
  <1>14. ASSUME NEW r \in Requests, RevokeFamilyLock(r)
         PROVE  TypeOK'
    BY <1>14 DEF RevokeFamilyLock, Ahead
  <1>8. ASSUME NEW r \in Requests, RevokeFamilyUpdate(r)
        PROVE  TypeOK'
    BY <1>8 DEF RevokeFamilyUpdate, Reply, Unlock
  <1>9. ASSUME NEW r \in Requests, LogoutFind(r)
        PROVE  TypeOK'
    BY <1>9 DEF LogoutFind, Found, Reply, Goto
  <1>10. ASSUME NEW r \in Requests, Revoke(r)
         PROVE  TypeOK'
    BY <1>10 DEF Revoke, Reply
  <1>11. ASSUME NEW r \in Requests, RequestFails(r)
         PROVE  TypeOK'
    BY <1>11 DEF RequestFails, Reply, Unlock
  <1>12. CASE Tick
    BY <1>12 DEF Tick
  <1>13. CASE UNCHANGED vars
    BY <1>13 DEF vars
  <1> QED
    BY <1>1, <1>2, <1>3, <1>4, <1>5, <1>6, <1>7, <1>8, <1>9, <1>10, <1>11,
       <1>12, <1>13, <1>14 DEF Next, RotateEnd

(* Every column, lock and request field of every reachable state has its    *)
(* type, and replaced_by always references a row of the table.              *)
THEOREM TypeCorrect == Spec => []TypeOK
  BY InitTypeOK, NextTypeOK, PTL DEF Spec

-----------------------------------------------------------------------------
(* The inductive invariant. Only five handlers write the table or its locks;*)
(* the others move a request from one statement to the next.                *)

LEMMA InitIInv == Init => IInv
  BY InitTypeOK, ConstantsAssumption
     DEF IInv, Init, LockDiscipline, TableShape, SingleActive, Active, Chain

(* The recursive queries never leave the chain they start in: the chain is  *)
(* itself closed under both joins.                                          *)

LEMMA FamilyInChain ==
  ASSUME IInv, NEW t \in issued
  PROVE  Family(t) \subseteq Chain(root[t])
  <1> USE ConstantsAssumption DEF IInv, TypeOK, TableShape
  <1> DEFINE C == Chain(root[t])
  <1>1. C \in SUBSET issued /\ t \in C
    BY DEF Chain
  <1>2. ForwardClosed(C)
    BY DEF ForwardClosed, Chain
  <1>3. BackwardClosed(C)
    BY DEF BackwardClosed, Chain
  <1>4. Forward(t) \subseteq C
    BY <1>1, <1>2 DEF Forward
  <1>5. Backward(t) \subseteq C
    BY <1>1, <1>3 DEF Backward
  <1> QED
    BY <1>4, <1>5 DEF Family

LEMMA NextLockDiscipline == IInv /\ [Next]_vars => LockDiscipline'
  <1> SUFFICES ASSUME IInv, [Next]_vars
               PROVE  LockDiscipline'
    OBVIOUS
  <1> USE ConstantsAssumption
      DEF IInv, TypeOK, LockDiscipline, AlreadyRotated, Control, dbVars, reqVars
  <1>1. ASSUME NEW t \in Tokens, Login(t)
        PROVE  LockDiscipline'
    BY <1>1 DEF Login, InsertRow, Found
  <1>2. ASSUME NEW r \in Requests, NEW t \in delivered \cup {NULL},
               RefreshStart(r, t) \/ LogoutStart(r, t)
        PROVE  LockDiscipline'
    BY <1>2 DEF RefreshStart, LogoutStart
  <1>3. ASSUME NEW r \in Requests, RefreshFind(r)
        PROVE  LockDiscipline'
    BY <1>3 DEF RefreshFind, Found, Reply, Goto
  <1>4. ASSUME NEW r \in Requests, RotateLock(r)
        PROVE  LockDiscipline'
    BY <1>4 DEF RotateLock, Goto
  <1>5. ASSUME NEW r \in Requests, NEW n \in Tokens, RotateCommit(r, n)
        PROVE  LockDiscipline'
    BY <1>5 DEF RotateCommit, InsertRow, Found, Reply, Unlock, TableShape
  <1>6. ASSUME NEW r \in Requests, RotateRollback(r)
        PROVE  LockDiscipline'
    BY <1>6 DEF RotateRollback, Reply, Unlock
  <1>7. ASSUME NEW r \in Requests, RevokeFamilyStart(r)
        PROVE  LockDiscipline'
    <2>1. tok[r] \in issued
      BY <1>7 DEF RevokeFamilyStart
    <2>2. \A t \in Family(tok[r]) : t \in issued /\ root[t] = root[tok[r]]
      BY <2>1, FamilyInChain DEF Chain
    <2>3. \A t \in Tokens : lock[t] # r
      BY <1>7 DEF RevokeFamilyStart
    <2> QED
      BY <1>7, <2>2, <2>3 DEF RevokeFamilyStart, Goto
  <1>14. ASSUME NEW r \in Requests, RevokeFamilyLock(r)
         PROVE  LockDiscipline'
    BY <1>14 DEF RevokeFamilyLock, Ahead
  <1>8. ASSUME NEW r \in Requests, RevokeFamilyUpdate(r)
        PROVE  LockDiscipline'
    BY <1>8 DEF RevokeFamilyUpdate, Reply, Unlock
  <1>9. ASSUME NEW r \in Requests, LogoutFind(r)
        PROVE  LockDiscipline'
    BY <1>9 DEF LogoutFind, Found, Reply, Goto
  <1>10. ASSUME NEW r \in Requests, Revoke(r)
         PROVE  LockDiscipline'
    BY <1>10 DEF Revoke, Reply
  <1>11. ASSUME NEW r \in Requests, RequestFails(r)
         PROVE  LockDiscipline'
    BY <1>11 DEF RequestFails, Reply, Unlock
  <1>12. CASE Tick
    BY <1>12 DEF Tick
  <1>13. CASE UNCHANGED vars
    BY <1>13 DEF vars
  <1> QED
    BY <1>1, <1>2, <1>3, <1>4, <1>5, <1>6, <1>7, <1>8, <1>9, <1>10, <1>11,
       <1>12, <1>13, <1>14 DEF Next, RotateEnd

(* The handlers that write the table; every other step leaves it alone.     *)
LEMMA TableWriters ==
  ASSUME [Next]_vars
  PROVE  \/ \E t \in Tokens : Login(t)
         \/ \E r \in Requests, n \in Tokens : RotateCommit(r, n)
         \/ \E r \in Requests : RevokeFamilyUpdate(r) \/ Revoke(r)
         \/ UNCHANGED dbVars
  BY DEF Next, vars, dbVars, RotateEnd, RefreshStart, LogoutStart, RefreshFind,
         RotateLock, RotateRollback, RevokeFamilyStart, RevokeFamilyLock, LogoutFind,
         RequestFails, Tick

LEMMA NextTableShape == IInv /\ [Next]_vars => TableShape'
  <1> SUFFICES ASSUME IInv, [Next]_vars
               PROVE  TableShape'
    OBVIOUS
  <1> USE ConstantsAssumption DEF IInv, TypeOK, TableShape
  <1>1. ASSUME NEW t \in Tokens, Login(t)
        PROVE  TableShape'
    BY <1>1 DEF Login, InsertRow, Found
  <1>2. ASSUME NEW r \in Requests, NEW n \in Tokens, RotateCommit(r, n)
        PROVE  TableShape'
    BY <1>2 DEF RotateCommit, InsertRow, Found
  <1>3. ASSUME NEW r \in Requests, RevokeFamilyUpdate(r)
        PROVE  TableShape'
    BY <1>3 DEF RevokeFamilyUpdate
  <1>4. ASSUME NEW r \in Requests, Revoke(r)
        PROVE  TableShape'
    BY <1>4 DEF Revoke
  <1>5. CASE UNCHANGED dbVars
    BY <1>5 DEF dbVars
  <1> QED
    BY <1>1, <1>2, <1>3, <1>4, <1>5, TableWriters

(* A step that only revokes leaves every chain with fewer active tokens.    *)
LEMMA RevokingShrinksActive ==
  ASSUME TypeOK, NEW r \in Requests, RevokeFamilyUpdate(r) \/ Revoke(r),
         NEW s
  PROVE  Active(s)' \subseteq Active(s)
  BY DEF TypeOK, RevokeFamilyUpdate, Revoke, Active, Chain

(* A rotation replaces its chain's only active token by the new one.        *)
LEMMA RotationMovesActive ==
  ASSUME IInv, NEW r \in Requests, NEW n \in Tokens, RotateCommit(r, n)
  PROVE  /\ root[tok[r]] \in issued
         /\ \A s \in Tokens :
               IF s = root[tok[r]] THEN Active(s) = {tok[r]} /\ Active(s)' = {n}
                                   ELSE Active(s)' = Active(s)
  <1> USE ConstantsAssumption
      DEF IInv, TypeOK, LockDiscipline, TableShape, AlreadyRotated, RotateCommit,
          InsertRow, Found
  <1>1. tok[r] \in issued /\ revokedAt[tok[r]] = NULL /\ n # tok[r]
    OBVIOUS
  <1>2. root[tok[r]] \in issued
    BY <1>1
  <1>3. revokedAt'[n] = NULL /\ root'[n] = root[tok[r]] /\ n \in issued'
    BY <1>1
  <1>4. \A t \in issued : root'[t] = root[t]
    BY <1>1
  <1>5. \A t \in issued \ {tok[r]} : revokedAt'[t] = revokedAt[t]
    BY <1>1
  <1>6. revokedAt'[tok[r]] # NULL
    BY <1>1
  <1>7. ASSUME NEW s \in Tokens, s = root[tok[r]]
        PROVE  Active(s) = {tok[r]} /\ Active(s)' = {n}
    <2>1. Active(s) = {tok[r]}
      BY <1>1, <1>7 DEF Active, Chain, SingleActive
    <2>2. ASSUME NEW t \in Active(s)'
          PROVE  t = n
      BY <1>1, <1>4, <1>5, <1>6, <2>1, <2>2 DEF Active, Chain
    <2>3. n \in Active(s)'
      BY <1>3, <1>7 DEF Active, Chain
    <2> QED
      BY <2>1, <2>2, <2>3
  <1>8. ASSUME NEW s \in Tokens, s # root[tok[r]]
        PROVE  Active(s)' = Active(s)
    BY <1>1, <1>3, <1>4, <1>5, <1>6, <1>8 DEF Active, Chain
  <1> QED
    BY <1>2, <1>7, <1>8

(* A login opens a chain of its own and touches no other.                   *)
LEMMA LoginOpens ==
  ASSUME IInv, NEW t \in Tokens, Login(t)
  PROVE  /\ Active(t) = {}
         /\ Active(t)' = {t}
         /\ \A s \in Tokens \ {t} : Active(s)' = Active(s)
  <1> USE ConstantsAssumption DEF IInv, TypeOK, TableShape, Login, InsertRow, Found, Active, Chain
  <1>1. Active(t) = {}
    OBVIOUS
  <1>2. Active(t)' = {t}
    BY <1>1
  <1>3. \A s \in Tokens \ {t} : Active(s)' = Active(s)
    OBVIOUS
  <1> QED
    BY <1>1, <1>2, <1>3

LEMMA NextSingleActive == IInv /\ [Next]_vars => SingleActive'
  <1> SUFFICES ASSUME IInv, [Next]_vars
               PROVE  SingleActive'
    OBVIOUS
  <1> USE DEF IInv, SingleActive
  <1>1. ASSUME NEW t \in Tokens, Login(t)
        PROVE  SingleActive'
    BY <1>1, LoginOpens
  <1>2. ASSUME NEW r \in Requests, NEW n \in Tokens, RotateCommit(r, n)
        PROVE  SingleActive'
    BY <1>2, RotationMovesActive
  <1>3. ASSUME NEW r \in Requests, RevokeFamilyUpdate(r) \/ Revoke(r)
        PROVE  SingleActive'
    BY <1>3, RevokingShrinksActive
  <1>4. CASE UNCHANGED dbVars
    BY <1>4 DEF dbVars, Active, Chain
  <1> QED
    BY <1>1, <1>2, <1>3, <1>4, TableWriters

LEMMA NextIInv == IInv /\ [Next]_vars => IInv'
  BY NextTypeOK, NextLockDiscipline, NextTableShape, NextSingleActive DEF IInv

(* The inductive invariant holds in every reachable state.                  *)
THEOREM Invariance == Spec => []IInv
  BY InitIInv, NextIInv, PTL DEF Spec

(* No interleaving of rotations, replays, logouts and failures leaves two   *)
(* tokens of one login usable.                                              *)
THEOREM SingleActiveHolds == Spec => []SingleActive
  <1>1. IInv => SingleActive
    BY DEF IInv
  <1> QED
    BY <1>1, Invariance, PTL

LEMMA WaitingOnWork ==
  ASSUME IInv, NEW r \in Requests, NEW q \in Requests, WaitsFor(r, q)
  PROVE  pc[q] \in {"commit", "revokeFamily"} /\ root[tok[r]] = root[tok[q]]
  <1> USE ConstantsAssumption DEF IInv, TypeOK, LockDiscipline
  <1>1. PICK t \in issued : lock[t] = q /\ root[t] = root[tok[r]]
    BY DEF WaitsFor
  <1>2. \/ pc[q] = "commit" /\ tok[q] = t
        \/ pc[q] = "revokeFamily" /\ t \in family[q]
    BY <1>1
  <1>3. root[t] = root[tok[q]]
    BY <1>2
  <1> QED
    BY <1>1, <1>2, <1>3

(* Whoever is waited for is about to end its transaction or holds rows for  *)
(* a replay of the same chain, and only replays wait while they hold rows:  *)
(* for any number of requests, a circle consists of replays.                *)
THEOREM LocksEnd == Spec => []OnlyReplaysDeadlock
  <1>1. ASSUME IInv, NEW C \in SUBSET Requests, Circle(C), NEW r \in C
        PROVE  pc[r] = "revokeFamily"
    <2>1. PICK p \in C : WaitsFor(r, p)
      BY <1>1 DEF Circle
    <2>2. PICK q \in C : WaitsFor(q, r)
      BY <1>1 DEF Circle
    <2>3. pc[r] \in {"commit", "revokeFamily"}
      BY <1>1, <2>2, WaitingOnWork
    <2> QED
      BY <2>1, <2>3 DEF WaitsFor
  <1>2. IInv => OnlyReplaysDeadlock
    BY <1>1, WaitingOnWork DEF OnlyReplaysDeadlock
  <1> QED
    BY <1>2, Invariance, PTL

-----------------------------------------------------------------------------
(* What a step may never do.                                                *)

LEMMA RevocationPermanentStep ==
  ASSUME IInv, [Next]_vars
  PROVE  \A t \in Tokens :
            /\ revokedAt[t] # NULL => revokedAt'[t] = revokedAt[t]
            /\ replacedBy[t] # NULL => replacedBy'[t] = replacedBy[t]
  <1> USE ConstantsAssumption
      DEF IInv, TypeOK, LockDiscipline, TableShape, AlreadyRotated
  <1>1. ASSUME NEW t \in Tokens, Login(t)
        PROVE  UNCHANGED <<revokedAt, replacedBy>>
    BY <1>1 DEF Login, InsertRow, Found
  <1>2. ASSUME NEW r \in Requests, NEW n \in Tokens, RotateCommit(r, n)
        PROVE  \A t \in Tokens :
                  /\ revokedAt[t] # NULL => revokedAt'[t] = revokedAt[t]
                  /\ replacedBy[t] # NULL => replacedBy'[t] = replacedBy[t]
    BY <1>2 DEF RotateCommit, InsertRow, Found
  <1>3. ASSUME NEW r \in Requests, RevokeFamilyUpdate(r) \/ Revoke(r)
        PROVE  \A t \in Tokens :
                  /\ revokedAt[t] # NULL => revokedAt'[t] = revokedAt[t]
                  /\ replacedBy[t] # NULL => replacedBy'[t] = replacedBy[t]
    BY <1>3 DEF RevokeFamilyUpdate, Revoke
  <1>4. CASE UNCHANGED dbVars
    BY <1>4 DEF dbVars
  <1> QED
    BY <1>1, <1>2, <1>3, <1>4, TableWriters

(* revoked_at and replaced_by are written once, whichever handlers race.    *)
THEOREM RevocationIsPermanent == Spec => RevocationPermanent
  <1>1. IInv /\ [Next]_vars =>
          [\A t \in Tokens :
             /\ revokedAt[t] # NULL => revokedAt'[t] = revokedAt[t]
             /\ replacedBy[t] # NULL => replacedBy'[t] = replacedBy[t]]_vars
    BY RevocationPermanentStep
  <1> QED
    BY <1>1, Invariance, PTL DEF Spec, RevocationPermanent

LEMMA EndedStaysEndedStep ==
  ASSUME IInv, [Next]_vars, NEW s \in issued, Active(s) = {}
  PROVE  Active(s)' = {}
  <1>1. s \in Tokens
    BY DEF IInv, TypeOK
  <1>2. ASSUME NEW t \in Tokens, Login(t)
        PROVE  Active(s)' = {}
    <2>1. s # t
      BY <1>2 DEF Login, InsertRow, Found
    <2> QED
      BY <1>1, <1>2, <2>1, LoginOpens
  <1>3. ASSUME NEW r \in Requests, NEW n \in Tokens, RotateCommit(r, n)
        PROVE  Active(s)' = {}
    BY <1>1, <1>3, RotationMovesActive
  <1>4. ASSUME NEW r \in Requests, RevokeFamilyUpdate(r) \/ Revoke(r)
        PROVE  Active(s)' = {}
    BY <1>4, RevokingShrinksActive DEF IInv
  <1>5. CASE UNCHANGED dbVars
    BY <1>5 DEF dbVars, Active, Chain
  <1> QED
    BY <1>2, <1>3, <1>4, <1>5, TableWriters

(* A session a logout or a replay has ended is never brought back by a      *)
(* rotation that was in flight.                                             *)
THEOREM EndedSessionsStayEnded == Spec => EndedStaysEnded
  <1>1. IInv /\ [Next]_vars =>
          [\A s \in issued : Active(s) = {} => Active(s)' = {}]_vars
    BY EndedStaysEndedStep
  <1> QED
    BY <1>1, Invariance, PTL DEF Spec, EndedStaysEnded

-----------------------------------------------------------------------------
(* Every step maps to a step of the abstract sessions, or to a stutter.     *)

cursor == [s \in Tokens |-> Active(s)]

LEMMA CursorChange ==
  ASSUME NEW s \in Tokens, \A q \in Tokens \ {s} : Active(q)' = Active(q)
  PROVE  cursor' = [cursor EXCEPT ![s] = Active(s)']
  BY DEF cursor

LEMMA CursorStays ==
  ASSUME \A q \in Tokens : Active(q)' = Active(q)
  PROVE  cursor' = cursor
  BY DEF cursor

(* Revoking rows of one chain ends that chain's session or changes nothing. *)
LEMMA RevokingEnds ==
  ASSUME IInv, NEW r \in Requests,
         RevokeFamilyUpdate(r) \/ Revoke(r)
  PROVE  \/ \E s, t \in Tokens : Sessions!End(s, t)
         \/ UNCHANGED <<issued, cursor>>
  <1> DEFINE Hit == IF RevokeFamilyUpdate(r) THEN family[r] ELSE {tok[r]}
  <1> USE ConstantsAssumption DEF IInv, TypeOK, TableShape
  <1>1. UNCHANGED <<issued, root>>
    BY DEF RevokeFamilyUpdate, Revoke
  <1>2. Hit \subseteq issued
    BY DEF Revoke
  <1>3. \A t \in Tokens : revokedAt'[t] = NULL <=> revokedAt[t] = NULL /\ t \notin Hit
    BY DEF RevokeFamilyUpdate, Revoke
  <1>4. \A t, u \in Hit : root[t] = root[u]
    BY DEF LockDiscipline
  <1>5. \A s \in Tokens : Active(s)' = Active(s) \ Hit
    BY <1>1, <1>3 DEF Active, Chain
  <1>6. CASE \E t \in Hit : revokedAt[t] = NULL
    <2>1. PICK t \in Hit : revokedAt[t] = NULL
      BY <1>6
    <2>2. t \in Tokens
      BY <1>2
    <2> PICK s \in Tokens : s = root[t]
      BY <1>2
    <2>3. Active(s) = {t}
      BY <1>2, <2>1 DEF SingleActive, Active, Chain
    <2>4. \A q \in Tokens \ {s} : Active(q) \cap Hit = {}
      BY <1>4, <2>1 DEF Active, Chain
    <2> HIDE DEF Hit
    <2>5. Active(s)' = {}
      BY <1>5, <2>1, <2>3
    <2>6. ASSUME NEW q \in Tokens \ {s}
          PROVE  Active(q)' = Active(q)
      <3>1. Active(q)' = Active(q) \ Hit
        BY <1>5
      <3>2. Active(q) \cap Hit = {}
        BY <2>4
      <3> QED
        BY <3>1, <3>2
    <2>7. cursor' = [cursor EXCEPT ![s] = {}]
      BY <2>5, <2>6, CursorChange
    <2>8. cursor[s] = {t}
      BY <2>2, <2>3 DEF cursor
    <2>9. Sessions!End(s, t)
      BY <1>1, <2>7, <2>8 DEF Sessions!End, cursor
    <2> QED
      BY <2>2, <2>9
  <1>7. CASE \A t \in Hit : revokedAt[t] # NULL
    <2>1. \A q \in Tokens : Active(q)' = Active(q)
      BY <1>5, <1>7 DEF Active
    <2> QED
      BY <1>1, <2>1, CursorStays
  <1> QED
    BY <1>6, <1>7

LEMMA StepSimulation ==
  ASSUME IInv, [Next]_vars
  PROVE  Sessions!Next \/ UNCHANGED <<issued, cursor>>
  <1>1. ASSUME NEW t \in Tokens, Login(t)
        PROVE  Sessions!Next
    <2>1. cursor' = [cursor EXCEPT ![t] = {t}]
      BY <1>1, LoginOpens DEF cursor
    <2>2. Sessions!Open(t)
      BY <1>1, <2>1 DEF Sessions!Open, Login, InsertRow, Found, cursor
    <2> QED
      BY <2>2 DEF Sessions!Next
  <1>2. ASSUME NEW r \in Requests, NEW n \in Tokens, RotateCommit(r, n)
        PROVE  Sessions!Next
    <2> DEFINE s == root[tok[r]]
    <2>1. s \in Tokens /\ tok[r] \in Tokens
      BY <1>2, RotationMovesActive, ConstantsAssumption
         DEF IInv, TypeOK, LockDiscipline, RotateCommit
    <2>2. cursor[s] = {tok[r]} /\ cursor' = [cursor EXCEPT ![s] = {n}]
      BY <1>2, <2>1, RotationMovesActive DEF cursor
    <2>3. Sessions!Advance(s, tok[r], n)
      BY <1>2, <2>2 DEF Sessions!Advance, RotateCommit, InsertRow, Found, cursor
    <2> QED
      BY <2>1, <2>3 DEF Sessions!Next
  <1>3. ASSUME NEW r \in Requests, RevokeFamilyUpdate(r) \/ Revoke(r)
        PROVE  Sessions!Next \/ UNCHANGED <<issued, cursor>>
    BY <1>3, RevokingEnds DEF Sessions!Next
  <1>4. CASE UNCHANGED dbVars
    BY <1>4 DEF dbVars, cursor, Active, Chain
  <1> QED
    BY <1>1, <1>2, <1>3, <1>4, TableWriters

(* Rotation, replay detection and logout implement RefreshSessions: each    *)
(* login is one cursor that only moves to unused tokens and, once ended,    *)
(* stays ended.                                                             *)
THEOREM Refinement == Spec => ImplementsSessions
  <1>1. Init => Sessions!Init
    BY DEF Init, Sessions!Init, Active, Chain
  <1>2. IInv /\ [Next]_vars
          => [Sessions!Next]_<<issued, [s \in Tokens |-> Active(s)]>>
    BY StepSimulation DEF cursor
  <1> QED
    BY <1>1, <1>2, Invariance, PTL DEF Spec, ImplementsSessions, Sessions!Spec

-----------------------------------------------------------------------------
(* The recursive queries find the whole chain. Closed sets make the least   *)
(* fixpoints usable: a set closed after a step, cut down to the rows there  *)
(* were before it, was closed then.                                         *)

LEMMA NoSuccessor ==
  ASSUME IInv, NEW o \in issued, replacedBy[o] = NULL
  PROVE  /\ Forward(o) = {o}
         /\ \A t \in issued \ {o} : o \notin Backward(t)
  <1> USE ConstantsAssumption DEF IInv, TypeOK
  <1>1. Forward(o) \subseteq {o}
    <2>1. {o} \in SUBSET issued /\ ForwardClosed({o})
      BY DEF ForwardClosed
    <2> QED
      BY <2>1 DEF Forward
  <1>2. o \in Forward(o)
    BY DEF Forward
  <1>3. ASSUME NEW t \in issued \ {o}
        PROVE  o \notin Backward(t)
    <2> DEFINE S == issued \ {o}
    <2>1. S \in SUBSET issued /\ t \in S /\ o \notin S
      OBVIOUS
    <2>2. BackwardClosed(S)
      BY DEF BackwardClosed
    <2> QED
      BY <2>1, <2>2 DEF Backward
  <1> QED
    BY <1>1, <1>2, <1>3

(* Old rows keep their links, so what was reachable stays reachable.        *)
LEMMA FamilyGrows ==
  ASSUME IInv, issued \subseteq issued',
         \A y \in issued : replacedBy[y] # NULL => replacedBy'[y] = replacedBy[y],
         NEW t \in issued
  PROVE  Forward(t) \subseteq Forward(t)' /\ Backward(t) \subseteq Backward(t)'
  <1> USE ConstantsAssumption DEF IInv, TypeOK
  <1>1. ASSUME NEW x \in Forward(t), NEW S \in SUBSET issued', t \in S,
               ForwardClosed(S)'
        PROVE  x \in S
    <2>1. ForwardClosed(S \cap issued)
      BY <1>1 DEF ForwardClosed
    <2>2. S \cap issued \in SUBSET issued /\ t \in S \cap issued
      BY <1>1
    <2> QED
      BY <1>1, <2>1, <2>2 DEF Forward
  <1>2. ASSUME NEW x \in Backward(t), NEW S \in SUBSET issued', t \in S,
               BackwardClosed(S)'
        PROVE  x \in S
    <2>1. BackwardClosed(S \cap issued)
      BY <1>2 DEF BackwardClosed
    <2>2. S \cap issued \in SUBSET issued /\ t \in S \cap issued
      BY <1>2
    <2> QED
      BY <1>2, <2>1, <2>2 DEF Backward
  <1>3. Forward(t) \subseteq issued' /\ Backward(t) \subseteq issued'
    BY DEF Forward, Backward
  <1> QED
    BY <1>1, <1>2, <1>3 DEF Forward, Backward

FamilyCoversChain == \A t \in issued : Chain(root[t]) \subseteq Family(t)

LEMMA LoginFamily ==
  ASSUME IInv, FamilyCoversChain, NEW n \in Tokens, Login(n)
  PROVE  FamilyCoversChain'
  <1> SUFFICES ASSUME NEW t \in issued', NEW x \in issued', root'[x] = root'[t]
               PROVE  x \in Family(t)'
    BY DEF FamilyCoversChain, Chain
  <1> USE ConstantsAssumption DEF IInv, TypeOK, TableShape, Login, InsertRow, Found
  <1>1. \A y \in issued : root'[y] = root[y] /\ root[y] \in issued
    OBVIOUS
  <1>2. root'[n] = n /\ issued' = issued \cup {n} /\ n \notin issued
    OBVIOUS
  <1>3. CASE t \in issued
    <2>1. x \in issued /\ root[x] = root[t]
      BY <1>1, <1>2, <1>3
    <2>2. x \in Family(t)
      BY <1>3, <2>1 DEF FamilyCoversChain, Chain
    <2> QED
      BY <1>3, <2>2, FamilyGrows DEF Family
  <1>4. CASE t = n
    <2>1. x = n
      BY <1>1, <1>2, <1>4
    <2> QED
      BY <1>4, <2>1 DEF Family, Forward
  <1> QED
    BY <1>2, <1>3, <1>4

LEMMA RotateFamily ==
  ASSUME IInv, FamilyCoversChain, NEW r \in Requests, NEW n \in Tokens,
         RotateCommit(r, n)
  PROVE  FamilyCoversChain'
  <1> SUFFICES ASSUME NEW t \in issued', NEW x \in issued', root'[x] = root'[t]
               PROVE  x \in Family(t)'
    BY DEF FamilyCoversChain, Chain
  <1> USE ConstantsAssumption
      DEF IInv, TypeOK, LockDiscipline, AlreadyRotated, TableShape, RotateCommit,
          InsertRow, Found
  <1> PICK o \in issued : o = tok[r]
    OBVIOUS
  <1>1. replacedBy[o] = NULL /\ replacedBy'[o] = n /\ root'[n] = root[o]
    OBVIOUS
  <1>2. issued' = issued \cup {n} /\ n \notin issued
    OBVIOUS
  <1>3. \A y \in issued : root'[y] = root[y]
    OBVIOUS
  <1>4. \A y \in issued : replacedBy[y] # NULL => replacedBy'[y] = replacedBy[y]
    OBVIOUS
  <1>5. \A y \in issued :
           Forward(y) \subseteq Forward(y)' /\ Backward(y) \subseteq Backward(y)'
    BY <1>2, <1>4, FamilyGrows
  <1>6. Forward(o) = {o} /\ \A y \in issued \ {o} : o \notin Backward(y)
    BY <1>1, NoSuccessor
  <1>7. CASE t \in issued /\ x \in issued
    <2>1. x \in Family(t)
      BY <1>3, <1>7 DEF FamilyCoversChain, Chain
    <2> QED
      BY <1>5, <1>7, <2>1 DEF Family
  <1>8. CASE t \in issued /\ x = n
    <2>1. o \in Family(t)
      BY <1>1, <1>3, <1>8 DEF FamilyCoversChain, Chain
    <2>2. o \in Forward(t)
      BY <1>6, <1>8, <2>1 DEF Family
    <2>3. o \in Forward(t)'
      BY <1>5, <1>8, <2>2
    <2>4. n \in Forward(t)'
      BY <1>1, <1>2, <2>3 DEF Forward, ForwardClosed
    <2> QED
      BY <1>8, <2>4 DEF Family
  <1>9. CASE t = n /\ x \in issued
    <2>1. x \in Family(o)
      BY <1>1, <1>3, <1>9 DEF FamilyCoversChain, Chain
    <2>2. x \in Backward(o)
      BY <1>6, <2>1 DEF Family, Backward
    <2>3. x \in Backward(o)'
      BY <1>5, <2>2
    <2>4. x \in Backward(n)'
      BY <1>1, <1>2, <2>3 DEF Backward, BackwardClosed
    <2> QED
      BY <1>9, <2>4 DEF Family
  <1>10. CASE t = n /\ x = n
    BY <1>2, <1>10 DEF Family, Forward
  <1> QED
    BY <1>2, <1>7, <1>8, <1>9, <1>10

LEMMA NextFamilyCoversChain ==
  IInv /\ FamilyCoversChain /\ [Next]_vars => FamilyCoversChain'
  <1> SUFFICES ASSUME IInv, FamilyCoversChain, [Next]_vars
               PROVE  FamilyCoversChain'
    OBVIOUS
  <1>1. CASE UNCHANGED <<issued, root, replacedBy>>
    BY <1>1 DEF FamilyCoversChain, Family, Forward, Backward, ForwardClosed,
                BackwardClosed, Chain
  <1>2. ASSUME NEW r \in Requests, RevokeFamilyUpdate(r) \/ Revoke(r)
        PROVE  UNCHANGED <<issued, root, replacedBy>>
    BY <1>2 DEF RevokeFamilyUpdate, Revoke
  <1> QED
    BY <1>1, <1>2, LoginFamily, RotateFamily, TableWriters DEF dbVars

(* Whatever the history of the table, RevokeFamily's forward and backward   *)
(* queries find exactly the chain of the row they start from.               *)
THEOREM FamilyIsChainHolds == Spec => []FamilyIsChain
  <1>1. Init => FamilyCoversChain
    BY DEF Init, FamilyCoversChain
  <1>2. IInv /\ FamilyCoversChain => FamilyIsChain
    BY FamilyInChain DEF FamilyCoversChain, FamilyIsChain
  <1> QED
    BY <1>1, <1>2, InitIInv, NextIInv, NextFamilyCoversChain, PTL DEF Spec
=============================================================================
