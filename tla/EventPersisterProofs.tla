------------------------- MODULE EventPersisterProofs -------------------------
(***************************************************************************)
(* Proofs about EventPersister, for any number of processes, messages,      *)
(* retries, faults and any length of the partition.                         *)
(*                                                                         *)
(* Rows and reports are never removed, so the settled indexes only grow,    *)
(* and a handler call that ends has settled its message. The rest is the    *)
(* consumer group's: KafkaConsumerProofs, with the settled indexes as what  *)
(* is finished and the rows as the effects.                                 *)
(***************************************************************************)
EXTENDS EventPersister, KafkaConsumerProofs

Done == {i \in 1 .. Len(log) : Settled(i)}

(* The parts of IInv about the partition are promises of the group.         *)
LEMMA InvariantAsPromise ==
    TypeOK => (CommittedSettled /\ StoredInOrder /\ ReadSettled <=>
                  Vouched(Done) /\ InOrder(Done, rows))
<1> SUFFICES ASSUME TypeOK
             PROVE  CommittedSettled /\ StoredInOrder /\ ReadSettled <=>
                       Vouched(Done) /\ InOrder(Done, rows)
  OBVIOUS
<1>1. \A n \in 0 .. Len(log) : SettledUpTo(n) <=> 1 .. n \subseteq Done
  BY DEF SettledUpTo, Done, TypeOK, GroupTypeOK
<1>2. /\ Len(log) \in Nat /\ committed \in 0 .. Len(log)
      /\ \A c \in Members : position[c] \in 0 .. Len(log) /\ current[c] \in 0 .. Len(log)
      /\ \A c \in Members : pc[c] = "handle" => current[c] - 1 \in 0 .. Len(log)
  BY DEF TypeOK, GroupTypeOK
<1>3. CommittedSettled /\ ReadSettled <=> Vouched(Done)
  BY <1>1, <1>2 DEF CommittedSettled, ReadSettled, Vouched
<1>4. \A j \in 1 .. Len(log), k \in 1 .. Len(log) : k \in 1 .. j => k - 1 \in 0 .. Len(log)
  BY <1>2
<1>5. StoredInOrder <=> InOrder(Done, rows)
  BY <1>1, <1>2, <1>4, SMTT(30) DEF StoredInOrder, InOrder
<1> QED
  BY <1>3, <1>5

-----------------------------------------------------------------------------
(* What a step does to the table and the reports, besides the group's.      *)
LEMMA PersisterEffects ==
    ASSUME TypeOK, [Next]_vars
    PROVE  /\ GroupStep /\ rows \subseteq rows' /\ gaveUp \subseteq gaveUp'
           /\ \/ UNCHANGED <<rows, gaveUp>>
              \/ /\ log' = log
                 /\ \E c \in Members : /\ pc[c] = "handle"
                                       /\ rows' \subseteq rows \cup {Message(c)}
                                       /\ gaveUp' \subseteq gaveUp \cup {current[c]}
           /\ \A c \in Members : pc[c] = "handle" /\ pc'[c] = "commit" =>
                 \/ current[c] \in gaveUp'
                 \/ Message(c) \in rows' \cup Invalid
<1>1. GroupTypeOK /\ faults \in Nat
  BY DEF TypeOK, GroupTypeOK
<1>2. ASSUME NEW c \in Members, Handle(c)
      PROVE  /\ Succeeded(c) \/ Failed(c)
             /\ pc[c] = "handle" /\ log' = log
             /\ rows \subseteq rows' /\ rows' \subseteq rows \cup {Message(c)}
             /\ gaveUp \subseteq gaveUp' /\ gaveUp' \subseteq gaveUp \cup {current[c]}
             /\ pc'[c] = "commit" => \/ current[c] \in gaveUp'
                                     \/ Message(c) \in rows' \cup Invalid
             /\ \A d \in Members : d # c => pc'[d] = pc[d]
  BY <1>1, <1>2
     DEF Handle, DropInvalid, Persist, PersistFails, HandlerFails, InsertEvent, Handling,
         LastAttempt, Succeeded, Failed, GroupTypeOK
<1>3. CASE \E c \in Members : Handle(c)
  BY <1>2, <1>3 DEF GroupStep
<1>4. CASE GroupNext /\ TableUnchanged
  <2>1. \A c \in Members : pc[c] = "handle" => pc'[c] # "commit"
    BY <1>1, <1>4
       DEF GroupNext, Produce, Start, Join, Rebalance, Assign, Fetch, Commit, CommitFails,
           Exit, Leave, memberVars, GroupTypeOK
  <2> QED
    BY <1>4, <2>1 DEF GroupStep, TableUnchanged
<1>5. CASE UNCHANGED vars
  BY <1>1, <1>5 DEF GroupStep, vars, groupVars, memberVars
<1> QED
  BY <1>3, <1>4, <1>5 DEF Next

(* Nothing that is settled is unsettled, and what leaves a handler is.      *)
LEMMA Stays ==
    ASSUME TypeOK, [Next]_vars
    PROVE  /\ LogGrows
           /\ \A i \in 1 .. Len(log) : Settled(i) => Settled(i)'
           /\ \A c \in Members, i \in 1 .. Len(log) :
                 pc[c] = "handle" /\ pc'[c] = "commit" /\ i = current[c] => Settled(i)'
<1>1. LogGrows
  BY PersisterEffects, LogStep DEF TypeOK
<1> QED
  BY <1>1, PersisterEffects DEF LogGrows, Settled, Message

(* The types are preserved by every step of Next.                           *)
LEMMA TypeStep == TypeOK /\ [Next]_vars => TypeOK'
<1> SUFFICES ASSUME TypeOK, [Next]_vars PROVE TypeOK'
  OBVIOUS
<1>1. /\ GroupTypeOK /\ GroupTypeOK' /\ LogGrows
  BY PersisterEffects, LogStep, GroupTypeStep DEF TypeOK
<1>2. \A i \in 1 .. Len(log) : i \in 1 .. Len(log') /\ log'[i] = log[i]
  BY <1>1 DEF LogGrows
<1>3. CASE UNCHANGED <<rows, gaveUp>>
  BY <1>1, <1>2, <1>3 DEF TypeOK
<1>4. ASSUME log' = log, NEW c \in Members, pc[c] = "handle",
             rows' \subseteq rows \cup {Message(c)}, gaveUp' \subseteq gaveUp \cup {current[c]}
      PROVE  TypeOK'
  <2>1. current[c] \in 1 .. Len(log)
    BY <1>1, <1>4 DEF GroupTypeOK
  <2> QED
    BY <1>1, <1>4, <2>1 DEF TypeOK, Message
<1> QED
  BY <1>3, <1>4, PersisterEffects

-----------------------------------------------------------------------------
(* The invariant is inductive.                                              *)
LEMMA InvariantStep == IInv /\ [Next]_vars => IInv'
<1> SUFFICES ASSUME IInv, [Next]_vars PROVE IInv'
  OBVIOUS
<1>1. /\ TypeOK /\ GroupTypeOK /\ OwnerRuns /\ TypeOK' /\ GroupStep /\ LogGrows
      /\ Vouched(Done) /\ InOrder(Done, rows)
  BY TypeStep, PersisterEffects, Stays, InvariantAsPromise DEF IInv, TypeOK
<1>2. OwnerRuns'
  BY <1>1, OwnerStep
<1>3. PICK T, W : T = Done' /\ W = rows'
  OBVIOUS
<1>4. Done \subseteq T
  BY <1>1, <1>3, Stays DEF Done, LogGrows
<1>5. \A i \in 1 .. Len(log) : log[i] \in Undecodable => i \in Done
  BY DEF Done, Settled
<1>6. ASSUME NEW c \in Members, pc[c] = "handle", pc'[c] = "commit"
      PROVE  current[c] \in T
  <2>1. PICK i \in 1 .. Len(log) : i = current[c]
    BY <1>1, <1>6 DEF GroupTypeOK
  <2>2. Settled(i)' /\ i \in 1 .. Len(log')
    BY <1>1, <1>6, <2>1, Stays DEF LogGrows
  <2> QED
    BY <1>3, <2>1, <2>2 DEF Done
<1>7. Vouched(T)'
  BY <1>1, <1>4, <1>5, <1>6, VouchedStep
<1>8. \A v \in rows : \E i \in 1 .. Len(log) : log[i] = v
  BY <1>1 DEF TypeOK
<1>9. \A v \in W \ rows : log' = log /\ \E c \in Members : pc[c] = "handle" /\ v = Message(c)
  BY <1>1, <1>3, PersisterEffects
<1>10. InOrder(T, W)'
  BY <1>1, <1>4, <1>8, <1>9, InOrderStep
<1>11. Vouched(Done)' /\ InOrder(Done, rows)'
  BY <1>3, <1>7, <1>10 DEF Vouched, InOrder
<1>12. (CommittedSettled /\ StoredInOrder /\ ReadSettled)'
  BY <1>1, <1>11, InvariantAsPromise, PTL
<1> QED
  BY <1>1, <1>2, <1>12 DEF IInv

(* The group starts with an empty partition and nothing committed.          *)
LEMMA InitInvariant == Init => IInv
<1> SUFFICES ASSUME Init PROVE IInv
  OBVIOUS
<1>1. GroupTypeOK /\ OwnerRuns /\ Vouched(Done) /\ InOrder(Done, rows)
  BY GroupStart DEF Init
<1>2. TypeOK
  BY <1>1 DEF Init, TypeOK
<1> QED
  BY <1>1, <1>2, InvariantAsPromise DEF IInv

(* The inductive invariant holds in every reachable state of the            *)
(* event-persister.                                                         *)
THEOREM Invariance == Spec => []IInv
BY InitInvariant, InvariantStep, PTL DEF Spec

(* The consumer loop keeps its state well formed, and no row is ever        *)
(* written that was not on the partition.                                   *)
THEOREM TypeCorrect == Spec => []TypeOK
<1>1. IInv => TypeOK
  BY DEF IInv
<1> QED
  BY <1>1, Invariance, PTL

(* Run commits after the handler: no message before the committed position  *)
(* is unsettled, whatever crashes, takeovers and late commits do to it.     *)
THEOREM AtLeastOnce == Spec => []CommittedSettled
<1>1. IInv => CommittedSettled
  BY DEF IInv
<1> QED
  BY <1>1, Invariance, PTL

(* Rows appear in wallet_events in the order of the partition, also when    *)
(* two processes handle messages of the same partition at once.             *)
THEOREM OrderedTable == Spec => []StoredInOrder
<1>1. IInv => StoredInOrder
  BY DEF IInv
<1> QED
  BY <1>1, Invariance, PTL
=============================================================================
