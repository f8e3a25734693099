-------------------------- MODULE EventNotifierProofs --------------------------
(***************************************************************************)
(* Proofs about EventNotifier, for any number of processes, any prefetch    *)
(* and any length of the queue.                                             *)
(*                                                                         *)
(* A position leaves ready only into the unacknowledged deliveries of a     *)
(* process, and those only by an acknowledgement, a nack, or back into      *)
(* ready when the connection ends. Either of the first two takes the first  *)
(* delivery, and it is the one the process has alerted or discards. A       *)
(* process that has the queue for itself also takes it in order.            *)
(***************************************************************************)
EXTENDS EventNotifier, TLAPS

Elems(s) == {s[k] : k \in DOMAIN s}
Finished == alerted \cup discarded

(* What a process knows of its deliveries.                                  *)
ProcessOK(n) ==
    /\ unacked[n] \in Seq(Positions)
    /\ Len(unacked[n]) <= Prefetch
    /\ ~connected[n] => unacked[n] = <<>>
    /\ connected[n] => pc[n] # "down"
    /\ pc[n] \in {"handle", "ack"} <=> inHand[n] # 0
    /\ (connected[n] /\ inHand[n] # 0) =>
          unacked[n] # <<>> /\ Head(unacked[n]) = inHand[n]
    /\ pc[n] = "ack" => inHand[n] \in alerted

(* A process that is alone at the queue has the oldest of what waits, in    *)
(* order, and what precedes the message in its hand or an alerted one is    *)
(* finished.                                                                *)
InQueueOrder(n) ==
    /\ \A k, l \in DOMAIN unacked[n] : k < l => unacked[n][k] < unacked[n][l]
    /\ \A k \in DOMAIN unacked[n] : \A i \in ready : unacked[n][k] < i
    /\ \A i \in 1 .. (inHand[n] - 1) : i \in Finished
    /\ \A p \in alerted : \A i \in 1 .. (p - 1) : i \in Finished

(* The inductive invariant.                                                 *)
IInv ==
    /\ TypeOK /\ NoMessageLost
    /\ \A n \in Notifiers : ProcessOK(n)
    /\ \A n \in Notifiers : Notifiers = {n} => InQueueOrder(n)
    /\ faults \in Nat /\ unacked = [n \in Notifiers |-> unacked[n]]

-----------------------------------------------------------------------------
(* A delivery at the end, and the first one taken away.                     *)
LEMMA Appended ==
    ASSUME NEW S, NEW s \in Seq(S), NEW x \in S
    PROVE  /\ Append(s, x) \in Seq(S) /\ Len(Append(s, x)) = Len(s) + 1
           /\ DOMAIN s = 1 .. Len(s) /\ DOMAIN Append(s, x) = 1 .. (Len(s) + 1)
           /\ Len(s) \in Nat
           /\ \A k \in DOMAIN s : Append(s, x)[k] = s[k]
           /\ Append(s, x)[Len(s) + 1] = x
           /\ Elems(Append(s, x)) = Elems(s) \cup {x}
           /\ Append(s, x) # <<>>
           /\ s # <<>> => Head(Append(s, x)) = Head(s)
<1>1. /\ Append(s, x) \in Seq(S) /\ Len(Append(s, x)) = Len(s) + 1 /\ Len(s) \in Nat
      /\ DOMAIN s = 1 .. Len(s) /\ DOMAIN Append(s, x) = 1 .. (Len(s) + 1)
  OBVIOUS
<1>2. /\ \A k \in DOMAIN s : Append(s, x)[k] = s[k]
      /\ Append(s, x)[Len(s) + 1] = x
  OBVIOUS
<1>3. Elems(Append(s, x)) = Elems(s) \cup {x}
  BY <1>1, <1>2 DEF Elems
<1>4. Append(s, x) # <<>>
  BY <1>1
<1>5. ASSUME s # <<>> PROVE Head(Append(s, x)) = Head(s)
  <2>1. Len(s) > 0
    BY <1>1, <1>5
  <2>2. Head(Append(s, x)) = Append(s, x)[1] /\ Head(s) = s[1]
    BY <1>4, <1>5
  <2> QED
    BY <1>1, <1>2, <2>1, <2>2
<1> QED
  BY <1>1, <1>2, <1>3, <1>4, <1>5

LEMMA FirstTaken ==
    ASSUME NEW S, NEW s \in Seq(S), s # <<>>
    PROVE  /\ Tail(s) \in Seq(S) /\ Len(Tail(s)) = Len(s) - 1 /\ Len(s) \in Nat
           /\ DOMAIN s = 1 .. Len(s) /\ DOMAIN Tail(s) = 1 .. (Len(s) - 1)
           /\ Head(s) = s[1] /\ 1 \in DOMAIN s /\ Head(s) \in S
           /\ \A k \in DOMAIN Tail(s) : Tail(s)[k] = s[k + 1]
           /\ Elems(s) = {Head(s)} \cup Elems(Tail(s))
<1>1. /\ Tail(s) \in Seq(S) /\ Len(Tail(s)) = Len(s) - 1 /\ Len(s) \in Nat \ {0}
      /\ DOMAIN s = 1 .. Len(s) /\ DOMAIN Tail(s) = 1 .. (Len(s) - 1)
      /\ Head(s) = s[1] /\ Head(s) \in S
      /\ \A k \in DOMAIN Tail(s) : Tail(s)[k] = s[k + 1]
  OBVIOUS
<1>2. ASSUME NEW k \in DOMAIN s
      PROVE  s[k] \in {Head(s)} \cup Elems(Tail(s))
  <2>1. CASE k = 1
    BY <1>1, <2>1
  <2>2. CASE k # 1
    <3>1. k - 1 \in DOMAIN Tail(s) /\ Tail(s)[k - 1] = s[k]
      BY <1>1, <1>2, <2>2
    <3> QED
      BY <3>1 DEF Elems
  <2> QED
    BY <2>1, <2>2
<1>3. \A k \in DOMAIN Tail(s) : k + 1 \in DOMAIN s /\ 1 \in DOMAIN s
  BY <1>1
<1>4. Elems(s) = {Head(s)} \cup Elems(Tail(s))
  <2>1. Elems(s) \subseteq {Head(s)} \cup Elems(Tail(s))
    BY <1>2 DEF Elems
  <2>2. Head(s) \in Elems(s)
    BY <1>1 DEF Elems
  <2>3. Elems(Tail(s)) \subseteq Elems(s)
    BY <1>1, <1>3 DEF Elems
  <2> QED
    BY <2>1, <2>2, <2>3
<1> QED
  BY <1>1, <1>4

-----------------------------------------------------------------------------
(* What a step of a process must do for the invariant to hold again: leave  *)
(* the other processes alone, keep its own deliveries right, and put every  *)
(* position it takes somewhere else.                                        *)
LEMMA ProcessStep ==
    ASSUME IInv, NEW n \in Notifiers, published' = published,
           ready' \subseteq Positions,
           connected' \in [Notifiers -> BOOLEAN],
           pc' \in [Notifiers -> {"down", "select", "handle", "ack"}],
           inHand' \in [Notifiers -> Positions \cup {0}],
           attempt' \in [Notifiers -> 0 .. MaxRetries],
           unacked' = [q \in Notifiers |-> unacked'[q]],
           alerted \subseteq alerted', alerted' \subseteq Positions,
           discarded \subseteq discarded', discarded' \subseteq Positions,
           faults' \in Nat,
           \A q \in Notifiers \ {n} :
              UNCHANGED <<unacked[q], connected[q], pc[q], inHand[q]>>,
           ProcessOK(n)',
           ready \subseteq ready' \cup Elems(unacked'[n]),
           Elems(unacked[n]) \subseteq
              ready' \cup Elems(unacked'[n]) \cup alerted' \cup discarded',
           Notifiers = {n} => InQueueOrder(n)'
    PROVE  IInv'
<1>1. Positions' = Positions
  BY DEF Positions
<1>2. \A q \in Notifiers : ProcessOK(q)'
  <2>1. ASSUME NEW q \in Notifiers, q # n PROVE ProcessOK(q)'
    <3>1. ProcessOK(q) /\ UNCHANGED <<unacked[q], connected[q], pc[q], inHand[q]>>
      BY <2>1 DEF IInv
    <3> QED
      BY <1>1, <3>1 DEF ProcessOK
  <2> QED
    BY <2>1
<1>3. TypeOK'
  BY <1>1, <1>2 DEF IInv, TypeOK, ProcessOK
<1>4. NoMessageLost'
  <2> SUFFICES ASSUME NEW i \in Positions, i \notin alerted' \cup discarded'
               PROVE  Waiting(i)'
    BY <1>1 DEF NoMessageLost
  <2>1. i \in ready \/ \E q \in Notifiers : i \in Elems(unacked[q])
    BY DEF IInv, NoMessageLost, Waiting, Elems
  <2>2. ASSUME NEW q \in Notifiers, q # n, i \in Elems(unacked[q])
        PROVE  i \in Elems(unacked'[q])
    BY <2>2 DEF Elems
  <2>3. i \in ready' \/ \E q \in Notifiers : i \in Elems(unacked'[q])
    BY <2>1, <2>2
  <2> QED
    BY <2>3 DEF Waiting, Elems
<1>5. \A q \in Notifiers : Notifiers = {q} => InQueueOrder(q)'
  OBVIOUS
<1> QED
  BY <1>2, <1>3, <1>4, <1>5 DEF IInv

(* The facts every step starts from.                                        *)
LEMMA Facts ==
    ASSUME IInv, NEW n \in Notifiers
    PROVE  /\ TypeOK /\ ProcessOK(n) /\ unacked[n] \in Seq(Positions)
           /\ unacked = [q \in Notifiers |-> unacked[q]] /\ faults \in Nat
           /\ Len(published) \in Nat /\ Positions = 1 .. Len(published)
           /\ Notifiers = {n} => InQueueOrder(n)
<1>1. /\ TypeOK /\ ProcessOK(n) /\ faults \in Nat
      /\ unacked = [q \in Notifiers |-> unacked[q]]
      /\ Notifiers = {n} => InQueueOrder(n)
  BY DEF IInv
<1>2. unacked[n] \in Seq(Positions)
  BY <1>1 DEF ProcessOK
<1>3. Len(published) \in Nat /\ Positions = 1 .. Len(published)
  BY <1>1 DEF TypeOK, Positions
<1> QED
  BY <1>1, <1>2, <1>3

(* A step of Run that leaves the deliveries alone.                          *)
LEMMA RunStep ==
    ASSUME IInv, NEW n \in Notifiers,
           UNCHANGED <<published, ready, unacked, connected, discarded, faults>>,
           alerted \subseteq alerted', alerted' \subseteq Positions,
           pc' \in [Notifiers -> {"down", "select", "handle", "ack"}],
           inHand' \in [Notifiers -> Positions \cup {0}],
           attempt' \in [Notifiers -> 0 .. MaxRetries],
           \A q \in Notifiers \ {n} : UNCHANGED <<pc[q], inHand[q]>>,
           ProcessOK(n)', Notifiers = {n} => InQueueOrder(n)'
    PROVE  IInv'
<1>1. /\ unacked' = [q \in Notifiers |-> unacked'[q]] /\ Elems(unacked'[n]) = Elems(unacked[n])
      /\ \A q \in Notifiers \ {n} :
            UNCHANGED <<unacked[q], connected[q], pc[q], inHand[q]>>
      /\ discarded' \subseteq Positions /\ discarded \subseteq discarded'
      /\ ready' \subseteq Positions /\ faults' \in Nat
      /\ connected' \in [Notifiers -> BOOLEAN]
  BY Facts DEF TypeOK
<1> QED
  BY <1>1, ProcessStep

(* What precedes the first delivery of a process alone at the queue is not  *)
(* waiting.                                                                 *)
LEMMA BeforeFirst ==
    ASSUME IInv, NEW n \in Notifiers, Notifiers = {n}, unacked[n] # <<>>,
           NEW i \in 1 .. (Head(unacked[n]) - 1)
    PROVE  i \in Finished
<1>1. /\ Head(unacked[n]) = unacked[n][1] /\ 1 \in DOMAIN unacked[n]
      /\ DOMAIN unacked[n] = 1 .. Len(unacked[n]) /\ Len(unacked[n]) \in Nat
      /\ Head(unacked[n]) \in Positions
  BY Facts, FirstTaken
<1>2. i \in Positions /\ i < unacked[n][1]
  BY <1>1, Facts
<1>3. i \notin ready
  BY <1>1, <1>2, Facts DEF InQueueOrder, TypeOK
<1>4. ASSUME NEW k \in DOMAIN unacked[n]
      PROVE  unacked[n][k] # i
  <2>1. k = 1 \/ unacked[n][1] < unacked[n][k]
    <3>1. InQueueOrder(n) /\ (k = 1 \/ 1 < k)
      BY <1>1, Facts
    <3> QED
      BY <1>1, <3>1 DEF InQueueOrder
  <2>2. unacked[n][1] \in Nat /\ unacked[n][k] \in Nat /\ i \in Nat
    BY <1>1, <1>2, Facts
  <2> QED
    BY <1>2, <2>1, <2>2
<1>5. ~Waiting(i)
  BY <1>3, <1>4 DEF Waiting
<1> QED
  BY <1>2, <1>5 DEF IInv, NoMessageLost, Finished

-----------------------------------------------------------------------------
(* The steps, one by one.                                                   *)

LEMMA ConnectStep ==
    ASSUME IInv, NEW n \in Notifiers, Connect(n)
    PROVE  IInv'
<1>1. ProcessOK(n)' /\ (Notifiers = {n} => InQueueOrder(n)')
  BY Facts DEF Connect, ProcessOK, InQueueOrder, TypeOK, Positions, Finished
<1>2. unacked' = unacked
  BY DEF Connect
<1> QED
  BY <1>1, <1>2, Facts, ProcessStep DEF Connect, TypeOK

LEMMA DeliverStep ==
    ASSUME IInv, NEW n \in Notifiers, NEW i \in ready, Deliver(n, i)
    PROVE  IInv'
<1>1. /\ i \in Positions /\ unacked' = [unacked EXCEPT ![n] = Append(unacked[n], i)]
      /\ unacked'[n] = Append(unacked[n], i)
      /\ unacked' = [q \in Notifiers |-> unacked'[q]]
      /\ \A q \in Notifiers \ {n} : unacked'[q] = unacked[q]
      /\ ready' = ready \ {i} /\ NextReady(i) /\ connected[n]
      /\ UNCHANGED <<published, connected, pc, inHand, attempt, alerted, discarded, faults>>
  BY Facts DEF Deliver, TypeOK, runVars
<1>2. /\ unacked'[n] \in Seq(Positions) /\ Len(unacked'[n]) = Len(unacked[n]) + 1
      /\ DOMAIN unacked[n] = 1 .. Len(unacked[n])
      /\ DOMAIN unacked'[n] = 1 .. (Len(unacked[n]) + 1)
      /\ \A k \in DOMAIN unacked[n] : unacked'[n][k] = unacked[n][k]
      /\ unacked'[n][Len(unacked[n]) + 1] = i
      /\ Elems(unacked'[n]) = Elems(unacked[n]) \cup {i}
      /\ unacked'[n] # <<>> /\ (unacked[n] # <<>> => Head(unacked'[n]) = Head(unacked[n]))
      /\ Len(unacked[n]) \in Nat
  BY <1>1, Facts, Appended, SMTT(30)
<1>3. ProcessOK(n)'
  <2>1. Len(unacked[n]) < Prefetch /\ Prefetch \in Nat
    BY NotifierAssumption DEF Deliver
  <2>2. ProcessOK(n) /\ Positions' = Positions
    BY <1>1, Facts DEF Positions
  <2>3. unacked'[n] \in Seq(Positions)' /\ Len(unacked'[n]) <= Prefetch
    BY <1>2, <2>1, <2>2
  <2> QED
    BY <1>1, <1>2, <2>2, <2>3 DEF ProcessOK
<1>4. ASSUME Notifiers = {n}
      PROVE  InQueueOrder(n)'
  <2>1. InQueueOrder(n) /\ ready \subseteq 1 .. Len(published) /\ Len(published) \in Nat
    BY <1>4, Facts DEF TypeOK
  <2>2. \A j \in ready' : i < j
    BY <1>1, <2>1 DEF NextReady
  <2>3. \A k \in DOMAIN unacked[n] : unacked[n][k] < i
    BY <2>1 DEF InQueueOrder
  <2>4. \A k, l \in DOMAIN unacked'[n] : k < l => unacked'[n][k] < unacked'[n][l]
    BY <1>2, <2>1, <2>3, SMTT(30) DEF InQueueOrder
  <2>5. \A k \in DOMAIN unacked'[n] : \A j \in ready' : unacked'[n][k] < j
    BY <1>1, <1>2, <2>1, <2>2 DEF InQueueOrder
  <2> QED
    BY <1>1, <2>1, <2>4, <2>5 DEF InQueueOrder, Finished
<1> QED
  BY <1>1, <1>2, <1>3, <1>4, Facts, ProcessStep DEF TypeOK

(* The first delivery leaves, alerted or discarded.                         *)
LEMMA TakeFirst ==
    ASSUME IInv, NEW n \in Notifiers, unacked[n] # <<>>,
           unacked' = [unacked EXCEPT ![n] = Tail(@)],
           UNCHANGED <<published, ready, connected, alerted, faults>>,
           discarded \subseteq discarded',
           discarded' \subseteq discarded \cup {Head(unacked[n])},
           Head(unacked[n]) \in alerted \cup discarded',
           connected[n], pc' = [pc EXCEPT ![n] = "select"],
           inHand' = [inHand EXCEPT ![n] = 0],
           attempt' \in [Notifiers -> 0 .. MaxRetries]
    PROVE  IInv'
<1>1. /\ unacked'[n] = Tail(unacked[n])
      /\ unacked' = [q \in Notifiers |-> unacked'[q]]
      /\ \A q \in Notifiers \ {n} : unacked'[q] = unacked[q]
      /\ pc'[n] = "select" /\ inHand'[n] = 0 /\ connected'[n]
      /\ Positions' = Positions
  BY Facts DEF TypeOK, Positions
<1>2. /\ unacked'[n] \in Seq(Positions) /\ Len(unacked'[n]) = Len(unacked[n]) - 1
      /\ Len(unacked[n]) \in Nat
      /\ DOMAIN unacked[n] = 1 .. Len(unacked[n])
      /\ DOMAIN unacked'[n] = 1 .. (Len(unacked[n]) - 1)
      /\ \A k \in DOMAIN unacked'[n] : unacked'[n][k] = unacked[n][k + 1]
      /\ Elems(unacked[n]) = {Head(unacked[n])} \cup Elems(unacked'[n])
      /\ Head(unacked[n]) \in Positions
  BY <1>1, Facts, FirstTaken
<1>3. ProcessOK(n)'
  BY <1>1, <1>2, Facts, NotifierAssumption DEF ProcessOK
<1>4. ASSUME Notifiers = {n}
      PROVE  InQueueOrder(n)'
  <2>1. \A k \in DOMAIN unacked'[n] : k + 1 \in DOMAIN unacked[n]
    BY <1>2
  <2>2. InQueueOrder(n)
    BY <1>4, Facts
  <2>3. ASSUME NEW k \in DOMAIN unacked'[n], NEW l \in DOMAIN unacked'[n], k < l
        PROVE  unacked'[n][k] < unacked'[n][l]
    <3>1. k + 1 < l + 1 /\ k + 1 \in DOMAIN unacked[n] /\ l + 1 \in DOMAIN unacked[n]
      BY <1>2, <2>1, <2>3
    <3>2. unacked[n][k + 1] < unacked[n][l + 1]
      BY <2>2, <3>1 DEF InQueueOrder
    <3> QED
      BY <1>2, <3>2
  <2>4. \A k \in DOMAIN unacked'[n] : \A j \in ready : unacked'[n][k] < j
    BY <1>2, <2>1, <2>2 DEF InQueueOrder
  <2> QED
    BY <1>1, <2>2, <2>3, <2>4 DEF InQueueOrder, Finished
<1>5. /\ discarded' \subseteq Positions /\ inHand' \in [Notifiers -> Positions \cup {0}]
      /\ pc' \in [Notifiers -> {"down", "select", "handle", "ack"}]
  BY <1>2, Facts DEF TypeOK
<1>6. /\ \A q \in Notifiers \ {n} :
            UNCHANGED <<unacked[q], connected[q], pc[q], inHand[q]>>
      /\ Elems(unacked[n]) \subseteq
            ready' \cup Elems(unacked'[n]) \cup alerted' \cup discarded'
  BY <1>1, <1>2, Facts DEF TypeOK
<1>7. ready \subseteq ready' /\ faults' \in Nat /\ ready' \subseteq Positions
      /\ alerted' \subseteq Positions /\ connected' \in [Notifiers -> BOOLEAN]
  BY Facts DEF TypeOK
<1> QED
  BY <1>1, <1>3, <1>4, <1>5, <1>6, <1>7, ProcessStep

LEMMA ReceiveStep ==
    ASSUME IInv, NEW n \in Notifiers, Receive(n)
    PROVE  IInv'
<1>1. /\ unacked[n] # <<>> /\ connected[n] /\ pc[n] = "select" /\ inHand[n] = 0
      /\ UNCHANGED <<published, ready, connected, alerted, faults>>
  BY Facts DEF Receive, ProcessOK
<1>2. CASE published[Head(unacked[n])] \in Undecodable
  <2>1. /\ pc' = [pc EXCEPT ![n] = "select"] /\ inHand' = [inHand EXCEPT ![n] = 0]
        /\ attempt' \in [Notifiers -> 0 .. MaxRetries]
    BY <1>1, <1>2, Facts DEF Receive, runVars, TypeOK
  <2> QED
    BY <1>1, <1>2, <2>1, TakeFirst DEF Receive
<1>3. CASE published[Head(unacked[n])] \notin Undecodable
  <2>1. /\ pc' = [pc EXCEPT ![n] = "handle"]
        /\ inHand' = [inHand EXCEPT ![n] = Head(unacked[n])]
        /\ attempt' = [attempt EXCEPT ![n] = 1]
        /\ UNCHANGED <<unacked, discarded>> /\ Positions' = Positions
    BY <1>1, <1>3 DEF Receive, Positions
  <2>2. Head(unacked[n]) \in Positions /\ Head(unacked[n]) # 0
    BY <1>1, Facts, FirstTaken
  <2>3. /\ pc'[n] = "handle" /\ inHand'[n] = Head(unacked[n])
        /\ pc' \in [Notifiers -> {"down", "select", "handle", "ack"}]
        /\ inHand' \in [Notifiers -> Positions \cup {0}]
        /\ attempt' \in [Notifiers -> 0 .. MaxRetries]
        /\ \A q \in Notifiers \ {n} : pc'[q] = pc[q] /\ inHand'[q] = inHand[q]
    BY <2>1, <2>2, Facts, NotifierAssumption DEF TypeOK
  <2>4. ProcessOK(n)'
    BY <1>1, <2>1, <2>2, <2>3, Facts DEF ProcessOK
  <2>5. Notifiers = {n} => InQueueOrder(n)'
    BY <1>1, <2>1, <2>3, Facts, BeforeFirst DEF InQueueOrder, Finished
  <2> QED
    BY <1>1, <2>1, <2>3, <2>4, <2>5, Facts, RunStep DEF TypeOK
<1> QED
  BY <1>2, <1>3

LEMMA NotifyStep ==
    ASSUME IInv, NEW n \in Notifiers, Notify(n)
    PROVE  IInv'
<1>1. /\ pc[n] = "handle" /\ inHand[n] \in Positions
      /\ alerted' = alerted \cup {inHand[n]} /\ pc' = [pc EXCEPT ![n] = "ack"]
      /\ UNCHANGED <<published, ready, unacked, connected, inHand, attempt, discarded, faults>>
      /\ Positions' = Positions
  BY Facts DEF Notify, ProcessOK, TypeOK, Positions
<1>2. /\ pc'[n] = "ack" /\ \A q \in Notifiers \ {n} : pc'[q] = pc[q]
      /\ pc' \in [Notifiers -> {"down", "select", "handle", "ack"}]
  BY <1>1, Facts DEF TypeOK
<1>3. ProcessOK(n)'
  BY <1>1, <1>2, Facts DEF ProcessOK
<1>4. Notifiers = {n} => InQueueOrder(n)'
  BY <1>1, Facts DEF InQueueOrder, Finished
<1> QED
  BY <1>1, <1>2, <1>3, <1>4, Facts, RunStep DEF TypeOK

LEMMA NotifyFailsStep ==
    ASSUME IInv, NEW n \in Notifiers, NotifyFails(n)
    PROVE  IInv'
<1>1. /\ pc[n] = "handle" /\ inHand[n] # 0 /\ inHand[n] \in Positions
      /\ UNCHANGED <<published, ready, connected, alerted, faults>>
      /\ Positions' = Positions
  BY Facts DEF NotifyFails, ProcessOK, TypeOK, Positions
<1>2. CASE attempt[n] < MaxRetries
  <2>1. attempt' = [attempt EXCEPT ![n] = attempt[n] + 1]
        /\ UNCHANGED <<unacked, pc, inHand, discarded>>
    BY <1>2 DEF NotifyFails
  <2>2. attempt' \in [Notifiers -> 0 .. MaxRetries]
    <3>1. attempt[n] + 1 \in 0 .. MaxRetries
      BY <1>2, Facts, NotifierAssumption DEF TypeOK
    <3> QED
      BY <2>1, <3>1, Facts DEF TypeOK
  <2>3. ProcessOK(n)' /\ (Notifiers = {n} => InQueueOrder(n)')
    BY <1>1, <2>1, Facts DEF ProcessOK, InQueueOrder, Finished
  <2> QED
    BY <1>1, <2>1, <2>2, <2>3, Facts, RunStep DEF TypeOK
<1>3. CASE GiveUp(n)
  <2>1. /\ pc' = [pc EXCEPT ![n] = "select"] /\ inHand' = [inHand EXCEPT ![n] = 0]
        /\ attempt' \in [Notifiers -> 0 .. MaxRetries]
    BY <1>3, Facts, NotifierAssumption DEF GiveUp, BackToSelect, TypeOK
  <2>2. CASE connected[n]
    <3>1. /\ unacked[n] # <<>> /\ Head(unacked[n]) = inHand[n]
          /\ unacked' = [unacked EXCEPT ![n] = Tail(@)]
          /\ discarded' = discarded \cup {inHand[n]}
      BY <1>1, <1>3, <2>2, Facts DEF GiveUp, ProcessOK
    <3> QED
      BY <1>1, <2>1, <2>2, <3>1, TakeFirst
  <2>3. CASE ~connected[n]
    <3>1. /\ pc'[n] = "select" /\ inHand'[n] = 0 /\ UNCHANGED <<unacked, discarded>>
          /\ pc' \in [Notifiers -> {"down", "select", "handle", "ack"}]
          /\ inHand' \in [Notifiers -> Positions \cup {0}]
          /\ \A q \in Notifiers \ {n} : pc'[q] = pc[q] /\ inHand'[q] = inHand[q]
      BY <1>3, <2>1, <2>3, Facts DEF GiveUp, TypeOK
    <3>2. ProcessOK(n)' /\ (Notifiers = {n} => InQueueOrder(n)')
      BY <1>1, <2>3, <3>1, Facts DEF ProcessOK, InQueueOrder, Finished
    <3> QED
      BY <1>1, <2>1, <3>1, <3>2, Facts, RunStep DEF TypeOK
  <2> QED
    BY <2>2, <2>3
<1> QED
  BY <1>2, <1>3 DEF NotifyFails

LEMMA AckStep ==
    ASSUME IInv, NEW n \in Notifiers, Ack(n)
    PROVE  IInv'
<1>1. /\ unacked[n] # <<>> /\ Head(unacked[n]) = inHand[n] /\ inHand[n] \in alerted
  BY Facts DEF Ack, ProcessOK
<1>2. attempt' \in [Notifiers -> 0 .. MaxRetries]
  BY Facts, NotifierAssumption DEF Ack, BackToSelect, TypeOK
<1> QED
  BY <1>1, <1>2, TakeFirst DEF Ack, BackToSelect

(* What a process had not acknowledged is ready again.                      *)
LEMMA Requeued ==
    ASSUME IInv, NEW n \in Notifiers, Requeue(n),
           unacked' = [unacked EXCEPT ![n] = <<>>],
           connected' = [connected EXCEPT ![n] = FALSE],
           UNCHANGED <<published, alerted, discarded>>, faults' \in Nat,
           \/ UNCHANGED runVars
           \/ /\ pc' = [pc EXCEPT ![n] = "down"] /\ inHand' = [inHand EXCEPT ![n] = 0]
              /\ attempt' = [attempt EXCEPT ![n] = 0]
    PROVE  IInv'
<1>1. /\ ready' = ready \cup Elems(unacked[n]) /\ Positions' = Positions
      /\ Elems(unacked[n]) \subseteq Positions
  BY Facts DEF Requeue, Elems, Positions
<1>2. /\ unacked'[n] = <<>> /\ unacked' = [q \in Notifiers |-> unacked'[q]]
      /\ ~connected'[n] /\ connected' \in [Notifiers -> BOOLEAN]
      /\ \A q \in Notifiers \ {n} : unacked'[q] = unacked[q] /\ connected'[q] = connected[q]
  BY Facts DEF TypeOK
<1>3. /\ pc' \in [Notifiers -> {"down", "select", "handle", "ack"}]
      /\ inHand' \in [Notifiers -> Positions \cup {0}]
      /\ attempt' \in [Notifiers -> 0 .. MaxRetries]
      /\ \A q \in Notifiers \ {n} : pc'[q] = pc[q] /\ inHand'[q] = inHand[q]
      /\ \/ pc'[n] = pc[n] /\ inHand'[n] = inHand[n]
         \/ pc'[n] = "down" /\ inHand'[n] = 0
  <2>1. CASE UNCHANGED runVars
    BY <2>1, Facts DEF TypeOK, runVars
  <2>2. CASE /\ pc' = [pc EXCEPT ![n] = "down"] /\ inHand' = [inHand EXCEPT ![n] = 0]
             /\ attempt' = [attempt EXCEPT ![n] = 0]
    BY <2>2, Facts, NotifierAssumption DEF TypeOK
  <2> QED
    BY <2>1, <2>2
<1>4. ProcessOK(n)'
  BY <1>1, <1>2, <1>3, Facts, NotifierAssumption DEF ProcessOK
<1>5. Notifiers = {n} => InQueueOrder(n)'
  BY <1>2, <1>3, Facts DEF InQueueOrder, Finished
<1>6. ready' \subseteq Positions
  BY <1>1, Facts DEF TypeOK
<1> QED
  BY <1>1, <1>2, <1>3, <1>4, <1>5, <1>6, Facts, ProcessStep DEF TypeOK

LEMMA ExitDisconnectedStep ==
    ASSUME IInv, NEW n \in Notifiers, ExitDisconnected(n)
    PROVE  IInv'
<1>1. /\ ~connected[n] /\ pc' = [pc EXCEPT ![n] = "down"]
      /\ inHand' = [inHand EXCEPT ![n] = 0] /\ attempt' = [attempt EXCEPT ![n] = 0]
      /\ UNCHANGED <<published, ready, unacked, connected, alerted, discarded, faults>>
      /\ Positions' = Positions
  BY DEF ExitDisconnected, Positions
<1>2. /\ pc'[n] = "down" /\ inHand'[n] = 0
      /\ pc' \in [Notifiers -> {"down", "select", "handle", "ack"}]
      /\ inHand' \in [Notifiers -> Positions \cup {0}]
      /\ attempt' \in [Notifiers -> 0 .. MaxRetries]
      /\ \A q \in Notifiers \ {n} : pc'[q] = pc[q] /\ inHand'[q] = inHand[q]
  BY <1>1, Facts, NotifierAssumption DEF TypeOK
<1>3. ProcessOK(n)' /\ (Notifiers = {n} => InQueueOrder(n)')
  BY <1>1, <1>2, Facts DEF ProcessOK, InQueueOrder, Finished
<1> QED
  BY <1>1, <1>2, <1>3, Facts, RunStep DEF TypeOK

(* The processes keep the invariant.                                        *)
LEMMA ProcessesStep == IInv /\ NotifierNext => IInv'
<1> SUFFICES ASSUME IInv, NotifierNext PROVE IInv'
  OBVIOUS
<1>1. ASSUME NEW n \in Notifiers, ConnectionLost(n) \/ Exit(n)
      PROVE  IInv'
  <2>1. faults' \in Nat
    BY <1>1, Facts DEF ConnectionLost, Exit, Fault
  <2> QED
    BY <1>1, <2>1, Requeued DEF ConnectionLost, Exit
<1> QED
  BY <1>1, ConnectStep, DeliverStep, ReceiveStep, NotifyStep, NotifyFailsStep, AckStep,
     ExitDisconnectedStep DEF NotifierNext, Handle

(* A message arrives at the end of the queue.                               *)
LEMMA Arrival ==
    ASSUME IInv, NEW m \in Messages, published' = Append(published, m),
           ready' = ready \cup {Len(published) + 1}, faults' \in Nat,
           UNCHANGED <<unacked, connected, runVars, alerted, discarded>>
    PROVE  IInv'
<1>1. /\ published \in Seq(Messages) /\ published' \in Seq(Messages)
      /\ Len(published) \in Nat /\ Len(published') = Len(published) + 1
      /\ Positions = 1 .. Len(published) /\ Positions' = 1 .. (Len(published) + 1)
  BY DEF IInv, TypeOK, Positions
<1>2. Positions \subseteq Positions' /\ ready' \subseteq Positions'
  BY <1>1 DEF IInv, TypeOK
<1>3. \A n \in Notifiers : ProcessOK(n)'
  <2>1. \A n \in Notifiers : unacked'[n] \in Seq(Positions')
    BY <1>1, <1>2 DEF IInv, ProcessOK
  <2> QED
    BY <2>1 DEF IInv, ProcessOK, runVars
<1>4. TypeOK'
  BY <1>1, <1>2, <1>3 DEF IInv, TypeOK, ProcessOK, runVars
<1>5. NoMessageLost'
  BY <1>1 DEF IInv, NoMessageLost, Waiting
<1>6. ASSUME NEW n \in Notifiers, Notifiers = {n}
      PROVE  InQueueOrder(n)'
  <2>1. \A k \in DOMAIN unacked[n] : unacked[n][k] < Len(published) + 1
    BY <1>1, Facts DEF Elems
  <2> QED
    BY <1>6, <2>1, Facts DEF InQueueOrder, Finished, runVars
<1> QED
  BY <1>3, <1>4, <1>5, <1>6 DEF IInv

(* Nothing happens at the queue.                                            *)
LEMMA Quiet ==
    ASSUME IInv, faults' \in Nat,
           UNCHANGED <<published, ready, unacked, connected, runVars, alerted, discarded>>
    PROVE  IInv'
BY DEF IInv, TypeOK, Positions, runVars, ProcessOK, NoMessageLost, Waiting, InQueueOrder,
       Finished

LEMMA InvariantStep == IInv /\ [Next]_vars => IInv'
<1> SUFFICES ASSUME IInv, [Next]_vars PROVE IInv'
  OBVIOUS
<1>1. ASSUME NEW m \in Messages, Publish(m)
      PROVE  IInv'
  BY <1>1, Arrival DEF Publish, IInv
<1>2. CASE UNCHANGED vars
  BY <1>2, Quiet DEF vars, IInv
<1> QED
  BY <1>1, <1>2, ProcessesStep DEF Next

LEMMA InitInvariant == Init => IInv
<1> SUFFICES ASSUME Init PROVE IInv
  OBVIOUS
<1>1. Positions = {}
  BY DEF Init, Positions
<1> QED
  BY <1>1, NotifierAssumption
     DEF Init, IInv, TypeOK, ProcessOK, NoMessageLost, InQueueOrder, Finished

(* The inductive invariant holds in every reachable state of the queue and  *)
(* the processes that share it.                                             *)
THEOREM Invariance == Spec => []IInv
BY InitInvariant, InvariantStep, PTL DEF Spec

(* State is well formed: Run works on the first delivery it has not         *)
(* acknowledged, a process without a connection has none, and prefetchCount *)
(* bounds what it has.                                                      *)
THEOREM TypeCorrect == Spec => []TypeOK
<1>1. IInv => TypeOK
  BY DEF IInv
<1> QED
  BY <1>1, Invariance, PTL

(* A published message waits, was alerted, or was nacked with a report,     *)
(* whatever failed between its delivery and its acknowledgement (ack after  *)
(* the handler in rabbitmq/consumer.go, durable queue, manual ack).         *)
THEOREM AtLeastOnce == Spec => []NoMessageLost
<1>1. IInv => NoMessageLost
  BY DEF IInv
<1> QED
  BY <1>1, Invariance, PTL

(* One process at the queue alerts in the order of the queue, redeliveries  *)
(* included: when a position is alerted, all before it are finished.        *)
AlertedInQueueOrder ==
    \A p \in alerted : \A i \in 1 .. (p - 1) : i \in alerted \cup discarded

THEOREM OrderAlone ==
    ASSUME NEW n \in Notifiers, Notifiers = {n}
    PROVE  Spec => []AlertedInQueueOrder
<1>1. IInv => AlertedInQueueOrder
  BY DEF IInv, InQueueOrder, Finished, AlertedInQueueOrder
<1> QED
  BY <1>1, Invariance, PTL
=============================================================================
