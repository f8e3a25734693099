------------------------- MODULE NotificationPathProofs -------------------------
(***************************************************************************)
(* Proofs about the path of a notification, for any number of routers,      *)
(* messages, retries, faults and any length of the partition.               *)
(*                                                                         *)
(* The first part is about EventRouter alone: what RabbitMQ confirmed stays *)
(* in its queue and a report stays a report, so the settled indexes only    *)
(* grow; a handler call that ends has settled its message. The rest is the  *)
(* consumer group's: KafkaConsumerProofs, with the settled indexes as what  *)
(* is finished and the published messages as the effects.                   *)
(*                                                                         *)
(* The second part joins it with the queue's proofs: the router's invariant *)
(* and the queue's hold on the path as well, since each part's steps are    *)
(* the other one's stuttering up to what they share, the published messages *)
(* and the faults. Tied by the order in which messages were published, they *)
(* give the promises from the partition to the alert.                       *)
(***************************************************************************)
EXTENDS NotificationPath, KafkaConsumerProofs

Done     == {i \in 1 .. Len(log) : Settled(i)}
Sent     == {published[k] : k \in DOMAIN published}

(* The inductive invariant.                                                 *)
IInv == TypeOK /\ OwnerRuns /\ Vouched(Done) /\ InOrder(Done, Sent)

-----------------------------------------------------------------------------
(* What a step does to the queue: nothing, or the message a router handles  *)
(* is appended to it.                                                       *)
PublishStep ==
    \/ published' = published
    \/ /\ log' = log
       /\ \E c \in Members :
             /\ pc[c] = "handle" /\ Message(c) \in Routable
             /\ published' = Append(published, Message(c))

(* A step of Next, or one that touches no more than the count of faults.    *)
RouterOnly ==
    \/ Next
    \/ /\ UNCHANGED <<log, committed, owner, memberVars, position>>
       /\ UNCHANGED <<up, conn, published, gaveUp>>
       /\ faults' \in Nat

(* What every step does to the variables outside the group.                 *)
LEMMA RouterEffects ==
    ASSUME TypeOK, RouterOnly
    PROVE  /\ GroupStep /\ PublishStep
           /\ gaveUp \subseteq gaveUp'
           /\ \/ gaveUp' = gaveUp
              \/ \E c \in Members : pc[c] = "handle" /\ gaveUp' = gaveUp \cup {current[c]}
           /\ \A c \in Members : pc[c] = "handle" /\ pc'[c] = "commit" =>
                 \/ current[c] \in gaveUp'
                 \/ Message(c) \notin Routable
                 \/ published' = Append(published, Message(c))
<1> USE GroupAssumption
<1>1. GroupTypeOK /\ faults \in Nat
  BY DEF TypeOK, GroupTypeOK
<1>2. ASSUME NEW c \in Members, Handle(c)
      PROVE  /\ Succeeded(c) \/ Failed(c)
             /\ PublishStep
             /\ gaveUp' = gaveUp \/ gaveUp' = gaveUp \cup {current[c]}
             /\ pc'[c] = "commit" => \/ current[c] \in gaveUp'
                                     \/ Message(c) \notin Routable
                                     \/ published' = Append(published, Message(c))
             /\ \A d \in Members : d # c => pc'[d] = pc[d]
             /\ pc[c] = "handle"
  BY <1>1, <1>2
     DEF Handle, Forward, ConfirmFails, PublishOnClosed, Routed, GaveUp, Handling,
         LastAttempt, Succeeded, Failed, PublishStep, GroupTypeOK
<1>3. CASE \E c \in Members : Handle(c)
  BY <1>2, <1>3 DEF GroupStep
<1>4. CASE GroupNext /\ UNCHANGED <<published, gaveUp>>
  <2>1. \A c \in Members : pc[c] = "handle" => pc'[c] # "commit"
    BY <1>1, <1>4
       DEF GroupNext, Produce, Start, Join, Rebalance, Assign, Fetch, Commit, CommitFails,
           Exit, Leave, memberVars, GroupTypeOK
  <2> QED
    BY <1>4, <2>1 DEF GroupStep, PublishStep
<1>5. CASE /\ UNCHANGED <<log, committed, owner, memberVars, position, published, gaveUp>>
           /\ faults' \in Nat
  BY <1>5 DEF GroupStep, PublishStep, memberVars
<1>6. RouterOnly => \/ \E c \in Members : Handle(c)
                    \/ GroupNext /\ UNCHANGED <<published, gaveUp>>
                    \/ /\ UNCHANGED <<log, committed, owner, memberVars, position>>
                       /\ UNCHANGED <<published, gaveUp>>
                       /\ faults' \in Nat
  BY <1>1
     DEF RouterOnly, Next, RouterNext, GroupNext, StartRouter, ConnectionLost, RabbitStops,
         RabbitStarts, Fault, rabbitVars, groupVars
<1> QED
  BY <1>3, <1>4, <1>5, <1>6

(* Nothing leaves the queue here, so what is settled stays settled.         *)
LEMMA Stays ==
    ASSUME TypeOK, RouterOnly
    PROVE  /\ LogGrows
           /\ \A m : Published(m) => Published(m)'
           /\ \A i \in 1 .. Len(log) : Settled(i) => Settled(i)'
           /\ \A c \in Members, i \in 1 .. Len(log) :
                 pc[c] = "handle" /\ pc'[c] = "commit" /\ i = current[c] => Settled(i)'
<1>1. /\ LogGrows /\ PublishStep /\ gaveUp \subseteq gaveUp'
      /\ \A c \in Members : pc[c] = "handle" /\ pc'[c] = "commit" =>
            \/ current[c] \in gaveUp'
            \/ Message(c) \notin Routable
            \/ published' = Append(published, Message(c))
  BY RouterEffects, LogStep DEF TypeOK
<1>2. ASSUME NEW m, Published(m) \/ \E c \in Members : /\ m = Message(c)
                                                       /\ published' = Append(published, m)
      PROVE  Published(m)'
  <2>1. published \in Seq(Routable)
    BY DEF TypeOK
  <2>2. CASE published' = published
    BY <1>2, <2>1, <2>2 DEF Published
  <2>3. ASSUME NEW x \in Routable, published' = Append(published, x)
        PROVE  Published(m)'
    <3>1. /\ Len(published) \in Nat /\ DOMAIN published = 1 .. Len(published)
          /\ DOMAIN published' = 1 .. (Len(published) + 1)
          /\ published'[Len(published) + 1] = x
          /\ \A k \in 1 .. Len(published) : published'[k] = published[k]
      BY <2>1, <2>3
    <3>2. CASE Published(m)
      BY <3>1, <3>2 DEF Published
    <3>3. CASE published' = Append(published, m)
      <4>1. published'[Len(published) + 1] = m
        BY <2>1, <3>3
      <4> QED
        BY <3>1, <4>1 DEF Published
    <3> QED
      BY <1>2, <3>2, <3>3
  <2> QED
    BY <1>1, <2>2, <2>3 DEF PublishStep
<1>3. \A i \in 1 .. Len(log) : Settled(i) => Settled(i)'
  BY <1>1, <1>2 DEF Settled, LogGrows
<1>4. ASSUME NEW c \in Members, NEW i \in 1 .. Len(log),
             pc[c] = "handle", pc'[c] = "commit", i = current[c]
      PROVE  Settled(i)'
  <2>1. log'[i] = Message(c)
    BY <1>1, <1>4 DEF LogGrows, Message
  <2>2. CASE published' = Append(published, Message(c))
    BY <1>2, <2>1, <2>2 DEF Settled
  <2> QED
    BY <1>1, <1>4, <2>1, <2>2 DEF Settled
<1> QED
  BY <1>1, <1>2, <1>3, <1>4

-----------------------------------------------------------------------------
(* Connections end with RabbitMQ and with the process.                      *)
LEMMA ConnStep ==
    ASSUME TypeOK, RouterOnly
    PROVE  /\ up' \in BOOLEAN /\ conn' \in [Members -> BOOLEAN]
           /\ \A c \in Members : conn'[c] => up' /\ pc'[c] # "down"
<1> DEFINE Conn == /\ up \in BOOLEAN /\ conn \in [Members -> BOOLEAN]
                   /\ \A c \in Members : conn[c] => up /\ pc[c] # "down"
<1>1. GroupTypeOK /\ Conn
  BY DEF TypeOK
<1>2. ASSUME NEW c \in Members, StartRouter(c) PROVE Conn'
  BY <1>1, <1>2 DEF StartRouter, Start, GroupTypeOK
<1>3. ASSUME NEW c \in Members, Exit(c) \/ CommitFails(c), Disconnected(c), up' = up
      PROVE  Conn'
  BY <1>1, <1>3 DEF Exit, CommitFails, Leave, Disconnected, GroupTypeOK
<1>4. ASSUME NEW c \in Members, ConnectionLost(c) PROVE Conn'
  BY <1>1, <1>4 DEF ConnectionLost, Disconnected, memberVars
<1>5. CASE RabbitStops \/ RabbitStarts
  BY <1>1, <1>5 DEF RabbitStops, RabbitStarts, groupVars, memberVars
<1>6. ASSUME NEW c \in Members, UNCHANGED <<up, conn>>,
             Join(c) \/ Rebalance(c) \/ Fetch(c) \/ Commit(c) \/ Succeeded(c) \/ Failed(c)
      PROVE  Conn'
  BY <1>1, <1>6
     DEF Join, Rebalance, Assign, Fetch, Commit, Succeeded, Failed, memberVars, GroupTypeOK
<1>7. CASE UNCHANGED <<up, conn, pc>>
  BY <1>1, <1>7
<1> QED
  BY <1>2, <1>3, <1>4, <1>5, <1>6, <1>7
     DEF RouterOnly, Next, RouterNext, Produce, Handle, Forward, ConfirmFails,
         PublishOnClosed, rabbitVars, memberVars

LEMMA TypeStep == TypeOK /\ RouterOnly => TypeOK'
<1> SUFFICES ASSUME TypeOK, RouterOnly PROVE TypeOK'
  OBVIOUS
<1>1. /\ GroupTypeOK /\ GroupTypeOK' /\ LogGrows /\ PublishStep
      /\ \/ gaveUp' = gaveUp
         \/ \E c \in Members : pc[c] = "handle" /\ gaveUp' = gaveUp \cup {current[c]}
  BY RouterEffects, LogStep, GroupTypeStep DEF TypeOK
<1>2. gaveUp' \subseteq 1 .. Len(log')
  <2>1. \A c \in Members : pc[c] = "handle" => current[c] \in 1 .. Len(log)
    BY <1>1 DEF GroupTypeOK
  <2>2. gaveUp \subseteq 1 .. Len(log) /\ 1 .. Len(log) \subseteq 1 .. Len(log')
    BY <1>1 DEF TypeOK, LogGrows
  <2>3. CASE gaveUp' = gaveUp
    BY <2>2, <2>3
  <2>4. ASSUME NEW c \in Members, pc[c] = "handle", gaveUp' = gaveUp \cup {current[c]}
        PROVE  gaveUp' \subseteq 1 .. Len(log')
    BY <2>1, <2>2, <2>4
  <2> QED
    BY <1>1, <2>3, <2>4
<1>3. DOMAIN log = 1 .. Len(log) /\ DOMAIN log' = 1 .. Len(log')
  BY <1>1 DEF GroupTypeOK, LogGrows
<1>4. /\ published' \in Seq(Routable)
      /\ \A k \in DOMAIN published' : \E i \in DOMAIN log' : published'[k] = log'[i]
  <2>1. CASE published' = published
    BY <1>1, <1>3, <2>1 DEF TypeOK, LogGrows
  <2>2. ASSUME NEW c \in Members, pc[c] = "handle", Message(c) \in Routable,
               log' = log, published' = Append(published, Message(c))
        PROVE  <1>4!1 /\ <1>4!2
    <3>1. current[c] \in DOMAIN log /\ Message(c) = log[current[c]]
      BY <1>1, <1>3, <2>2 DEF GroupTypeOK, Message
    <3> DEFINE x == Message(c)
    <3> HIDE DEF x
    <3>2. /\ published' \in Seq(Routable)
          /\ DOMAIN published' = DOMAIN published \cup {Len(published) + 1}
          /\ published'[Len(published) + 1] = x
          /\ \A k \in DOMAIN published : published'[k] = published[k]
      BY <2>2 DEF TypeOK, x
    <3> QED
      BY <2>2, <3>1, <3>2 DEF TypeOK, x
  <2> QED
    BY <1>1, <2>1, <2>2 DEF PublishStep
<1> QED
  BY <1>1, <1>2, <1>4, ConnStep DEF TypeOK

-----------------------------------------------------------------------------
(* The invariant is inductive.                                              *)
LEMMA RouterStepInvariant == IInv /\ RouterOnly => IInv'
<1> SUFFICES ASSUME IInv, RouterOnly PROVE IInv'
  OBVIOUS
<1>1. /\ TypeOK /\ GroupTypeOK /\ OwnerRuns /\ TypeOK' /\ GroupStep /\ LogGrows /\ PublishStep
      /\ Vouched(Done) /\ InOrder(Done, Sent)
  BY TypeStep, RouterEffects, Stays DEF IInv, TypeOK
<1>2. OwnerRuns'
  BY <1>1, OwnerStep
<1>3. PICK T, W : T = Done' /\ W = Sent'
  OBVIOUS
<1>4. Done \subseteq T
  BY <1>1, <1>3, Stays DEF Done, LogGrows
<1>5. \A i \in 1 .. Len(log) : log[i] \in Undecodable => i \in Done
  BY RoutableAssumption DEF Done, Settled
<1>6. \A c \in Members : pc[c] = "handle" /\ pc'[c] = "commit" => current[c] \in T
  <2>1. ASSUME NEW c \in Members, pc[c] = "handle", pc'[c] = "commit"
        PROVE  current[c] \in T
    <3>1. PICK i \in 1 .. Len(log) : i = current[c]
      BY <1>1, <2>1 DEF GroupTypeOK
    <3>2. Settled(i)' /\ i \in 1 .. Len(log')
      BY <1>1, <2>1, <3>1, Stays DEF LogGrows
    <3> QED
      BY <1>3, <3>1, <3>2 DEF Done
  <2> QED
    BY <2>1
<1>7. Vouched(T)'
  BY <1>1, <1>4, <1>5, <1>6, VouchedStep
<1>8. \A v \in Sent : \E i \in 1 .. Len(log) : log[i] = v
  BY <1>1 DEF Sent, TypeOK, GroupTypeOK
<1>9. \A v \in W \ Sent : log' = log /\ \E c \in Members : pc[c] = "handle" /\ v = Message(c)
  <2>1. CASE published' = published
    BY <1>3, <2>1 DEF Sent
  <2>2. ASSUME NEW c \in Members, pc[c] = "handle", Message(c) \in Routable,
               log' = log, published' = Append(published, Message(c))
        PROVE  <1>9
    <3>1. W \subseteq Sent \cup {Message(c)}
      BY <1>3, <2>2 DEF Sent, TypeOK, IInv
    <3> QED
      BY <2>2, <3>1
  <2> QED
    BY <1>1, <2>1, <2>2 DEF PublishStep
<1>10. InOrder(T, W)'
  BY <1>1, <1>4, <1>8, <1>9, InOrderStep
<1>11. Vouched(Done)' /\ InOrder(Done, Sent)'
  BY <1>3, <1>7, <1>10 DEF Vouched, InOrder
<1> QED
  BY <1>1, <1>2, <1>11 DEF IInv

LEMMA InvariantStep == IInv /\ [Next]_vars => IInv'
<1>1. IInv /\ UNCHANGED vars => RouterOnly
  BY DEF vars, groupVars, rabbitVars, IInv, TypeOK, GroupTypeOK, RouterOnly
<1> QED
  BY <1>1, RouterStepInvariant DEF RouterOnly

LEMMA InitInvariant == Init => IInv
<1> SUFFICES ASSUME Init PROVE IInv
  OBVIOUS
<1>1. GroupTypeOK /\ OwnerRuns /\ Vouched(Done) /\ InOrder(Done, Sent)
  BY GroupStart DEF Init
<1>2. TypeOK
  BY <1>1 DEF Init, TypeOK
<1> QED
  BY <1>1, <1>2 DEF IInv

(* What the invariant says to a reader.                                     *)
LEMMA InvariantImplies == IInv => CommittedSettled /\ PublishedInOrder
<1> SUFFICES ASSUME IInv PROVE CommittedSettled /\ PublishedInOrder
  OBVIOUS
<1>1. CommittedSettled
  BY DEF IInv, Vouched, Done, CommittedSettled, SettledUpTo
<1>2. PublishedInOrder
  BY DEF IInv, InOrder, Done, Sent, PublishedInOrder, Published, SettledUpTo
<1> QED
  BY <1>1, <1>2

(* The inductive invariant holds in every reachable state of the            *)
(* event-router.                                                            *)
THEOREM Invariance == Spec => []IInv
BY InitInvariant, InvariantStep, PTL DEF Spec

(* The router's state is well formed: a connection ends with its process    *)
(* and with RabbitMQ, and the queue holds nothing that was not on the       *)
(* partition.                                                               *)
THEOREM TypeCorrect == Spec => []TypeOK
<1>1. IInv => TypeOK
  BY DEF IInv
<1> QED
  BY <1>1, Invariance, PTL

(* The commit follows the confirm: a committed event a queue is bound for   *)
(* was published to it or reported as given up (Run's commit after the      *)
(* handler of router.go, through crashes, takeovers, late commits, lost     *)
(* confirms and lost connections).                                          *)
THEOREM AtLeastOnce == Spec => []CommittedSettled
BY InvariantImplies, Invariance, PTL

(* Events leave the router in the order of the partition, also when two     *)
(* routers handle messages of it at once.                                   *)
THEOREM OrderedHandoff == Spec => []PublishedInOrder
BY InvariantImplies, Invariance, PTL

-----------------------------------------------------------------------------
(* The path: the router's part, the queue's, and what joins them.           *)
QueueProofs == INSTANCE EventNotifierProofs
                  WITH Notifiers <- {Notifier},
                       MaxQueue <- MaxRetries * MaxLog * (1 + MaxFaults),
                       pc <- notifierPc,
                       attempt <- notifierAttempt

(* When a message was published, all before its first occurrence on the     *)
(* partition was given up or had been published before it.                  *)
PublishedAfter ==
    \A k \in 1 .. Len(published), j \in 1 .. Len(log) : published[k] = log[j] =>
        \E f \in 1 .. j :
            /\ log[f] = log[j]
            /\ \A i \in 1 .. (f - 1) : log[i] \in Routable =>
                  i \in gaveUp \/ \E l \in 1 .. (k - 1) : published[l] = log[i]

(* The inductive invariant.                                                 *)
PathInv == IInv /\ QueueProofs!IInv /\ PublishedAfter

-----------------------------------------------------------------------------
(* The constants of the queue on the path are those of any queue.           *)
LEMMA QueueConstants ==
    /\ Undecodable \subseteq Messages
    /\ MaxRetries \in Nat \ {0}
    /\ Prefetch \in Nat \ {0}
    /\ MaxRetries * MaxLog * (1 + MaxFaults) \in Nat
    /\ MaxFaults \in Nat
<1>1. MaxRetries \in Nat /\ MaxLog \in Nat /\ 1 + MaxFaults \in Nat
  BY GroupAssumption
<1>2. \A a, b \in Nat : a * b \in Nat
  OBVIOUS
<1>3. MaxRetries * MaxLog * (1 + MaxFaults) \in Nat
  BY <1>1, <1>2
<1> QED
  BY <1>3, GroupAssumption, PathAssumption

(* A message of the partition follows what precedes it there.               *)
LEMMA PublishedAfterStep == IInv /\ PublishedAfter /\ RouterOnly => PublishedAfter'
<1> SUFFICES ASSUME IInv, PublishedAfter, RouterOnly PROVE PublishedAfter'
  OBVIOUS
<1>1. /\ LogGrows /\ PublishStep /\ gaveUp \subseteq gaveUp' /\ TypeOK /\ GroupTypeOK
      /\ Vouched(Done)
      /\ published \in Seq(Routable) /\ Len(published) \in Nat
      /\ \A k \in 1 .. Len(published) : \E i \in 1 .. Len(log) : published[k] = log[i]
  <2>1. TypeOK /\ Vouched(Done)
    BY DEF IInv
  <2>2. LogGrows /\ PublishStep /\ gaveUp \subseteq gaveUp'
    BY <2>1, Stays, RouterEffects
  <2>3. /\ GroupTypeOK /\ published \in Seq(Routable) /\ Len(published) \in Nat
        /\ DOMAIN log = 1 .. Len(log) /\ DOMAIN published = 1 .. Len(published)
    BY <2>1 DEF TypeOK, GroupTypeOK
  <2> QED
    BY <2>1, <2>2, <2>3 DEF TypeOK
<1>2. ASSUME NEW k \in 1 .. Len(published), NEW j \in 1 .. Len(log'),
             published[k] = log'[j]
      PROVE  \E f \in 1 .. j :
                /\ log'[f] = log'[j]
                /\ \A i \in 1 .. (f - 1) : log'[i] \in Routable =>
                      i \in gaveUp' \/ \E l \in 1 .. (k - 1) : published[l] = log'[i]
  \* an entry of the partition that was there before stands for the value
  <2>1. PICK h \in 1 .. Len(log) : h <= j /\ published[k] = log[h]
    <3>1. CASE j <= Len(log)
      BY <1>1, <1>2, <3>1 DEF LogGrows
    <3>2. CASE Len(log) < j
      BY <1>1, <1>2, <3>2 DEF LogGrows
    <3> QED
      BY <1>1, <3>1, <3>2 DEF LogGrows
  <2>2. PICK f \in 1 .. h :
           /\ log[f] = log[h]
           /\ \A i \in 1 .. (f - 1) : log[i] \in Routable =>
                 i \in gaveUp \/ \E l \in 1 .. (k - 1) : published[l] = log[i]
    BY <2>1 DEF PublishedAfter
  <2>3. /\ f \in 1 .. j /\ log'[f] = log'[j]
        /\ \A i \in 1 .. (f - 1) : log'[i] = log[i]
    BY <1>1, <1>2, <2>1, <2>2 DEF LogGrows
  <2>4. ASSUME NEW i \in 1 .. (f - 1), log'[i] \in Routable
        PROVE  i \in gaveUp' \/ \E l \in 1 .. (k - 1) : published[l] = log'[i]
    <3>1. log'[i] = log[i]
      BY <2>3, <2>4
    <3>2. i \in gaveUp \/ \E l \in 1 .. (k - 1) : published[l] = log[i]
      BY <2>2, <2>4, <3>1
    <3> QED
      BY <1>1, <3>1, <3>2
  <2> QED
    BY <2>3, <2>4
<1>3. CASE published' = published
  <2>1. /\ Len(published') = Len(published)
        /\ \A k \in 1 .. Len(published) : published'[k] = published[k]
    BY <1>3
  <2>2. ASSUME NEW k \in 1 .. Len(published'), NEW j \in 1 .. Len(log'),
               published'[k] = log'[j]
        PROVE  \E f \in 1 .. j :
                  /\ log'[f] = log'[j]
                  /\ \A i \in 1 .. (f - 1) : log'[i] \in Routable =>
                        i \in gaveUp' \/ \E l \in 1 .. (k - 1) : published'[l] = log'[i]
    BY <1>2, <1>3, <2>1, <2>2
  <2> QED
    BY <2>2 DEF PublishedAfter
<1>4. ASSUME NEW c \in Members, pc[c] = "handle", Message(c) \in Routable,
             log' = log, published' = Append(published, Message(c))
      PROVE  PublishedAfter'
  <2>1. /\ current[c] \in 1 .. Len(log) /\ Message(c) = log[current[c]]
        /\ 1 .. (current[c] - 1) \subseteq Done
    BY <1>1, <1>4 DEF GroupTypeOK, Message, Vouched
  <2> DEFINE x == Message(c)
  <2>2. /\ x \in Routable /\ x = log[current[c]] /\ published' = Append(published, x)
    BY <1>4, <2>1
  <2> HIDE DEF x
  <2>3. /\ Len(published') = Len(published) + 1 /\ published'[Len(published) + 1] = x
        /\ \A k \in 1 .. Len(published) : published'[k] = published[k]
        /\ DOMAIN published = 1 .. Len(published)
    BY <1>1, <2>2
  <2>4. ASSUME NEW j \in 1 .. Len(log), log[j] = x
        PROVE  \E f \in 1 .. j :
                  /\ log[f] = log[j]
                  /\ \A i \in 1 .. (f - 1) : log[i] \in Routable =>
                        i \in gaveUp \/ \E l \in 1 .. Len(published) : published[l] = log[i]
    <3>1. PICK f \in 1 .. j : log[f] = log[j] /\ f <= current[c]
      <4>1. CASE current[c] <= j
        <5>1. current[c] \in 1 .. j
          BY <2>1, <4>1
        <5> QED
          BY <5>1, <2>1, <2>2, <2>4
      <4>2. CASE j < current[c]
        BY <2>1, <4>2
      <4> QED
        BY <2>1, <4>1, <4>2
    <3>2. \A i \in 1 .. (f - 1) : i \in Done
      BY <2>1, <3>1
    <3> QED
      BY <3>1, <3>2, <2>3 DEF Done, Settled, Published
  <2>5. ASSUME NEW k \in 1 .. Len(published'), NEW j \in 1 .. Len(log'),
               published'[k] = log'[j]
        PROVE  \E f \in 1 .. j :
                  /\ log'[f] = log'[j]
                  /\ \A i \in 1 .. (f - 1) : log'[i] \in Routable =>
                        i \in gaveUp' \/ \E l \in 1 .. (k - 1) : published'[l] = log'[i]
    <3>1. CASE k \in 1 .. Len(published)
      <4>1. published[k] = log'[j] /\ \A l \in 1 .. (k - 1) : published'[l] = published[l]
        BY <1>1, <2>3, <2>5, <3>1
      <4>2. PICK f \in 1 .. j :
               /\ log'[f] = log'[j]
               /\ \A i \in 1 .. (f - 1) : log'[i] \in Routable =>
                     i \in gaveUp' \/ \E l \in 1 .. (k - 1) : published[l] = log'[i]
        BY <1>2, <3>1, <4>1
      <4>3. ASSUME NEW i \in 1 .. (f - 1), log'[i] \in Routable
            PROVE  i \in gaveUp' \/ \E l \in 1 .. (k - 1) : published'[l] = log'[i]
        BY <4>1, <4>2, <4>3
      <4> QED
        BY <4>2, <4>3
    <3>2. CASE k = Len(published) + 1
      <4>1. log[j] = x /\ k - 1 = Len(published) /\ j \in 1 .. Len(log)
        BY <1>1, <1>4, <2>3, <2>5, <3>2
      <4> QED
        <5>1. PICK f \in 1 .. j :
                 /\ log[f] = log[j]
                 /\ \A i \in 1 .. (f - 1) : log[i] \in Routable =>
                       i \in gaveUp \/ \E l \in 1 .. Len(published) : published[l] = log[i]
          BY <2>4, <4>1
        <5>2. ASSUME NEW i \in 1 .. (f - 1), log'[i] \in Routable
              PROVE  i \in gaveUp' \/ \E l \in 1 .. (k - 1) : published'[l] = log'[i]
          <6>1. i \in gaveUp \/ \E l \in 1 .. Len(published) : published[l] = log[i]
            BY <1>4, <5>1, <5>2
          <6> QED
            BY <1>1, <1>4, <2>3, <4>1, <6>1
        <5> QED
          BY <1>4, <5>1, <5>2
    <3> QED
      BY <1>1, <2>3, <3>1, <3>2
  <2> QED
    BY <2>5 DEF PublishedAfter
<1> QED
  BY <1>1, <1>3, <1>4 DEF PublishStep

-----------------------------------------------------------------------------
(* The steps of the path.                                                   *)

LEMMA RouterKeeps == PathInv /\ RouterStep => PathInv'
<1> SUFFICES ASSUME PathInv, RouterStep PROVE PathInv'
  OBVIOUS
<1>1. RouterOnly /\ IInv /\ PublishedAfter
  BY DEF PathInv, RouterStep, RouterOnly, Next
<1>2. IInv' /\ PublishedAfter' /\ PublishStep /\ TypeOK
  BY <1>1, RouterStepInvariant, PublishedAfterStep, RouterEffects DEF IInv
<1>3. /\ faults' \in Nat /\ published \in Seq(Routable) /\ Len(published) \in Nat
      /\ Routable \subseteq Messages
  <2>1. GroupTypeOK' /\ published \in Seq(Routable)
    BY <1>2 DEF IInv, TypeOK
  <2> QED
    BY <2>1, RoutableAssumption DEF GroupTypeOK
<1>4. QueueProofs!IInv'
  <2>1. CASE published' = published
    <3>1. ready' = ready
      BY <1>3, <2>1 DEF RouterStep, Enqueue
    <3> QED
      BY <1>3, <2>1, <3>1, QueueConstants, QueueProofs!Quiet DEF PathInv, RouterStep, QueueProofs!runVars
  <2>2. ASSUME NEW m \in Messages, published' = Append(published, m)
        PROVE  QueueProofs!IInv'
    <3>1. ready' = ready \cup {Len(published) + 1}
      <4>1. Len(published') = Len(published) + 1
        BY <1>3, <2>2
      <4>2. Len(published) + 1 .. Len(published') = {Len(published) + 1}
        BY <1>3, <4>1
      <4> QED
        BY <4>2 DEF RouterStep, Enqueue
    <3> QED
      BY <1>3, <2>2, <3>1, QueueConstants, QueueProofs!Arrival DEF PathInv, RouterStep, QueueProofs!runVars
  <2> QED
    BY <1>2, <1>3, <2>1, <2>2 DEF PublishStep
<1> QED
  BY <1>2, <1>4 DEF PathInv

LEMMA NotifierKeeps == PathInv /\ NotifierStep => PathInv'
<1> SUFFICES ASSUME PathInv, NotifierStep PROVE PathInv'
  OBVIOUS
<1>1. QueueProofs!NotifierNext
  BY DEF NotifierStep, Queue!NotifierNext, QueueProofs!NotifierNext,
         Queue!Connect, Queue!Deliver, Queue!NextReady, Queue!Receive, Queue!Handle,
         Queue!Notify, Queue!NotifyFails, Queue!GiveUp, Queue!BackToSelect, Queue!Ack,
         Queue!ConnectionLost, Queue!ExitDisconnected, Queue!Exit, Queue!Requeue,
         Queue!Fault, Queue!runVars,
         QueueProofs!Connect, QueueProofs!Deliver, QueueProofs!NextReady,
         QueueProofs!Receive, QueueProofs!Handle, QueueProofs!Notify,
         QueueProofs!NotifyFails, QueueProofs!GiveUp, QueueProofs!BackToSelect,
         QueueProofs!Ack, QueueProofs!ConnectionLost, QueueProofs!ExitDisconnected,
         QueueProofs!Exit, QueueProofs!Requeue, QueueProofs!Fault, QueueProofs!runVars
<1>2. QueueProofs!IInv'
  BY <1>1, QueueConstants, QueueProofs!ProcessesStep DEF PathInv
<1>3. published' = published /\ faults' \in Nat
  <2>1. faults' \in Nat
    BY <1>2 DEF QueueProofs!IInv
  <2>2. published' = published
    BY DEF NotifierStep, Queue!NotifierNext, Queue!Connect, Queue!Deliver, Queue!Receive,
           Queue!Handle, Queue!Notify, Queue!NotifyFails, Queue!Ack, Queue!ConnectionLost,
           Queue!ExitDisconnected, Queue!Exit
  <2> QED
    BY <2>1, <2>2
<1>4. RouterOnly
  BY <1>3 DEF NotifierStep, RouterOnly
<1> QED
  BY <1>2, <1>4, RouterStepInvariant, PublishedAfterStep DEF PathInv

LEMMA BrokerKeeps == PathInv /\ (BrokerStops \/ BrokerStarts) => PathInv'
<1> SUFFICES ASSUME PathInv, BrokerStops \/ BrokerStarts PROVE PathInv'
  OBVIOUS
<1>1. RouterOnly
  BY DEF BrokerStops, BrokerStarts, RouterOnly, Next
<1>2. IInv' /\ PublishedAfter'
  BY <1>1, RouterStepInvariant, PublishedAfterStep DEF PathInv
<1>3. faults' \in Nat
  BY <1>2 DEF IInv, TypeOK, GroupTypeOK
<1>4. CASE BrokerStops
  <2>1. QueueProofs!Requeue(Notifier)
    BY <1>4 DEF BrokerStops, Queue!Requeue, QueueProofs!Requeue
  <2>2. QueueProofs!IInv'
    BY <1>3, <1>4, <2>1, QueueConstants, QueueProofs!Requeued
       DEF PathInv, BrokerStops, RabbitStops, QueueProofs!runVars
  <2> QED
    BY <1>2, <2>2 DEF PathInv
<1>5. CASE BrokerStarts
  <2>1. QueueProofs!IInv'
    BY <1>3, <1>5, QueueConstants, QueueProofs!Quiet
       DEF PathInv, BrokerStarts, RabbitStarts, notifierVars, QueueProofs!runVars
  <2> QED
    BY <1>2, <2>1 DEF PathInv
<1> QED
  BY <1>4, <1>5

LEMMA StutterKeeps == PathInv /\ UNCHANGED pathVars => PathInv'
<1> SUFFICES ASSUME PathInv, UNCHANGED pathVars PROVE PathInv'
  OBVIOUS
<1>1. faults' \in Nat /\ UNCHANGED vars
  BY DEF pathVars, vars, groupVars, PathInv, IInv, TypeOK, GroupTypeOK
<1>2. RouterOnly
  BY <1>1 DEF RouterOnly, vars, groupVars, rabbitVars
<1>3. QueueProofs!IInv'
  BY <1>1, QueueConstants, QueueProofs!Quiet
     DEF PathInv, pathVars, notifierVars, vars, rabbitVars, QueueProofs!runVars
<1> QED
  BY <1>2, <1>3, RouterStepInvariant, PublishedAfterStep DEF PathInv

LEMMA PathStarts == PathInit => PathInv
<1> SUFFICES ASSUME PathInit PROVE PathInv
  OBVIOUS
<1>1. IInv
  BY InitInvariant DEF PathInit
<1>2. QueueProofs!Init
  BY DEF PathInit, Init, Queue!Init, QueueProofs!Init
<1>3. QueueProofs!IInv
  BY <1>2, QueueConstants, QueueProofs!InitInvariant
<1>4. PublishedAfter
  BY DEF PathInit, Init, PublishedAfter
<1> QED
  BY <1>1, <1>3, <1>4 DEF PathInv

(* The invariant holds along the whole path.                                *)
THEOREM PathInvariance == PathSpec => []PathInv
<1>1. PathInv /\ [PathNext]_pathVars => PathInv'
  BY RouterKeeps, NotifierKeeps, BrokerKeeps, StutterKeeps DEF PathNext
<1> QED
  BY <1>1, PathStarts, PTL DEF PathSpec

-----------------------------------------------------------------------------
(* On the path, too, a committed event a queue is bound for was published   *)
(* or given up with a report, and events are published in the order of the  *)
(* partition.                                                               *)
THEOREM HandoffOnPath == PathSpec => [](CommittedSettled /\ PublishedInOrder)
<1>1. PathInv => CommittedSettled /\ PublishedInOrder
  BY InvariantImplies DEF PathInv
<1> QED
  BY <1>1, PathInvariance, PTL

(* A committed event that a queue is bound for was alerted, discarded or    *)
(* given up with a report, or waits in RabbitMQ (the commit of router.go    *)
(* follows the confirm, the ack of rabbitmq/consumer.go the alert).         *)
THEOREM PathEndToEnd == PathSpec => []EndToEnd
<1>1. PathInv => EndToEnd
  <2> SUFFICES ASSUME PathInv, NEW i \in 1 .. committed, log[i] \in Routable
               PROVE  Ended(i) \/ OnItsWay(i)
    BY DEF EndToEnd
  <2>1. Published(log[i]) \/ i \in gaveUp
    BY DEF PathInv, IInv, Vouched, Done, Settled
  <2>2. CASE i \in gaveUp
    BY <2>2 DEF Ended
  <2>3. CASE Published(log[i])
    <3>1. PICK k \in DOMAIN published : published[k] = log[i]
      BY <2>3 DEF Published
    <3>2. k \in 1 .. Len(published)
      BY <3>1 DEF PathInv, IInv, TypeOK
    <3>3. Queue!Waiting(k) \/ k \in alerted \cup discarded
      BY <3>2
         DEF PathInv, QueueProofs!IInv, QueueProofs!NoMessageLost, QueueProofs!Positions,
             QueueProofs!Waiting, Queue!Waiting
    <3> QED
      BY <3>1, <3>3 DEF Ended, OnItsWay
  <2> QED
    BY <2>1, <2>2, <2>3
<1> QED
  BY <1>1, PathInvariance, PTL

(* Alerts are raised in the order of the partition, through everything that *)
(* is published twice or redelivered: an event is passed over only if it    *)
(* was given up or discarded.                                               *)
THEOREM PathOrder == PathSpec => []AlertedInLogOrder
<1>1. PathInv => AlertedInLogOrder
  <2> SUFFICES ASSUME PathInv, NEW j \in 1 .. Len(log), NEW k \in alerted,
                      published[k] = log[j]
               PROVE  \E f \in 1 .. j :
                         /\ log[f] = log[j]
                         /\ \A i \in 1 .. f - 1 : log[i] \in Routable => Ended(i)
    BY DEF AlertedInLogOrder
  <2>1. /\ k \in 1 .. Len(published) /\ DOMAIN published = 1 .. Len(published)
        /\ Len(published) \in Nat
        /\ \A l \in 1 .. (k - 1) : l \in alerted \cup discarded
    <3>1. k \in 1 .. Len(published)
      BY DEF PathInv, QueueProofs!IInv, QueueProofs!TypeOK, QueueProofs!Positions
    <3>2. published \in Seq(Routable)
      BY DEF PathInv, IInv, TypeOK
    <3>3. QueueProofs!InQueueOrder(Notifier)
      BY DEF PathInv, QueueProofs!IInv
    <3> QED
      BY <3>1, <3>2, <3>3 DEF QueueProofs!InQueueOrder, QueueProofs!Finished
  <2>2. PICK f \in 1 .. j :
           /\ log[f] = log[j]
           /\ \A i \in 1 .. (f - 1) : log[i] \in Routable =>
                 i \in gaveUp \/ \E l \in 1 .. (k - 1) : published[l] = log[i]
    BY <2>1 DEF PathInv, PublishedAfter
  <2>3. \A l \in 1 .. (k - 1) : l \in DOMAIN published
    BY <2>1
  <2> QED
    BY <2>1, <2>2, <2>3 DEF Ended
<1> QED
  BY <1>1, PathInvariance, PTL
=============================================================================
