---------------------------- MODULE EventNotifier ----------------------------
(***************************************************************************)
(* event-notifier: the processes that consume one durable RabbitMQ queue    *)
(* through internal/broker/rabbitmq/consumer.go and raise an alert for each *)
(* envelope (internal/notifier/notifier.go).                                *)
(*                                                                         *)
(* A message is known by its position in what was published to the queue.   *)
(* The broker hands a process up to Prefetch messages; those a process has  *)
(* not acknowledged when its connection ends are ready again at their old   *)
(* positions, and what its client library had buffered is dropped. Run      *)
(* works on one delivery at a time, in the order of arrival, and never      *)
(* dials again: it returns and the process exits.                           *)
(***************************************************************************)
EXTENDS Naturals, Sequences, FiniteSets

CONSTANTS Notifiers,    \* the processes that share the queue
          Messages,     \* message values, one per EventID
          Undecodable,  \* the values broker.Unmarshal rejects
          MaxRetries,   \* maxRetries
          Prefetch,     \* prefetchCount
          MaxQueue,     \* bound on what is published to the queue
          MaxFaults     \* bound on lost connections and exits

ASSUME NotifierAssumption ==
    /\ Undecodable \subseteq Messages
    /\ MaxRetries \in Nat \ {0}
    /\ Prefetch \in Nat \ {0}
    /\ MaxQueue \in Nat
    /\ MaxFaults \in Nat

VARIABLES
    published,  \* what was published to the queue, in order
    ready,      \* the positions of the messages that wait for a process
    unacked,    \* per process, the positions delivered and not acknowledged
    connected,  \* whether its connection is up
    pc,         \* "down", "select", "handle" or "ack"
    inHand,     \* the delivery Run works on, 0 if none
    attempt,    \* the attempt invokeWithRetry is at
    alerted,    \* the messages notify has been called for successfully
    discarded,  \* the messages nacked without requeue
    faults

runVars == <<pc, inHand, attempt>>
vars    == <<published, ready, unacked, connected, runVars, alerted,
             discarded, faults>>

Init ==
    /\ published = <<>>
    /\ ready = {}
    /\ unacked = [n \in Notifiers |-> <<>>]
    /\ connected = [n \in Notifiers |-> FALSE]
    /\ pc = [n \in Notifiers |-> "down"]
    /\ inHand = [n \in Notifiers |-> 0]
    /\ attempt = [n \in Notifiers |-> 0]
    /\ alerted = {}
    /\ discarded = {}
    /\ faults = 0

(* A publisher whose confirm is lost publishes again, so a value may appear *)
(* at several positions.                                                    *)
Publish(m) ==
    /\ Len(published) < MaxQueue
    /\ published' = Append(published, m)
    /\ ready' = ready \cup {Len(published) + 1}
    /\ UNCHANGED <<unacked, connected, runVars, alerted, discarded, faults>>

NextReady(i) == i \in ready /\ \A j \in ready : i <= j

(* NewConsumer dials, declares and binds the queue; Run subscribes. The     *)
(* queue is durable and bound by the first notifier that ever starts: what  *)
(* was published before that has no queue, and is no message of this module.*)
Connect(n) ==
    /\ pc[n] = "down"
    /\ pc' = [pc EXCEPT ![n] = "select"]
    /\ connected' = [connected EXCEPT ![n] = TRUE]
    /\ UNCHANGED <<published, ready, unacked, inHand, attempt, alerted,
                   discarded, faults>>

(* Variant: autoAck, the broker forgets a message once it is delivered.     *)
DeliverAutoAck(n, i) ==
    /\ connected[n]
    /\ NextReady(i)
    /\ pc[n] = "select"
    /\ ready' = ready \ {i}
    /\ inHand' = [inHand EXCEPT ![n] = i]
    /\ attempt' = [attempt EXCEPT ![n] = 1]
    /\ pc' = [pc EXCEPT ![n] = "handle"]
    /\ UNCHANGED <<published, unacked, connected, alerted, discarded, faults>>

(* Variant: no Qos call, so no prefetch limit.                              *)
DeliverUnlimited(n, i) ==
    /\ connected[n]
    /\ NextReady(i)
    /\ ready' = ready \ {i}
    /\ unacked' = [unacked EXCEPT ![n] = Append(@, i)]
    /\ UNCHANGED <<published, connected, runVars, alerted, discarded, faults>>

(* The broker pushes the next message to a process with prefetch to spare.  *)
Deliver(n, i) ==
    /\ connected[n]
    /\ NextReady(i)
    /\ Len(unacked[n]) < Prefetch
    /\ ready' = ready \ {i}
    /\ unacked' = [unacked EXCEPT ![n] = Append(@, i)]
    /\ UNCHANGED <<published, connected, runVars, alerted, discarded, faults>>

(* Variant: a poison pill is left where it is.                              *)
ReceivePoisonPill(n) ==
    /\ pc[n] = "select"
    /\ connected[n]
    /\ unacked[n] # <<>>
    /\ published[Head(unacked[n])] \notin Undecodable
    /\ pc' = [pc EXCEPT ![n] = "handle"]
    /\ inHand' = [inHand EXCEPT ![n] = Head(unacked[n])]
    /\ attempt' = [attempt EXCEPT ![n] = 1]
    /\ UNCHANGED <<published, ready, unacked, connected, alerted, discarded,
                   faults>>

(* Run receives a delivery. One it cannot decode is nacked without requeue. *)
Receive(n) ==
    /\ pc[n] = "select"
    /\ connected[n]
    /\ unacked[n] # <<>>
    /\ IF published[Head(unacked[n])] \in Undecodable
       THEN /\ unacked' = [unacked EXCEPT ![n] = Tail(@)]
            /\ discarded' = discarded \cup {Head(unacked[n])}
            /\ UNCHANGED runVars
       ELSE /\ pc' = [pc EXCEPT ![n] = "handle"]
            /\ inHand' = [inHand EXCEPT ![n] = Head(unacked[n])]
            /\ attempt' = [attempt EXCEPT ![n] = 1]
            /\ UNCHANGED <<unacked, discarded>>
    /\ UNCHANGED <<published, ready, connected, alerted, faults>>

(* The notify callback returns nil.                                         *)
Notify(n) ==
    /\ pc[n] = "handle"
    /\ alerted' = alerted \cup {inHand[n]}
    /\ pc' = [pc EXCEPT ![n] = "ack"]
    /\ UNCHANGED <<published, ready, unacked, connected, inHand, attempt,
                   discarded, faults>>

BackToSelect(n) ==
    /\ pc' = [pc EXCEPT ![n] = "select"]
    /\ inHand' = [inHand EXCEPT ![n] = 0]
    /\ attempt' = [attempt EXCEPT ![n] = 0]

(* Nack(requeue=false): without a dead-letter exchange the message is gone. *)
(* On a connection that has ended the nack is logged as failed and nothing  *)
(* else happens; the broker has requeued the delivery.                      *)
GiveUp(n) ==
    /\ BackToSelect(n)
    /\ IF connected[n]
       THEN /\ unacked' = [unacked EXCEPT ![n] = Tail(@)]
            /\ discarded' = discarded \cup {inHand[n]}
       ELSE UNCHANGED <<unacked, discarded>>

(* The handler fails: another attempt, or after maxRetries the message is   *)
(* given up.                                                                *)
NotifyFails(n) ==
    /\ pc[n] = "handle"
    /\ IF attempt[n] < MaxRetries
       THEN /\ attempt' = [attempt EXCEPT ![n] = @ + 1]
            /\ UNCHANGED <<unacked, pc, inHand, discarded>>
       ELSE GiveUp(n)
    /\ UNCHANGED <<published, ready, connected, alerted, faults>>

Ack(n) ==
    /\ pc[n] = "ack"
    /\ connected[n]
    /\ unacked' = [unacked EXCEPT ![n] = Tail(@)]
    /\ BackToSelect(n)
    /\ UNCHANGED <<published, ready, connected, alerted, discarded, faults>>

Requeue(n) == ready' = ready \cup {unacked[n][k] : k \in DOMAIN unacked[n]}

Fault ==
    /\ faults < MaxFaults
    /\ faults' = faults + 1

(* The connection ends, or RabbitMQ restarts: the queue is durable and its  *)
(* messages persistent. Run goes on with the delivery in its hand.          *)
ConnectionLost(n) ==
    /\ connected[n]
    /\ Fault
    /\ connected' = [connected EXCEPT ![n] = FALSE]
    /\ Requeue(n)
    /\ unacked' = [unacked EXCEPT ![n] = <<>>]
    /\ UNCHANGED <<published, runVars, alerted, discarded>>

(* Run finds the deliveries channel closed, or its ack fails: it returns an *)
(* error and the process exits.                                             *)
ExitDisconnected(n) ==
    /\ ~connected[n]
    /\ pc[n] \in {"select", "ack"}
    /\ pc' = [pc EXCEPT ![n] = "down"]
    /\ inHand' = [inHand EXCEPT ![n] = 0]
    /\ attempt' = [attempt EXCEPT ![n] = 0]
    /\ UNCHANGED <<published, ready, unacked, connected, alerted, discarded,
                   faults>>

(* Variant: on its way out the process nacks what it was delivered.         *)
ExitDropsBatch(n) ==
    /\ pc[n] # "down"
    /\ Fault
    /\ pc' = [pc EXCEPT ![n] = "down"]
    /\ inHand' = [inHand EXCEPT ![n] = 0]
    /\ attempt' = [attempt EXCEPT ![n] = 0]
    /\ connected' = [connected EXCEPT ![n] = FALSE]
    /\ unacked' = [unacked EXCEPT ![n] = <<>>]
    /\ UNCHANGED <<published, ready, alerted, discarded>>

(* The process dies or is told to stop: Run returns without an ack.         *)
Exit(n) ==
    /\ pc[n] # "down"
    /\ Fault
    /\ pc' = [pc EXCEPT ![n] = "down"]
    /\ inHand' = [inHand EXCEPT ![n] = 0]
    /\ attempt' = [attempt EXCEPT ![n] = 0]
    /\ connected' = [connected EXCEPT ![n] = FALSE]
    /\ Requeue(n)
    /\ unacked' = [unacked EXCEPT ![n] = <<>>]
    /\ UNCHANGED <<published, alerted, discarded>>

Handle(n) == Notify(n) \/ NotifyFails(n)

NotifierNext ==
    \E n \in Notifiers :
        \/ Connect(n)
        \/ \E i \in ready : Deliver(n, i)
        \/ Receive(n)
        \/ Handle(n)
        \/ Ack(n)
        \/ ConnectionLost(n)
        \/ ExitDisconnected(n)
        \/ Exit(n)

Next == (\E m \in Messages : Publish(m)) \/ NotifierNext

Spec == Init /\ [][Next]_vars

(* The operator restarts a process that exited; a running one takes the     *)
(* steps of its loop and the broker delivers what it can.                   *)
Fairness ==
    \A n \in Notifiers :
        /\ WF_vars(Connect(n))
        /\ WF_vars(\E i \in ready : Deliver(n, i))
        /\ WF_vars(Receive(n))
        /\ WF_vars(Handle(n))
        /\ WF_vars(Ack(n))
        /\ WF_vars(ExitDisconnected(n))

FairSpec == Spec /\ Fairness

-----------------------------------------------------------------------------
(* Where an unfinished message is: ready, or delivered and not acknowledged.*)
Waiting(i) ==
    \/ i \in ready
    \/ \E n \in Notifiers : \E k \in DOMAIN unacked[n] : unacked[n][k] = i

Positions == 1 .. Len(published)

(* Well-formed state; a process works on the first delivery it has not      *)
(* acknowledged, a disconnected one has none, and prefetch is respected.    *)
TypeOK ==
    /\ published \in Seq(Messages)
    /\ ready \subseteq Positions
    /\ connected \in [Notifiers -> BOOLEAN]
    /\ pc \in [Notifiers -> {"down", "select", "handle", "ack"}]
    /\ inHand \in [Notifiers -> Positions \cup {0}]
    /\ attempt \in [Notifiers -> 0 .. MaxRetries]
    /\ alerted \subseteq Positions
    /\ discarded \subseteq Positions
    /\ \A n \in Notifiers :
          /\ unacked[n] \in Seq(Positions)
          /\ Len(unacked[n]) <= Prefetch
          /\ ~connected[n] => unacked[n] = <<>>
          /\ connected[n] => pc[n] # "down"
          /\ pc[n] \in {"handle", "ack"} <=> inHand[n] # 0
          /\ (connected[n] /\ inHand[n] # 0) =>
                unacked[n] # <<>> /\ Head(unacked[n]) = inHand[n]

(* At-least-once: whatever connections, brokers and processes fail between  *)
(* a delivery and its acknowledgement, a published message is waiting, or   *)
(* it has been alerted or reported as discarded.                            *)
NoMessageLost ==
    \A i \in Positions : Waiting(i) \/ i \in alerted \cup discarded

(* Every published message is eventually alerted or discarded: no poison    *)
(* message, failing alert or lost connection holds up the queue for ever.   *)
EveryMessageEnds ==
    \A i \in 1 .. MaxQueue :
        i \in Positions ~> i \in alerted \cup discarded

=============================================================================
