--------------------------- MODULE NotificationPath ---------------------------
(***************************************************************************)
(* The path of a notification from the Kafka partition to the alert:        *)
(* event-router and event-notifier joined by the RabbitMQ queue, which both *)
(* lose their connections to when RabbitMQ stops.                           *)
(*                                                                         *)
(* The queue is bound from the start, as it is once the first notifier has  *)
(* run: NewConsumer declares and binds it, and it is durable. An event the  *)
(* router publishes before has no queue to go to; RabbitMQ returns and      *)
(* confirms it, as one that is not Routable, and no notifier sees it.       *)
(***************************************************************************)
EXTENDS EventRouter, FiniteSets

CONSTANTS Notifier,   \* the one process that reads the queue
          Prefetch

ASSUME PathAssumption == Prefetch \in Nat \ {0}

VARIABLES ready, unacked, connected, notifierPc, inHand, notifierAttempt,
          alerted, discarded

notifierVars == <<ready, unacked, connected, notifierPc, inHand,
                  notifierAttempt, alerted, discarded>>
pathVars == <<vars, notifierVars>>

Queue == INSTANCE EventNotifier
            WITH Notifiers <- {Notifier},
                 MaxQueue <- MaxRetries * MaxLog * (1 + MaxFaults),
                 pc <- notifierPc,
                 attempt <- notifierAttempt

PathInit == Init /\ Queue!Init

(* What the router's step published is ready for the notifier.              *)
Enqueue ==
    ready' = ready \cup (Len(published) + 1 .. Len(published'))

RouterStep ==
    /\ RouterNext
    /\ Enqueue
    /\ UNCHANGED <<unacked, connected, notifierPc, inHand, notifierAttempt,
                   alerted, discarded>>

(* A notifier can only connect while RabbitMQ is running.                   *)
NotifierStep ==
    /\ notifierPc[Notifier] = "down" => up
    /\ Queue!NotifierNext
    /\ UNCHANGED <<log, committed, owner, memberVars, position, up, conn, gaveUp>>

(* Variant: a queue that is not durable.                                    *)
BrokerStopsTransient ==
    /\ RabbitStops
    /\ connected' = [connected EXCEPT ![Notifier] = FALSE]
    /\ ready' = {}
    /\ unacked' = [unacked EXCEPT ![Notifier] = <<>>]
    /\ UNCHANGED <<notifierPc, inHand, notifierAttempt, alerted, discarded>>

(* RabbitMQ stops: the notifier loses its connection together with every    *)
(* router, and what it had not acknowledged is ready again.                 *)
BrokerStops ==
    /\ RabbitStops
    /\ connected' = [connected EXCEPT ![Notifier] = FALSE]
    /\ Queue!Requeue(Notifier)
    /\ unacked' = [unacked EXCEPT ![Notifier] = <<>>]
    /\ UNCHANGED <<notifierPc, inHand, notifierAttempt, alerted, discarded>>

BrokerStarts == RabbitStarts /\ UNCHANGED notifierVars

PathNext == RouterStep \/ NotifierStep \/ BrokerStops \/ BrokerStarts

PathSpec == PathInit /\ [][PathNext]_pathVars

-----------------------------------------------------------------------------
(* The outcome of the event at an index of the log.                         *)
Ended(i) ==
    \/ i \in gaveUp
    \/ \E k \in DOMAIN published :
          published[k] = log[i] /\ k \in alerted \cup discarded

OnItsWay(i) ==
    \E k \in DOMAIN published : published[k] = log[i] /\ Queue!Waiting(k)

(* End to end: an event some queue is bound for and the router has          *)
(* committed has been alerted, discarded or given up with a report, or it   *)
(* waits in RabbitMQ, whatever processes, connections and RabbitMQ itself   *)
(* went down on the way, given a queue that some notifier has once bound.   *)
EndToEnd ==
    \A i \in 1 .. committed :
        log[i] \in Routable => Ended(i) \/ OnItsWay(i)

(* Alerts are raised in the order of the partition: an event is passed over *)
(* only if it was discarded or given up, whatever is republished by the     *)
(* router after a lost confirm or redelivered by RabbitMQ after a lost      *)
(* connection (one message in flight per router, prefetched deliveries      *)
(* handled one by one).                                                     *)
AlertedInLogOrder ==
    \A j \in 1 .. Len(log) :
        (\E k \in alerted : published[k] = log[j]) =>
            \E f \in 1 .. j :
                /\ log[f] = log[j]
                /\ \A i \in 1 .. f - 1 : log[i] \in Routable => Ended(i)
=============================================================================
