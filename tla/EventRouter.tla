----------------------------- MODULE EventRouter -----------------------------
(***************************************************************************)
(* event-router: the consumer group whose handler republishes each event    *)
(* to RabbitMQ (internal/router/router.go), over a publisher with confirms  *)
(* and one connection that is dialed when the process starts                *)
(* (internal/broker/rabbitmq/publisher.go).                                 *)
(***************************************************************************)
EXTENDS KafkaConsumer

CONSTANT Routable  \* the values whose routing key some queue is bound to

ASSUME RoutableAssumption == Routable \subseteq Messages \ Undecodable

VARIABLES
    up,         \* whether RabbitMQ is running
    conn,       \* whether a router's connection to it is alive
    published,  \* what RabbitMQ has put in the bound queue, in order
    gaveUp      \* the indexes of log reported as "handler exhausted retries"

rabbitVars == <<up, conn, published, gaveUp>>
vars       == <<groupVars, rabbitVars>>

Init ==
    /\ GroupInit
    /\ up = TRUE
    /\ conn = [c \in Members |-> FALSE]
    /\ published = <<>>
    /\ gaveUp = {}

(* main dials RabbitMQ before it joins the group and exits if that fails.   *)
StartRouter(c) ==
    /\ up
    /\ Start(c)
    /\ conn' = [conn EXCEPT ![c] = TRUE]
    /\ UNCHANGED <<up, published, gaveUp>>

(* The exchange routes a message to the queue, or returns it: the broker    *)
(* confirms it in both cases.                                               *)
Routed(m) ==
    published' = IF m \in Routable THEN Append(published, m) ELSE published

(* The broker's confirm arrives.                                            *)
Forward(c) ==
    /\ Handling(c)
    /\ conn[c]
    /\ Routed(Message(c))
    /\ Succeeded(c)
    /\ UNCHANGED <<up, conn, gaveUp>>

GaveUp(c) ==
    gaveUp' = IF LastAttempt(c) THEN gaveUp \cup {current[c]} ELSE gaveUp

(* No confirm within publishTimeout, or a negative one: Publish returns an  *)
(* error whether or not the message was routed.                             *)
ConfirmFails(c) ==
    /\ Handling(c)
    /\ conn[c]
    /\ Routed(Message(c)) \/ UNCHANGED published
    /\ Failed(c)
    /\ GaveUp(c)
    /\ UNCHANGED <<up, conn>>

(* Variant: Publish ignores the error of a closed channel.                  *)
PublishIgnoresClosed(c) ==
    /\ Handling(c)
    /\ ~conn[c]
    /\ Succeeded(c)
    /\ UNCHANGED rabbitVars

(* On a closed channel Publish fails at once; nobody dials again.           *)
PublishOnClosed(c) ==
    /\ Handling(c)
    /\ ~conn[c]
    /\ Failed(c)
    /\ GaveUp(c)
    /\ UNCHANGED <<up, conn, published>>

Handle(c) == Forward(c) \/ ConfirmFails(c) \/ PublishOnClosed(c)

(* A process that exits closes its connection.                              *)
Disconnected(c) == conn' = [conn EXCEPT ![c] = FALSE]

(* One connection is lost, the process does not notice.                     *)
ConnectionLost(c) ==
    /\ conn[c]
    /\ Fault
    /\ Disconnected(c)
    /\ UNCHANGED <<log, committed, owner, memberVars, position>>
    /\ UNCHANGED <<up, published, gaveUp>>

(* RabbitMQ stops: every connection ends. The exchange and the queue are    *)
(* durable and the messages persistent, so the queue survives.              *)
RabbitStops ==
    /\ up
    /\ Fault
    /\ up' = FALSE
    /\ conn' = [c \in Members |-> FALSE]
    /\ UNCHANGED <<log, committed, owner, memberVars, position>>
    /\ UNCHANGED <<published, gaveUp>>

RabbitStarts ==
    /\ ~up
    /\ up' = TRUE
    /\ UNCHANGED <<groupVars, conn, published, gaveUp>>

RouterNext ==
    \/ \E m \in Messages : Produce(m) /\ UNCHANGED rabbitVars
    \/ \E c \in Members :
          \/ StartRouter(c)
          \/ Join(c) /\ UNCHANGED rabbitVars
          \/ Rebalance(c) /\ UNCHANGED rabbitVars
          \/ Fetch(c) /\ UNCHANGED rabbitVars
          \/ Handle(c)
          \/ Commit(c) /\ UNCHANGED rabbitVars
          \/ CommitFails(c) /\ Disconnected(c) /\ UNCHANGED <<up, published, gaveUp>>
          \/ Exit(c) /\ Disconnected(c) /\ UNCHANGED <<up, published, gaveUp>>
          \/ ConnectionLost(c)

Next == RouterNext \/ RabbitStops \/ RabbitStarts

Spec == Init /\ [][Next]_vars

-----------------------------------------------------------------------------
(* The group's state is well formed, connections end with RabbitMQ and with *)
(* their process, and only messages of the partition are published.         *)
TypeOK ==
    /\ GroupTypeOK
    /\ up \in BOOLEAN
    /\ conn \in [Members -> BOOLEAN]
    /\ \A c \in Members : conn[c] => up /\ pc[c] # "down"
    /\ published \in Seq(Routable)
    /\ \A k \in DOMAIN published : \E i \in DOMAIN log : published[k] = log[i]
    /\ gaveUp \subseteq 1 .. Len(log)

Published(m) == \E k \in DOMAIN published : published[k] = m

Settled(i) ==
    \/ Published(log[i])
    \/ log[i] \notin Routable
    \/ i \in gaveUp

SettledUpTo(n) == \A i \in 1 .. n : Settled(i)

(* At-least-once handoff: a committed event that a queue is bound for has   *)
(* been published to it or reported as given up, whatever crashes,          *)
(* rebalances, lost confirms and lost connections came in between.          *)
CommittedSettled == SettledUpTo(committed)

(* Notifications leave the router in the order of the partition: when an    *)
(* event is published, everything before its first occurrence is settled.   *)
PublishedInOrder ==
    \A j \in 1 .. Len(log) : Published(log[j]) =>
        \E k \in 1 .. j : log[k] = log[j] /\ SettledUpTo(k - 1)

(* "RabbitMQ down -> router backs off but Kafka keeps accumulating events;  *)
(* ... when RabbitMQ recovers the router catches up from its committed      *)
(* offset" (internal/router/router.go): while RabbitMQ is down no event is  *)
(* given up.                                                                *)
OutageDropsNothing == [][~up => gaveUp' = gaveUp]_vars

=============================================================================
