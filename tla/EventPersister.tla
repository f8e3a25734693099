---------------------------- MODULE EventPersister ----------------------------
(***************************************************************************)
(* event-persister: the consumer group whose handler stores each event in   *)
(* wallet_events (internal/persister/persister.go,                          *)
(* internal/repository/postgres/event_repository.go). A message value       *)
(* stands for its EventID, the table's primary key.                         *)
(***************************************************************************)
EXTENDS KafkaConsumer

CONSTANT Invalid   \* the decodable values validateForPersist rejects

ASSUME InvalidAssumption == Invalid \subseteq Messages

VARIABLES
    rows,    \* the events that have a row in wallet_events
    gaveUp   \* the indexes of log reported as "handler exhausted retries"

vars == <<groupVars, rows, gaveUp>>

Init ==
    /\ GroupInit
    /\ rows = {}
    /\ gaveUp = {}

(* INSERT ... ON CONFLICT (id) DO NOTHING: a redelivered event finds its    *)
(* row and succeeds.                                                        *)
InsertEvent(c) == rows' = rows \cup {Message(c)}

(* The handler fails; at the last attempt the consumer gives the event up.  *)
HandlerFails(c) ==
    /\ Failed(c)
    /\ gaveUp' = IF LastAttempt(c) THEN gaveUp \cup {current[c]} ELSE gaveUp

(* validateForPersist rejects the envelope: it is dropped and acknowledged. *)
DropInvalid(c) ==
    /\ Handling(c)
    /\ Message(c) \in Invalid
    /\ Succeeded(c)
    /\ UNCHANGED <<rows, gaveUp>>

Persist(c) ==
    /\ Handling(c)
    /\ Message(c) \notin Invalid
    /\ InsertEvent(c)
    /\ Succeeded(c)
    /\ UNCHANGED gaveUp

(* Create reports an error, though the row may have been committed.         *)
PersistFails(c) ==
    /\ Handling(c)
    /\ Message(c) \notin Invalid
    /\ InsertEvent(c) \/ UNCHANGED rows
    /\ HandlerFails(c)

Handle(c) == DropInvalid(c) \/ Persist(c) \/ PersistFails(c)

TableUnchanged == UNCHANGED <<rows, gaveUp>>

Next ==
    \/ GroupNext /\ TableUnchanged
    \/ \E c \in Members : Handle(c)

Spec == Init /\ [][Next]_vars

(* Processes are restarted by the operator and the group assigns a          *)
(* partition nobody owns; a running process takes the steps of its loop.    *)
(* Faults are bounded, as is what the producer sends.                       *)
Fairness ==
    /\ WF_vars(\E c \in Members : Join(c) /\ TableUnchanged)
    /\ \A c \in Members :
          /\ WF_vars(Start(c) /\ TableUnchanged)
          /\ WF_vars(Fetch(c) /\ TableUnchanged)
          /\ WF_vars(Handle(c))
          /\ WF_vars(Commit(c) /\ TableUnchanged)

FairSpec == Spec /\ Fairness

-----------------------------------------------------------------------------
(* The group's state is well formed, rows hold messages that were produced, *)
(* and only existing messages are given up.                                 *)
TypeOK ==
    /\ GroupTypeOK
    /\ rows \subseteq {log[i] : i \in 1 .. Len(log)}
    /\ gaveUp \subseteq 1 .. Len(log)

(* Nothing more is owed to a message: it is stored, or it was dropped for a *)
(* reason the log reports.                                                  *)
Settled(i) ==
    \/ log[i] \in rows
    \/ log[i] \in Undecodable \cup Invalid
    \/ i \in gaveUp

SettledUpTo(n) == \A i \in 1 .. n : Settled(i)

(* At-least-once: whatever crashes, rebalances, failed commits and commits  *)
(* of processes that lost the partition do to the committed position, no    *)
(* message before it is still to be handled (Run commits after the handler).*)
CommittedSettled == SettledUpTo(committed)

(* Events reach the table in the order of the partition: when an event has  *)
(* a row, everything before its first occurrence is settled. This is the    *)
(* per-wallet ordering the partition key is chosen for, across takeovers.   *)
StoredInOrder ==
    \A j \in 1 .. Len(log) : log[j] \in rows =>
        \E k \in 1 .. j : log[k] = log[j] /\ SettledUpTo(k - 1)

(* The inductive invariant: what a process has fetched past, less the       *)
(* message it still works on, is settled too. current is the last message   *)
(* it fetched, position where its latest assignment reads.                  *)
ReadSettled ==
    \A c \in Members :
        /\ pc[c] = "handle" => SettledUpTo(current[c] - 1)
        /\ pc[c] = "commit" => SettledUpTo(current[c])
        /\ (owner = c /\ pc[c] = "fetch") => SettledUpTo(position[c])
        /\ (owner = c /\ pc[c] \in {"handle", "commit"}) =>
              position[c] <= current[c] \/ SettledUpTo(position[c])

IInv == TypeOK /\ OwnerRuns /\ CommittedSettled /\ StoredInOrder /\ ReadSettled

(* Every message that reaches the partition is eventually settled: none     *)
(* that is undecodable, invalid or failing blocks those after it (bounded   *)
(* retries, poison pills skipped), and a takeover loses none. The committed *)
(* position need not stay behind them: a late commit of the previous owner  *)
(* can rewind it and nothing moves it again before the next message.        *)
EverythingSettled ==
    \A i \in 1 .. MaxLog : i <= Len(log) ~> i <= Len(log) /\ Settled(i)

=============================================================================
