---------------------------- MODULE KafkaConsumer ----------------------------
(***************************************************************************)
(* The consumer of internal/broker/kafka/consumer.go: the processes of one  *)
(* consumer group reading one partition of wallet.events.v1. All events of  *)
(* a wallet are on one partition, so the order within it is the order that  *)
(* matters; partitions do not influence each other.                         *)
(*                                                                         *)
(* The module has the loop of Consumer.Run, its retries and its commits,    *)
(* and, as far as Run depends on them, the group: who the partition is      *)
(* assigned to and from where a newly assigned process reads. What the      *)
(* handler does is left to the modules that extend this one: they conjoin   *)
(* Succeeded or Failed with the effects of one handler call.                *)
(*                                                                         *)
(* Positions count the messages that precede: committed = 2 means the next  *)
(* message to read after a restart is log[3].                               *)
(***************************************************************************)
EXTENDS Naturals, Sequences

CONSTANTS Members,      \* the processes of the group
          Messages,     \* message values; equal values have equal event ids
          Undecodable,  \* the values broker.Unmarshal rejects
          Replay,       \* Consumer.replay: NewReplayConsumer built it
          NULL,
          MaxRetries,   \* maxRetries
          MaxLog,       \* bound on the length of the partition
          MaxFaults     \* bound on crashes, failed commits and rebalances

ASSUME GroupAssumption ==
    /\ Undecodable \subseteq Messages
    /\ Replay \in BOOLEAN
    /\ NULL \notin Members
    /\ MaxRetries \in Nat \ {0}
    /\ MaxLog \in Nat
    /\ MaxFaults \in Nat

VARIABLES
    log,        \* the partition
    committed,  \* the group's committed position
    owner,      \* the process the partition is assigned to
    pc,         \* where a process is in Run's loop; "down" if not running
    position,   \* how far its reader has fetched
    current,    \* the message it works on, as an index of log
    attempt,    \* the attempt invokeWithRetry is at
    faults      \* faults so far

memberVars == <<pc, current, attempt>>
groupVars  == <<log, committed, owner, memberVars, position, faults>>

Loop == {"down", "fetch", "handle", "commit"}

GroupInit ==
    /\ log = <<>>
    /\ committed = 0
    /\ owner = NULL
    /\ pc = [c \in Members |-> "down"]
    /\ position = [c \in Members |-> 0]
    /\ current = [c \in Members |-> 0]
    /\ attempt = [c \in Members |-> 0]
    /\ faults = 0

(* A message arrives on the partition. The watcher publishes the same event *)
(* more than once, so a value may appear several times.                     *)
Produce(m) ==
    /\ Len(log) < MaxLog
    /\ log' = Append(log, m)
    /\ UNCHANGED <<committed, owner, memberVars, position, faults>>

Fault ==
    /\ faults < MaxFaults
    /\ faults' = faults + 1

(* The process starts and joins the group.                                  *)
Start(c) ==
    /\ pc[c] = "down"
    /\ pc' = [pc EXCEPT ![c] = "fetch"]
    /\ UNCHANGED <<log, committed, owner, position, current, attempt, faults>>

(* Variant: LastOffset instead of FirstOffset for a group without commits.  *)
AssignLatest(c) ==
    /\ pc[c] # "down"
    /\ owner' = c
    /\ position' = [position EXCEPT ![c] =
                       IF committed = 0 THEN Len(log) ELSE committed]
    /\ UNCHANGED <<log, committed, memberVars>>

(* A generation of the group assigns the partition to c, which resumes at   *)
(* the committed position (StartOffset = FirstOffset: at 0 before the first *)
(* commit). A message c or another process is handling goes on unhindered,  *)
(* what a reader had fetched ahead is discarded.                            *)
Assign(c) ==
    /\ pc[c] # "down"
    /\ owner' = c
    /\ position' = [position EXCEPT ![c] = committed]
    /\ UNCHANGED <<log, committed, memberVars>>

Join(c)      == owner = NULL /\ Assign(c) /\ UNCHANGED faults
Rebalance(c) == owner # NULL /\ Assign(c) /\ Fault

(* Variant: the reader commits on its own when it hands a message out.      *)
FetchAutoCommit(c) ==
    /\ pc[c] = "fetch"
    /\ owner = c
    /\ position[c] < Len(log)
    /\ position' = [position EXCEPT ![c] = @ + 1]
    /\ committed' = position[c] + 1
    /\ current' = [current EXCEPT ![c] = position[c] + 1]
    /\ attempt' = [attempt EXCEPT ![c] = 1]
    /\ pc' = [pc EXCEPT ![c] =
                 IF log[position[c] + 1] \in Undecodable THEN "commit" ELSE "handle"]
    /\ UNCHANGED <<log, owner, faults>>

(* Variant: an undecodable message is not committed and the reader is sent  *)
(* back to it.                                                              *)
FetchPoisonPill(c) ==
    /\ pc[c] = "fetch"
    /\ owner = c
    /\ position[c] < Len(log)
    /\ log[position[c] + 1] \notin Undecodable
    /\ position' = [position EXCEPT ![c] = @ + 1]
    /\ current' = [current EXCEPT ![c] = position[c] + 1]
    /\ attempt' = [attempt EXCEPT ![c] = 1]
    /\ pc' = [pc EXCEPT ![c] = "handle"]
    /\ UNCHANGED <<log, committed, owner, faults>>

(* FetchMessage returns the next message. An undecodable one is skipped: it *)
(* goes to the commit directly.                                             *)
Fetch(c) ==
    /\ pc[c] = "fetch"
    /\ owner = c
    /\ position[c] < Len(log)
    /\ position' = [position EXCEPT ![c] = @ + 1]
    /\ current' = [current EXCEPT ![c] = position[c] + 1]
    /\ attempt' = [attempt EXCEPT ![c] = 1]
    /\ pc' = [pc EXCEPT ![c] =
                 IF log[position[c] + 1] \in Undecodable THEN "commit" ELSE "handle"]
    /\ UNCHANGED <<log, committed, owner, faults>>

Handling(c) == pc[c] = "handle"
Message(c)  == log[current[c]]

LastAttempt(c) == attempt[c] = MaxRetries

(* The handler returned nil.                                                *)
Succeeded(c) ==
    /\ Handling(c)
    /\ pc' = [pc EXCEPT ![c] = "commit"]
    /\ UNCHANGED <<log, committed, owner, position, current, attempt, faults>>

(* The handler returned an error: it is called again, up to maxRetries      *)
(* times; then the message is given up and committed like any other.        *)
Failed(c) ==
    /\ Handling(c)
    /\ IF LastAttempt(c)
       THEN pc' = [pc EXCEPT ![c] = "commit"] /\ UNCHANGED attempt
       ELSE attempt' = [attempt EXCEPT ![c] = @ + 1] /\ UNCHANGED pc
    /\ UNCHANGED <<log, committed, owner, position, current, faults>>

(* commitOrSkip. The reader sends the commit in whatever generation it is a *)
(* member of, also when the partition has been reassigned since the fetch,  *)
(* so the committed position can move backwards. A replay consumer commits  *)
(* nothing.                                                                 *)
Commit(c) ==
    /\ pc[c] = "commit"
    /\ committed' = IF Replay THEN committed ELSE current[c]
    /\ pc' = [pc EXCEPT ![c] = "fetch"]
    /\ UNCHANGED <<log, owner, position, current, attempt, faults>>

Leave(c) ==
    /\ pc' = [pc EXCEPT ![c] = "down"]
    /\ owner' = IF owner = c THEN NULL ELSE owner

(* The commit reports an error, applied or not: Run returns it and the      *)
(* process exits.                                                           *)
CommitFails(c) ==
    /\ pc[c] = "commit"
    /\ ~Replay
    /\ committed' \in {committed, current[c]}
    /\ Leave(c)
    /\ Fault
    /\ UNCHANGED <<log, position, current, attempt>>

(* The process dies, is told to stop, or FetchMessage fails: Run returns at *)
(* once, without committing the message in hand.                            *)
Exit(c) ==
    /\ pc[c] # "down"
    /\ Leave(c)
    /\ Fault
    /\ UNCHANGED <<log, committed, position, current, attempt>>

(* The steps every consumer takes, whatever its handler.                    *)
GroupNext ==
    \/ \E m \in Messages : Produce(m)
    \/ \E c \in Members :
          \/ Start(c) \/ Join(c) \/ Rebalance(c)
          \/ Fetch(c) \/ Commit(c)
          \/ CommitFails(c) \/ Exit(c)

GroupTypeOK ==
    /\ log \in Seq(Messages)
    /\ committed \in 0 .. Len(log)
    /\ owner \in Members \cup {NULL}
    /\ pc \in [Members -> Loop]
    /\ position \in [Members -> 0 .. Len(log)]
    /\ current \in [Members -> 0 .. Len(log)]
    /\ \A c \in Members : pc[c] \in {"handle", "commit"} => current[c] > 0
    /\ attempt \in [Members -> 0 .. MaxRetries]
    /\ faults \in Nat

(* The group assigns the partition to running processes only.               *)
OwnerRuns == owner \in Members => pc[owner] # "down"
=============================================================================
