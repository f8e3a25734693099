---------------------------- MODULE EventAnalytics ----------------------------
(***************************************************************************)
(* event-analytics: a replay consumer whose handler counts events in        *)
(* buckets kept in memory (internal/analytics/analytics.go), a dumper that  *)
(* prints them now and then, and the end of both (cmd/event-analytics).     *)
(* Every process is a group of its own that never commits, so a started     *)
(* process counts the partition from its first message.                     *)
(*                                                                         *)
(* A message is what TransferEvents makes of a transfer, and its bucket the *)
(* one BucketKey names. The amounts are sums of floats, "best effort", and  *)
(* left out; Apply takes the mutex for the whole update, so it is one step, *)
(* and Snapshot copies all buckets under it. Dump writes what Snapshot      *)
(* copied afterwards, when more may have been counted.                      *)
(***************************************************************************)
EXTENDS KafkaConsumer, TransferEvents

ASSUME AnalyticsAssumption ==
    /\ Replay /\ \E c \in Members : Members = {c}
    /\ Undecodable = {m \in Messages : Unmarshal(m) = None}

VARIABLES
    counts,     \* the count of each bucket, 0 if there is none yet
    main,       \* main: "off", "running", "stopping" (ctx cancelled), "drain"
                \* (Run has returned)
    dumper,     \* the dumper goroutine: "idle", "writing", "done"
    copy,       \* the snapshot it writes
    dumped,     \* the counts printed last
    ended,      \* history: how the last process ended
    rejoined    \* history: the partition was assigned to this process twice

mainVars   == <<main, ended>>
dumperVars == <<dumper, copy, dumped>>
restVars   == <<mainVars, dumperVars>>
bucketVars == <<counts, restVars, rejoined>>
vars == <<groupVars, bucketVars>>

Decodable == Messages \ Undecodable
Bucket(m) == BucketKey(Unmarshal(m))
Buckets   == {Bucket(m) : m \in Decodable}

Empty == [b \in Buckets |-> 0]

Init ==
    /\ GroupInit
    /\ counts = Empty
    /\ main = "off" /\ ended = "never ran"
    /\ dumper = "done" /\ copy = Empty /\ dumped = Empty
    /\ rejoined = FALSE

Begin(c) ==
    /\ main = "off"
    /\ Start(c)
    /\ main' = "running"
    /\ dumper' = "idle" /\ copy' = Empty /\ dumped' = Empty
    /\ rejoined' = FALSE
    /\ UNCHANGED ended

(* Variant: the buckets outlive the process.                                *)
StartWithBuckets(c) == Begin(c) /\ UNCHANGED counts

(* A new process has an empty aggregator and starts its dumper.             *)
StartEmpty(c) == Begin(c) /\ counts' = Empty

Reassigned(c) ==
    /\ Rebalance(c)
    /\ rejoined' = TRUE
    /\ UNCHANGED <<counts, restVars>>

(* Apply never returns an error.                                            *)
Apply(c) ==
    /\ Succeeded(c)
    /\ counts' = [counts EXCEPT ![Bucket(Message(c))] = @ + 1]
    /\ UNCHANGED <<restVars, rejoined>>

(* The dumper's ticker fires. After the context is cancelled it may do so   *)
(* once more: select takes either.                                          *)
Snapshot ==
    /\ main # "off" /\ dumper = "idle"
    /\ dumper' = "writing" /\ copy' = counts
    /\ UNCHANGED <<groupVars, counts, mainVars, dumped, rejoined>>

Dump ==
    /\ dumper = "writing"
    /\ dumper' = "idle" /\ dumped' = copy
    /\ UNCHANGED <<groupVars, counts, mainVars, copy, rejoined>>

DumperStops ==
    /\ main \in {"stopping", "drain"} /\ dumper = "idle"
    /\ dumper' = "done"
    /\ UNCHANGED <<groupVars, counts, mainVars, copy, dumped, rejoined>>

(* SIGINT or SIGTERM.                                                       *)
Signal ==
    /\ main = "running"
    /\ Fault
    /\ main' = "stopping"
    /\ UNCHANGED <<log, committed, owner, memberVars, position, counts,
                   ended, dumperVars, rejoined>>

(* FetchMessage reports the cancelled context, and Run returns it.          *)
RunReturns(c) ==
    /\ main = "stopping" /\ pc[c] = "fetch"
    /\ Leave(c)
    /\ main' = "drain"
    /\ UNCHANGED <<log, committed, position, current, attempt, faults, counts,
                   ended, dumperVars, rejoined>>

(* Variant: main does not wait for the dumper.                              *)
FinalDumpAtOnce ==
    /\ main = "drain"
    /\ dumped' = IF dumper = "writing" THEN copy ELSE counts
    /\ main' = "off" /\ ended' = "stopped"
    /\ dumper' = "done"
    /\ UNCHANGED <<groupVars, counts, copy, rejoined>>

(* <-dumpDone, the last dump and the end of the process.                    *)
FinalDump ==
    /\ main = "drain" /\ dumper = "done"
    /\ dumped' = counts
    /\ main' = "off" /\ ended' = "stopped"
    /\ UNCHANGED <<groupVars, counts, dumper, copy, rejoined>>

(* The process dies wherever it is, or Run fails and main calls log.Fatal:  *)
(* no dump.                                                                 *)
Die(c) ==
    /\ main # "off"
    /\ \/ Exit(c)
       \/ /\ pc[c] = "down"
          /\ Fault
          /\ UNCHANGED <<log, committed, owner, memberVars, position>>
    /\ main' = "off" /\ ended' = "died"
    /\ dumper' = "done"
    /\ UNCHANGED <<counts, copy, dumped, rejoined>>

Next ==
    \/ \E m \in Messages : Produce(m) /\ UNCHANGED bucketVars
    \/ \E c \in Members :
          \/ StartEmpty(c)
          \/ Join(c) /\ UNCHANGED bucketVars
          \/ Reassigned(c)
          \/ Fetch(c) /\ UNCHANGED bucketVars
          \/ Apply(c)
          \/ Commit(c) /\ UNCHANGED bucketVars
          \/ RunReturns(c)
          \/ Die(c)
    \/ Snapshot \/ Dump \/ DumperStops
    \/ Signal \/ FinalDump

Spec == Init /\ [][Next]_vars

(* The group assigns, Run goes on, and so do the dumper and main. Nothing   *)
(* is assumed of the ticker and of signals.                                 *)
Fairness ==
    /\ WF_vars(\E c \in Members : Join(c) /\ UNCHANGED bucketVars)
    /\ \A c \in Members :
          /\ WF_vars(StartEmpty(c))
          /\ WF_vars(Fetch(c) /\ UNCHANGED bucketVars)
          /\ WF_vars(Apply(c))
          /\ WF_vars(Commit(c) /\ UNCHANGED bucketVars)
          /\ WF_vars(RunReturns(c))
    /\ WF_vars(Dump) /\ SF_vars(DumperStops) /\ WF_vars(FinalDump)

FairSpec == Spec /\ Fairness

-----------------------------------------------------------------------------
(* How many of the first n messages belong to a bucket.                     *)
Tally(b, n) ==
    Cardinality({i \in 1 .. n : log[i] \in Decodable /\ Bucket(log[i]) = b})

(* How far the process has counted.                                         *)
CountedUpTo(c) == IF pc[c] = "handle" THEN position[c] - 1 ELSE position[c]

(* Well-formed counts, and a replay consumer commits nothing, so that every *)
(* start is at the first message.                                           *)
TypeOK ==
    /\ GroupTypeOK
    /\ {counts, copy, dumped} \subseteq [Buckets -> Nat]
    /\ main \in {"off", "running", "stopping", "drain"}
    /\ dumper \in {"idle", "writing", "done"}
    /\ ended \in {"never ran", "stopped", "died"}
    /\ \A c \in Members : main \in {"off", "drain"} <=> pc[c] = "down"
    /\ committed = 0

(* A restarted process rebuilds the numbers: what it has read is counted,   *)
(* whatever processes came before it and however it lost the partition in   *)
(* between.                                                                 *)
NeverUndercounts ==
    \A c \in Members : owner = c =>
        \A b \in Buckets : Tally(b, CountedUpTo(c)) <= counts[b]

(* "Counts are authoritative" (analytics.go) for a process that has kept    *)
(* the partition since it got it: nothing is counted twice. After a         *)
(* reassignment within one process the reader is back at the first message, *)
(* because nothing is committed, and the buckets are not emptied. An event  *)
(* the watcher has published twice counts twice, in the hours it did so.    *)
ExactWhileAssigned ==
    \A c \in Members : owner = c /\ ~rejoined =>
        \A b \in Buckets : Tally(b, CountedUpTo(c)) = counts[b]

(* "Final dump on the way out so operators see the last numbers" (main): a  *)
(* process that was told to stop has printed, last of all, everything it    *)
(* counted, though the handler was at work and the dumper had an older copy *)
(* in hand when the signal came.                                            *)
LastNumbersPrinted ==
    main = "off" /\ ended = "stopped" => dumped = counts

(* The two facts of TransferEvents, for the maps of tracked addresses that  *)
(* the runs of the watcher may load and all times. They depend on no state, *)
(* and are stated of the initial one.                                       *)
EventIdentity ==
    Init => \A tracked, tracked2 \in TrackedMaps, now, later \in Times :
                IdentityHolds(tracked, tracked2, now, later)

AcceptedByAll ==
    Init => \A tracked \in TrackedMaps, now \in Times :
                AcceptedDownstream(tracked, now)

(* Every decodable message that reaches the partition is counted in the     *)
(* end, poison pills, shutdowns and restarts notwithstanding.               *)
EverythingCounted ==
    \A i \in 1 .. MaxLog :
        i <= Len(log) ~>
            /\ i <= Len(log)
            /\ log[i] \in Decodable =>
                   Tally(Bucket(log[i]), i) <= counts[Bucket(log[i])]
=============================================================================
