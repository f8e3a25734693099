-------------------------- MODULE EventAnalyticsProofs --------------------------
(***************************************************************************)
(* Proofs about EventAnalytics, for every topic, any number of crashes,     *)
(* shutdowns and reassignments, and about the functions of TransferEvents,  *)
(* for every log and wallet.                                                *)
(*                                                                         *)
(* The counts follow the reader: as long as the process holds the           *)
(* partition it works on the message before its position, or it has been    *)
(* sent back to the first one and counts what it counted before.            *)
(***************************************************************************)
EXTENDS EventAnalytics, KafkaConsumerProofs, FiniteSetTheorems

(* Where the one process is. Before its first assignment it has counted     *)
(* nothing; afterwards the message in hand is the last one it fetched,      *)
(* unless a reassignment has sent its reader back to the start.             *)
InStep(c) ==
    /\ pc[c] = "handle" => Message(c) \in Decodable
    /\ pc[c] \in {"handle", "commit"} => position[c] \in {0, current[c]}
    /\ pc[c] \in {"handle", "commit"} /\ ~rejoined => position[c] = current[c]
    /\ pc[c] # "down" /\ owner # c => pc[c] = "fetch" /\ counts = Empty

(* The promises about the counts, in terms of how far it has counted.  *)
Tallied(c) ==
    owner = c => \A b \in Buckets :
        /\ Tally(b, CountedUpTo(c)) <= counts[b]
        /\ ~rejoined => Tally(b, CountedUpTo(c)) = counts[b]

(* What main prints on its way out is the last word: the dumper is gone.    *)
DumperGone == main = "off" => dumper = "done"

(* The inductive invariant.                                                 *)
IInv ==
    /\ TypeOK /\ OwnerRuns
    /\ \A c \in Members : InStep(c) /\ Tallied(c)
    /\ DumperGone /\ LastNumbersPrinted

-----------------------------------------------------------------------------
(* Counting one more.                                                       *)
LEMMA CountUp ==
    ASSUME NEW S, NEW f \in [S -> Nat], NEW x
    PROVE  /\ [f EXCEPT ![x] = @ + 1] \in [S -> Nat]
           /\ \A y \in S : [f EXCEPT ![x] = @ + 1][y] = IF y = x THEN f[y] + 1 ELSE f[y]
<1>1. CASE x \in S
  BY <1>1
<1>2. CASE x \notin S
  <2>1. [f EXCEPT ![x] = @ + 1] = f
    BY <1>2
  <2> QED
    BY <1>2, <2>1
<1> QED
  BY <1>1, <1>2

-----------------------------------------------------------------------------
(* Tallies.                                                                 *)
Counted(b, n) == {i \in 1 .. n : log[i] \in Decodable /\ Bucket(log[i]) = b}

LEMMA TallyType ==
    ASSUME NEW b, NEW n \in Int
    PROVE  IsFiniteSet(Counted(b, n)) /\ Tally(b, n) \in Nat
<1>1. IsFiniteSet(1 .. n)
  BY FS_Interval
<1>2. Counted(b, n) \in SUBSET (1 .. n)
  BY DEF Counted
<1>3. IsFiniteSet(Counted(b, n))
  BY <1>1, <1>2, FS_Subset
<1> QED
  BY <1>3, FS_CardinalityType DEF Tally, Counted

(* Nothing is before the first message.                                     *)
LEMMA TallyNone ==
    ASSUME NEW b, NEW n \in Int, n <= 0
    PROVE  Tally(b, n) = 0
<1>1. {i \in 1 .. n : log[i] \in Decodable /\ Bucket(log[i]) = b} = {}
  OBVIOUS
<1> QED
  BY <1>1, FS_EmptySet DEF Tally

(* The next message counts if it is of the bucket.                          *)
LEMMA TallyNext ==
    ASSUME NEW b, NEW n \in Nat
    PROVE  Tally(b, n + 1) = IF log[n + 1] \in Decodable /\ Bucket(log[n + 1]) = b
                             THEN Tally(b, n) + 1
                             ELSE Tally(b, n)
<1> DEFINE In(i) == log[i] \in Decodable /\ Bucket(log[i]) = b
<1>1. /\ Tally(b, n + 1) = Cardinality(Counted(b, n + 1))
      /\ Tally(b, n) = Cardinality(Counted(b, n))
      /\ IsFiniteSet(Counted(b, n)) /\ Tally(b, n) \in Nat
  <2>1. IsFiniteSet(Counted(b, n)) /\ Tally(b, n) \in Nat
    BY TallyType
  <2> QED
    BY <2>1 DEF Tally, Counted
<1>2. CASE In(n + 1)
  <2>1. Counted(b, n + 1) = Counted(b, n) \cup {n + 1}
    BY <1>2 DEF Counted
  <2>2. n + 1 \notin Counted(b, n)
    BY DEF Counted
  <2> QED
    BY <1>1, <1>2, <2>1, <2>2, FS_AddElement
<1>3. CASE ~In(n + 1)
  <2>1. Counted(b, n + 1) = Counted(b, n)
    BY <1>3 DEF Counted
  <2> QED
    BY <1>1, <1>3, <2>1
<1> QED
  BY <1>2, <1>3

(* What arrives later does not change the tally of what was there.          *)
LEMMA TallyKept ==
    ASSUME LogGrows, NEW b, NEW n \in Int, n <= Len(log)
    PROVE  Tally(b, n)' = Tally(b, n)
<1>1. {i \in 1 .. n : log'[i] \in Decodable /\ Bucket(log'[i]) = b} =
          {i \in 1 .. n : log[i] \in Decodable /\ Bucket(log[i]) = b}
  BY DEF LogGrows
<1> QED
  BY <1>1 DEF Tally

-----------------------------------------------------------------------------
(* A step of the process as the consumer group sees it; Run returning on a  *)
(* signal is the one that is no fault.                                      *)
LEMMA Steps ==
    ASSUME TypeOK, [Next]_vars
    PROVE  GroupStep \/ \E c \in Members : RunReturns(c)
<1>1. faults \in Nat
  BY DEF TypeOK, GroupTypeOK
<1>2. CASE \E m \in Messages : Produce(m)
  BY <1>2 DEF GroupStep, GroupNext
<1>3. ASSUME NEW c \in Members, StartEmpty(c) \/ Join(c) \/ Reassigned(c) \/ Fetch(c)
                                 \/ Apply(c) \/ Commit(c)
      PROVE  GroupStep
  BY <1>3 DEF StartEmpty, Begin, Reassigned, Apply, GroupStep, GroupNext
<1>4. ASSUME NEW c \in Members, Die(c)
      PROVE  GroupStep
  BY <1>1, <1>4 DEF Die, Fault, GroupStep, GroupNext, memberVars
<1>5. CASE Snapshot \/ Dump \/ DumperStops \/ Signal \/ FinalDump \/ UNCHANGED vars
  <2>1. UNCHANGED <<log, committed, owner, memberVars, position>> /\ faults' \in Nat
    BY <1>1, <1>5 DEF Snapshot, Dump, DumperStops, Signal, FinalDump, Fault, vars, groupVars
  <2> QED
    BY <2>1 DEF GroupStep
<1> QED
  BY <1>2, <1>3, <1>4, <1>5 DEF Next

LEMMA TypeStep ==
    ASSUME TypeOK, OwnerRuns, [Next]_vars
    PROVE  TypeOK' /\ OwnerRuns' /\ LogGrows
<1> USE GroupAssumption
<1>0. GroupTypeOK
  BY DEF TypeOK
<1>1. GroupTypeOK' /\ OwnerRuns' /\ LogGrows
  <2>1. CASE GroupStep
    BY <1>0, <2>1, GroupTypeStep, OwnerStep, LogStep
  <2>2. ASSUME NEW c \in Members, RunReturns(c)
        PROVE  GroupTypeOK' /\ OwnerRuns' /\ LogGrows
    BY <1>0, <2>2 DEF RunReturns, Leave, GroupTypeOK, Loop, OwnerRuns, LogGrows
  <2> QED
    BY <2>1, <2>2, Steps
<1>2. committed' = 0
  BY AnalyticsAssumption
     DEF TypeOK, Next, Produce, StartEmpty, Begin, Start, Join, Reassigned, Rebalance,
         Assign, Fetch, Apply, Succeeded, Commit, RunReturns, Die, Exit, Snapshot, Dump,
         DumperStops, Signal, FinalDump, vars, groupVars
<1>3. {counts', copy', dumped'} \subseteq [Buckets -> Nat]
  <2>1. counts \in [Buckets -> Nat] /\ copy \in [Buckets -> Nat] /\ dumped \in [Buckets -> Nat]
    BY DEF TypeOK
  <2>2. Empty \in [Buckets -> Nat]
    BY DEF Empty
  <2>3. ASSUME NEW c \in Members, Apply(c)
        PROVE  counts' \in [Buckets -> Nat] /\ UNCHANGED <<copy, dumped>>
    BY <2>1, <2>3, CountUp DEF Apply, restVars, dumperVars
  <2>4. ASSUME NEW c \in Members, StartEmpty(c)
        PROVE  <1>3
    BY <2>1, <2>2, <2>4 DEF StartEmpty, Begin
  <2>5. CASE Snapshot \/ Dump \/ FinalDump
    BY <2>1, <2>5 DEF Snapshot, Dump, FinalDump
  <2>6. CASE UNCHANGED <<counts, copy, dumped>>
    BY <2>1, <2>6
  <2> QED
    BY <2>1, <2>3, <2>4, <2>5, <2>6
       DEF Next, Reassigned, RunReturns, Die, DumperStops, Signal, vars, bucketVars,
           restVars, dumperVars
<1>4. /\ main' \in {"off", "running", "stopping", "drain"}
      /\ dumper' \in {"idle", "writing", "done"}
      /\ ended' \in {"never ran", "stopped", "died"}
  <2>1. CASE \E c \in Members : StartEmpty(c) \/ RunReturns(c) \/ Die(c)
    BY <2>1 DEF TypeOK, StartEmpty, Begin, RunReturns, Die, dumperVars
  <2>2. CASE Snapshot \/ Dump \/ DumperStops \/ Signal \/ FinalDump
    BY <2>2 DEF TypeOK, Snapshot, Dump, DumperStops, Signal, FinalDump, mainVars, dumperVars
  <2>3. CASE UNCHANGED <<main, dumper, ended>>
    BY <2>3 DEF TypeOK
  <2> QED
    BY <2>1, <2>2, <2>3
       DEF Next, Reassigned, Apply, vars, bucketVars, restVars, mainVars, dumperVars
<1>5. \A d \in Members : main' \in {"off", "drain"} <=> pc'[d] = "down"
  <2>1. PICK c : Members = {c}
    BY AnalyticsAssumption
  <2>2. main \in {"off", "drain"} <=> pc[c] = "down"
    BY <2>1 DEF TypeOK
  <2>3. pc \in [{c} -> Loop]
    BY <1>0, <2>1 DEF GroupTypeOK
  <2>4. CASE StartEmpty(c) \/ RunReturns(c) \/ Die(c)
    BY <2>1, <2>2, <2>3, <2>4
       DEF StartEmpty, Begin, Start, RunReturns, Die, Exit, Leave, memberVars
  <2>5. CASE \/ (Fetch(c) \/ Commit(c)) /\ UNCHANGED bucketVars
            \/ Apply(c)
    BY <2>1, <2>2, <2>3, <2>5
       DEF Fetch, Apply, Succeeded, Handling, Commit, bucketVars, restVars, mainVars
  <2>6. CASE Signal \/ FinalDump
    BY <2>1, <2>2, <2>6 DEF Signal, FinalDump, groupVars, memberVars
  <2>7. CASE UNCHANGED <<main, pc>>
    BY <2>1, <2>2, <2>7
  <2> QED
    BY <2>1, <2>4, <2>5, <2>6, <2>7
       DEF Next, Produce, Join, Reassigned, Rebalance, Assign, Snapshot, Dump, DumperStops,
           vars, groupVars, bucketVars, restVars, mainVars, memberVars
<1> QED
  BY <1>1, <1>2, <1>3, <1>4, <1>5 DEF TypeOK

-----------------------------------------------------------------------------
(* What the last process printed stays the last word until the next starts, *)
(* since only the dumper and main print.                                    *)
LEMMA PrintStep ==
    ASSUME TypeOK, DumperGone, LastNumbersPrinted, [Next]_vars
    PROVE  DumperGone' /\ LastNumbersPrinted'
<1>1. ASSUME NEW c \in Members, Apply(c)
      PROVE  main # "off" /\ main' = main /\ dumper' = dumper
  BY <1>1 DEF Apply, Succeeded, Handling, TypeOK, restVars, mainVars, dumperVars
<1>2. ASSUME NEW c \in Members, StartEmpty(c) \/ RunReturns(c)
      PROVE  main' # "off"
  BY <1>2 DEF StartEmpty, Begin, RunReturns
<1>3. ASSUME NEW c \in Members, Die(c)
      PROVE  dumper' = "done" /\ ended' = "died"
  BY <1>3 DEF Die
<1>4. CASE Snapshot \/ Dump \/ DumperStops \/ Signal \/ FinalDump
  BY <1>4
     DEF Snapshot, Dump, DumperStops, Signal, FinalDump, DumperGone, LastNumbersPrinted,
         mainVars, dumperVars
<1>5. CASE UNCHANGED <<main, ended, dumper, dumped, counts>>
  BY <1>5 DEF DumperGone, LastNumbersPrinted
<1> QED
  BY <1>1, <1>2, <1>3, <1>4, <1>5
     DEF Next, Reassigned, vars, bucketVars, restVars, mainVars, dumperVars, DumperGone,
         LastNumbersPrinted

LEMMA ReaderStep ==
    ASSUME TypeOK, OwnerRuns, TypeOK', LogGrows, [Next]_vars,
           NEW c, Members = {c}, InStep(c), Tallied(c)
    PROVE  InStep(c)' /\ Tallied(c)'
<1> USE GroupAssumption
<1>0. /\ c \in Members /\ pc \in [{c} -> Loop] /\ log \in Seq(Messages)
      /\ position \in [{c} -> Nat] /\ current \in [{c} -> Nat]
      /\ position[c] <= Len(log) /\ current[c] <= Len(log) /\ Len(log) \in Nat
      /\ pc[c] \in {"handle", "commit"} => current[c] > 0
      /\ counts \in [Buckets -> Nat] /\ committed = 0
      /\ owner = c => pc[c] # "down"
      /\ owner \in {c, NULL} /\ c # NULL
  <2>1. GroupTypeOK /\ committed = 0 /\ counts \in [Buckets -> Nat]
    BY DEF TypeOK
  <2>2. c \in Members /\ (owner = c => pc[c] # "down")
    BY DEF OwnerRuns
  <2>3. /\ pc \in [{c} -> Loop] /\ log \in Seq(Messages) /\ Len(log) \in Nat
        /\ position \in [{c} -> 0 .. Len(log)] /\ current \in [{c} -> 0 .. Len(log)]
        /\ pc[c] \in {"handle", "commit"} => current[c] > 0
        /\ owner \in {c} \cup {NULL} /\ c # NULL
    BY <2>1, <2>2 DEF GroupTypeOK
  <2>4. position[c] \in 0 .. Len(log) /\ current[c] \in 0 .. Len(log)
    BY <2>3
  <2> QED
    BY <2>1, <2>2, <2>3, <2>4
<1>1. /\ CountedUpTo(c) \in Int /\ CountedUpTo(c) <= Len(log)
      /\ \A b \in Buckets : counts[b] \in Nat
  BY <1>0 DEF CountedUpTo
<1>2. ASSUME UNCHANGED <<owner, rejoined, counts>>, CountedUpTo(c)' = CountedUpTo(c)
      PROVE  Tallied(c)'
  <2>1. ASSUME NEW b \in Buckets
        PROVE  Tally(b, CountedUpTo(c))' = Tally(b, CountedUpTo(c))
    <3>1. PICK n \in Int : n = CountedUpTo(c) /\ n <= Len(log)
      BY <1>1
    <3>2. Tally(b, n)' = Tally(b, n)
      BY <3>1, TallyKept
    <3> QED
      BY <1>2, <3>1, <3>2 DEF Tally
  <2> QED
    BY <1>2, <2>1 DEF Tallied
<1>3. ASSUME CountedUpTo(c)' \in {0, 0 - 1}, ~rejoined' => counts' = Empty
      PROVE  Tallied(c)'
  <2>1. ASSUME NEW b \in Buckets
        PROVE  Tally(b, CountedUpTo(c))' = 0
    <3>1. PICK n \in Int : n = CountedUpTo(c)' /\ n <= 0
      BY <1>3
    <3>2. {i \in 1 .. n : log'[i] \in Decodable /\ Bucket(log'[i]) = b} = {}
      BY <3>1
    <3> QED
      BY <3>1, <3>2, FS_EmptySet DEF Tally
  <2>2. \A b \in Buckets : counts'[b] \in Nat /\ (counts' = Empty => counts'[b] = 0)
    BY DEF Empty, TypeOK
  <2> QED
    BY <1>3, <2>1, <2>2 DEF Tallied
<1>4. ASSUME owner' # c
      PROVE  Tallied(c)'
  BY <1>4 DEF Tallied
<1>5. ASSUME NEW m \in Messages, Produce(m), UNCHANGED bucketVars
      PROVE  InStep(c)' /\ Tallied(c)'
  <2>1. CountedUpTo(c)' = CountedUpTo(c)
    BY <1>5 DEF Produce, CountedUpTo, memberVars
  <2>2. Tallied(c)'
    BY <1>2, <1>5, <2>1 DEF Produce, bucketVars
  <2>3. pc[c] = "handle" => Message(c)' = Message(c)
    BY <1>0, <1>5 DEF Message, Produce, memberVars, LogGrows
  <2> QED
    BY <1>5, <2>2, <2>3 DEF InStep, Produce, bucketVars, memberVars
<1>6. CASE StartEmpty(c)
  <2>1. pc'[c] = "fetch" /\ counts' = Empty /\ owner' # c
    BY <1>0, <1>6 DEF StartEmpty, Begin, Start
  <2> QED
    BY <1>4, <2>1 DEF InStep
<1>7. CASE RunReturns(c) \/ (Die(c) /\ Exit(c))
  <2>1. pc'[c] = "down" /\ owner' # c
    BY <1>0, <1>7 DEF RunReturns, Exit, Leave
  <2> QED
    BY <1>4, <2>1 DEF InStep
<1>8. CASE Join(c) /\ UNCHANGED bucketVars
  <2>1. /\ pc[c] = "fetch" /\ counts = Empty /\ pc' = pc /\ counts' = counts
        /\ position'[c] = 0 /\ owner' = c
    BY <1>0, <1>8 DEF InStep, Join, Assign, memberVars, bucketVars
  <2>2. CountedUpTo(c)' = 0
    BY <2>1 DEF CountedUpTo
  <2> QED
    BY <1>0, <1>3, <2>1, <2>2 DEF InStep
<1>9. CASE Reassigned(c)
  <2>1. /\ position'[c] = 0 /\ owner' = c /\ rejoined' /\ counts' = counts
        /\ UNCHANGED <<log, pc, current>>
    BY <1>0, <1>9 DEF Reassigned, Rebalance, Assign, memberVars
  <2>2. CountedUpTo(c)' \in {0, 0 - 1}
    BY <2>1 DEF CountedUpTo
  <2> QED
    BY <1>0, <1>3, <2>1, <2>2 DEF InStep, Message
<1>10. CASE Fetch(c) /\ UNCHANGED bucketVars
  <2>1. /\ position[c] < Len(log) /\ pc[c] = "fetch" /\ owner = c
        /\ UNCHANGED <<log, owner, counts, rejoined>>
        /\ position'[c] = position[c] + 1 /\ current'[c] = position[c] + 1
        /\ pc'[c] = IF log[position[c] + 1] \in Undecodable THEN "commit" ELSE "handle"
    BY <1>0, <1>10 DEF Fetch, bucketVars
  <2>2. log[position[c] + 1] \in Messages
    BY <1>0, <2>1
  <2>3. CASE log[position[c] + 1] \in Undecodable
    <3>1. pc'[c] = "commit" /\ CountedUpTo(c) = position[c] /\ CountedUpTo(c)' = position[c] + 1
      BY <2>1, <2>3 DEF CountedUpTo
    <3>2. \A b \in Buckets : Tally(b, position[c] + 1) = Tally(b, position[c])
      BY <1>0, <2>3, TallyNext DEF Decodable
    <3>3. Tallied(c)'
      BY <2>1, <3>1, <3>2 DEF Tallied, Tally
    <3> QED
      BY <2>1, <3>1, <3>3 DEF InStep
  <2>4. CASE log[position[c] + 1] \notin Undecodable
    <3>1. pc'[c] = "handle" /\ CountedUpTo(c) = position[c] /\ CountedUpTo(c)' = position[c]
      BY <1>0, <2>1, <2>4 DEF CountedUpTo
    <3>2. Tallied(c)'
      BY <1>2, <2>1, <3>1
    <3>3. Message(c)' \in Decodable
      BY <2>1, <2>2, <2>4 DEF Message, Decodable
    <3> QED
      BY <2>1, <3>1, <3>2, <3>3 DEF InStep
  <2> QED
    BY <2>3, <2>4
<1>11. CASE Apply(c)
  <2> DEFINE x == Bucket(Message(c))
  <2>1. /\ pc[c] = "handle" /\ pc'[c] = "commit"
        /\ UNCHANGED <<log, owner, position, current, rejoined>>
        /\ counts' = [counts EXCEPT ![x] = @ + 1]
    BY <1>0, <1>11 DEF Apply, Succeeded, Handling
  <2>2. Message(c) \in Decodable /\ position[c] \in {0, current[c]}
        /\ (~rejoined => position[c] = current[c]) /\ owner = c
    BY <2>1 DEF InStep
  <2>3. InStep(c)'
    BY <2>1, <2>2 DEF InStep
  <2>4. CountedUpTo(c) = position[c] - 1 /\ CountedUpTo(c)' = position[c]
    BY <2>1 DEF CountedUpTo
  <2>5. CASE position[c] = 0
    <3>1. ~rejoined' => counts' = Empty
      BY <1>0, <2>1, <2>2, <2>5
    <3> QED
      BY <1>3, <2>3, <2>4, <2>5, <3>1
  <2>6. CASE position[c] = current[c]
    <3>1. PICK n \in Nat : n = current[c] - 1 /\ current[c] = n + 1
      BY <1>0, <2>1
    <3>2. \A b \in Buckets :
             /\ Tally(b, n + 1) = IF x = b THEN Tally(b, n) + 1 ELSE Tally(b, n)
             /\ counts'[b] = IF b = x THEN counts[b] + 1 ELSE counts[b]
             /\ Tally(b, n) \in Nat /\ counts[b] \in Nat
      <4>1. ASSUME NEW b \in Buckets
            PROVE  /\ Tally(b, n) \in Nat
                   /\ Tally(b, n + 1) = IF log[n + 1] \in Decodable /\ Bucket(log[n + 1]) = b
                                        THEN Tally(b, n) + 1 ELSE Tally(b, n)
        BY TallyNext, TallyType
      <4>2. Message(c) = log[n + 1]
        BY <3>1 DEF Message
      <4>3. \A b \in Buckets : counts'[b] = IF b = x THEN counts[b] + 1 ELSE counts[b]
        BY <1>0, <2>1, CountUp
      <4> HIDE DEF x
      <4>4. log[n + 1] \in Decodable /\ Bucket(log[n + 1]) = x
        BY <2>2, <4>2 DEF x
      <4> QED
        BY <1>1, <4>1, <4>3, <4>4
    <3>3. \A b \in Buckets :
             /\ Tally(b, n) <= counts[b]
             /\ ~rejoined => Tally(b, n) = counts[b]
      BY <2>2, <2>4, <2>6, <3>1 DEF Tallied
    <3>4. \A b \in Buckets :
             /\ Tally(b, n + 1) <= counts'[b]
             /\ ~rejoined => Tally(b, n + 1) = counts'[b]
      BY <3>2, <3>3
    <3>5. Tallied(c)'
      BY <2>1, <2>4, <2>6, <3>1, <3>4 DEF Tallied, Tally
    <3> QED
      BY <2>3, <3>5
  <2> QED
    BY <2>2, <2>5, <2>6
<1>12. CASE Commit(c) /\ UNCHANGED bucketVars
  <2>1. /\ pc[c] = "commit" /\ pc'[c] = "fetch"
        /\ UNCHANGED <<log, owner, position, current, counts, rejoined>>
    BY <1>0, <1>12 DEF Commit, bucketVars
  <2>2. CountedUpTo(c)' = CountedUpTo(c)
    BY <2>1 DEF CountedUpTo
  <2>3. Tallied(c)'
    BY <1>2, <2>1, <2>2
  <2> QED
    BY <2>1, <2>3 DEF InStep
<1>13. CASE UNCHANGED <<log, owner, memberVars, position, counts, rejoined>>
  <2>1. CountedUpTo(c)' = CountedUpTo(c)
    BY <1>13 DEF CountedUpTo, memberVars
  <2> QED
    BY <1>2, <1>13, <2>1 DEF InStep, Message, memberVars
<1> QED
  BY <1>5, <1>6, <1>7, <1>8, <1>9, <1>10, <1>11, <1>12, <1>13
     DEF Next, Die, Snapshot, Dump, DumperStops, Signal, FinalDump, vars, groupVars, bucketVars

-----------------------------------------------------------------------------
(* The invariant is inductive.                                              *)
LEMMA InitInvariant == Init => IInv
<1> SUFFICES ASSUME Init PROVE IInv
  OBVIOUS
<1>1. GroupTypeOK /\ OwnerRuns
  BY GroupStart DEF Init
<1>2. TypeOK
  <2>1. Empty \in [Buckets -> Nat]
    BY DEF Empty
  <2>2. \A c \in Members : pc[c] = "down"
    BY DEF Init, GroupInit
  <2> QED
    BY <1>1, <2>1, <2>2 DEF Init, GroupInit, TypeOK
<1>3. ASSUME NEW c \in Members
      PROVE  InStep(c) /\ Tallied(c)
  BY <1>3, GroupAssumption DEF Init, GroupInit, InStep, Tallied
<1> QED
  BY <1>1, <1>2, <1>3 DEF Init, DumperGone, LastNumbersPrinted, IInv

LEMMA InvariantStep == IInv /\ [Next]_vars => IInv'
<1> SUFFICES ASSUME IInv, [Next]_vars PROVE IInv'
  OBVIOUS
<1>1. TypeOK' /\ OwnerRuns' /\ LogGrows
  BY TypeStep DEF IInv
<1>2. DumperGone' /\ LastNumbersPrinted'
  BY PrintStep DEF IInv
<1>3. ASSUME NEW c \in Members
      PROVE  InStep(c)' /\ Tallied(c)'
  <2>1. Members = {c}
    BY AnalyticsAssumption
  <2> QED
    BY <1>1, <2>1, ReaderStep DEF IInv
<1> QED
  BY <1>1, <1>2, <1>3 DEF IInv

(* The inductive invariant holds in every reachable state of the analytics. *)
THEOREM Invariance == Spec => []IInv
BY InitInvariant, InvariantStep, PTL DEF Spec

(* The counts are well formed and nothing is ever committed.                *)
THEOREM TypeCorrect == Spec => []TypeOK
<1>1. IInv => TypeOK
  BY DEF IInv
<1> QED
  BY <1>1, Invariance, PTL

(* What the process has read is counted, whatever processes came before it  *)
(* and however often its partition was reassigned (Apply of analytics.go).  *)
THEOREM Undercounting == Spec => []NeverUndercounts
<1>1. IInv => NeverUndercounts
  BY DEF IInv, Tallied, NeverUndercounts
<1> QED
  BY <1>1, Invariance, PTL

(* Nothing is counted twice as long as the process keeps the partition: it  *)
(* starts with empty buckets at the first message.                          *)
THEOREM Exactness == Spec => []ExactWhileAssigned
<1>1. IInv => ExactWhileAssigned
  BY DEF IInv, Tallied, ExactWhileAssigned
<1> QED
  BY <1>1, Invariance, PTL

(* The last dump of a process that was told to stop shows all it counted:   *)
(* main waits for the dumper before it (main of cmd/event-analytics).       *)
THEOREM LastDump == Spec => []LastNumbersPrinted
<1>1. IInv => LastNumbersPrinted
  BY DEF IInv
<1> QED
  BY <1>1, Invariance, PTL

-----------------------------------------------------------------------------
(* What the watcher makes of a log is an event of a tracked wallet.         *)
LEMMA EventType ==
    ASSUME NEW r \in Logs, NEW tracked \in TrackedMaps,
           Relevant(r, tracked), r.blockNumber # Malformed
    PROVE  NormalizeTransferLog(r, tracked) \in WalletEvents
<1> DEFINE from == topicToAddress(r.topics[2])
           to   == topicToAddress(r.topics[3])
<1>1. r \in RawLogs
  BY TransferAssumption
<1>2. \A a \in DOMAIN tracked : tracked[a] \in {w.id : w \in Wallets}
  <2>1. PICK W \in SUBSET Wallets : tracked \in TrackedAddresses(W)
    BY DEF TrackedMaps
  <2>2. tracked \in [{lower(w.address) : w \in W} -> {w.id : w \in W}]
    BY <2>1 DEF TrackedAddresses
  <2> QED
    BY <2>1, <2>2
<1>3. from \in DOMAIN tracked \/ to \in DOMAIN tracked
  BY DEF Relevant
<1>4. tracked[IF from \in DOMAIN tracked THEN from ELSE to] \in {w.id : w \in Wallets}
  BY <1>2, <1>3
<1>5. Amount(r) \in Nat
  <2>1. r.data \in Nat \cup {Malformed}
    BY <1>1 DEF RawLogs
  <2>2. parseTransferAmount(r.data) \in Nat
    BY <2>1 DEF parseTransferAmount
  <2>3. \A u \in Nat : u * 10 ^ 6 \in Nat /\ u * 10 ^ (6 - 6) \in Nat
    OBVIOUS
  <2>4. \A c \in DOMAIN knownTokens : knownTokens[c].decimals = 6
    BY DEF knownTokens
  <2> QED
    BY <2>2, <2>3, <2>4 DEF Amount
<1>6. TokenSymbol(r) \in {"USDC", "USDT", "UNKNOWN"}
  BY DEF TokenSymbol, knownTokens
<1>7. r.blockNumber \in Nat /\ r.logIndex \in Nat
  BY <1>1 DEF RawLogs
<1> QED
  BY <1>4, <1>5, <1>6, <1>7 DEF NormalizeTransferLog, WalletEvents

LEMMA EnvelopeType ==
    ASSUME NEW e \in WalletEvents, NEW now \in Times
    PROVE  eventToEnvelope(e, now) \in EventEnvelopes
BY DEF eventToEnvelope, WalletEvents, EventEnvelopes, makeEventID

(* The watcher writes what it makes of a log: no envelope is refused.       *)
LEMMA Writes ==
    ASSUME NEW r \in Logs, NEW tracked \in TrackedMaps, NEW now \in Times
    PROVE  LET e == NormalizeTransferLog(r, tracked)
           IN  IF Relevant(r, tracked) /\ r.blockNumber # Malformed
               THEN /\ e \in WalletEvents
                    /\ Published(r, tracked, now) # None
                    /\ eventToEnvelope(e, now) \in EventEnvelopes
                    /\ Validate(eventToEnvelope(e, now))
                    /\ Published(r, tracked, now) =
                           [key |-> e.walletID, value |-> eventToEnvelope(e, now)]
               ELSE Published(r, tracked, now) = None
<1> DEFINE e   == NormalizeTransferLog(r, tracked)
           env == eventToEnvelope(e, now)
<1>1. CASE ~(Relevant(r, tracked) /\ r.blockNumber # Malformed)
  <2>1. e = None
    BY <1>1 DEF NormalizeTransferLog
  <2> QED
    BY <1>1, <2>1 DEF Published
<1>2. CASE Relevant(r, tracked) /\ r.blockNumber # Malformed
  <2>1. e \in WalletEvents /\ env \in EventEnvelopes
    BY <1>2, EventType, EnvelopeType
  <2>2. e # None /\ env # None
    BY <2>1, TransferAssumption
  <2>3. Validate(env)
    <3>1. /\ env.schemaVersion = SchemaCurrent /\ env.network = "ethereum"
          /\ env.walletID \in {w.id : w \in Wallets}
          /\ env.txHash \in {l.txHash : l \in Logs}
          /\ env.contractAddress \in {lower(l.address) : l \in Logs}
      BY <2>1 DEF EventEnvelopes
    <3>2. env.walletID # "" /\ env.txHash # "" /\ env.contractAddress # Spelled("")
      BY <3>1, TransferAssumption
    <3>3. env.eventID # <<>>
      <4>1. \A a, b, c, d, f : <<a, b, c, d, f>> # <<>>
        OBVIOUS
      <4>2. env.eventID = <<"ethereum", e.txHash, e.logIndex, e.walletID, e.direction>>
        BY DEF eventToEnvelope, makeEventID
      <4> QED
        BY <4>1, <4>2
    <3> QED
      BY <3>1, <3>2, <3>3 DEF Validate
  <2> HIDE DEF e, env
  <2>4. Marshal(env) = env
    BY <2>3 DEF Marshal
  <2>5. Published(r, tracked, now) = [key |-> env.walletID, value |-> env]
    BY <2>2, <2>4 DEF Published, e, env
  <2>6. env.walletID = e.walletID
    BY DEF env, eventToEnvelope
  <2>7. Published(r, tracked, now) # None
    <3>1. env.walletID \in {w.id : w \in Wallets}
      BY <2>1 DEF EventEnvelopes
    <3>2. Published(r, tracked, now) \in KafkaMessages
      BY <2>1, <2>5, <3>1 DEF KafkaMessages
    <3> QED
      BY <3>2, TransferAssumption
  <2> QED
    BY <1>2, <2>1, <2>3, <2>5, <2>6, <2>7 DEF e, env
<1> QED
  BY <1>1, <1>2

-----------------------------------------------------------------------------
(* Two logs that are one, to the spelling of their addresses, give the same *)
(* event under maps that agree on those.                                    *)
LEMMA SameEvent ==
    ASSUME NEW r \in Logs, NEW s \in Logs,
           NEW tracked \in TrackedMaps, NEW tracked2 \in TrackedMaps,
           Relevant(r, tracked), r.blockNumber # Malformed, OneLog(r, s),
           Relevant(s, tracked2), s.blockNumber # Malformed,
           SameHolders(r, tracked, tracked2)
    PROVE  NormalizeTransferLog(r, tracked) = NormalizeTransferLog(s, tracked2)
<1>1. r.topics \in Seq(Texts) /\ s.topics \in Seq(Texts) /\ Len(r.topics) >= 3
  BY TransferAssumption DEF RawLogs, Relevant
<1>2. /\ topicToAddress(r.topics[2]) = topicToAddress(s.topics[2])
      /\ topicToAddress(r.topics[3]) = topicToAddress(s.topics[3])
  BY <1>1 DEF OneLog, topicToAddress
<1>3. Amount(r) = Amount(s) /\ TokenSymbol(r) = TokenSymbol(s)
  BY DEF OneLog, Amount, TokenSymbol
<1> DEFINE from == topicToAddress(r.topics[2])
           to   == topicToAddress(r.topics[3])
           holder == IF from \in DOMAIN tracked THEN from ELSE to
<1>4. /\ from \in DOMAIN tracked <=> from \in DOMAIN tracked2
      /\ tracked[holder] = tracked2[holder]
  <2>1. from \in DOMAIN tracked \/ to \in DOMAIN tracked
    BY DEF Relevant
  <2> QED
    BY <2>1 DEF SameHolders
<1> HIDE DEF from, to
<1> QED
  BY <1>2, <1>3, <1>4 DEF NormalizeTransferLog, OneLog, from, to

(* Events of one log agree on all but what the map says.                    *)
LEMMA SameLog ==
    ASSUME NEW r \in Logs, NEW s \in Logs,
           NEW tracked \in TrackedMaps, NEW tracked2 \in TrackedMaps,
           Relevant(r, tracked), r.blockNumber # Malformed, OneLog(r, s),
           Relevant(s, tracked2), s.blockNumber # Malformed,
           NEW d, d = NormalizeTransferLog(r, tracked),
           NEW e, e = NormalizeTransferLog(s, tracked2),
           d.walletID = e.walletID, d.direction = e.direction
    PROVE  d = e
<1>1. Amount(r) = Amount(s) /\ TokenSymbol(r) = TokenSymbol(s)
  BY DEF OneLog, Amount, TokenSymbol
<1> QED
  BY <1>1 DEF NormalizeTransferLog, OneLog

LEMMA Identity ==
    ASSUME NEW tracked \in TrackedMaps, NEW tracked2 \in TrackedMaps,
           NEW now \in Times, NEW later \in Times
    PROVE  IdentityHolds(tracked, tracked2, now, later)
<1> SUFFICES ASSUME NEW r \in Logs, Published(r, tracked, now) # None,
                    NEW s \in Logs, Published(s, tracked2, later) # None,
                    SamePlace(r, s) => OneLog(r, s),
                    NEW p, p = Published(r, tracked, now),
                    NEW q, q = Published(s, tracked2, later)
             PROVE  /\ p.value.eventID = q.value.eventID <=>
                           /\ OneLog(r, s)
                           /\ <<p.value.walletID, p.value.direction>>
                                 = <<q.value.walletID, q.value.direction>>
                    /\ p.value.eventID = q.value.eventID =>
                           /\ p.key = q.key
                           /\ envelopeToDomain(p.value) = envelopeToDomain(q.value)
                    /\ OneLog(r, s) /\ SameHolders(r, tracked, tracked2) =>
                           p.value.eventID = q.value.eventID
  BY DEF IdentityHolds
<1>0. PICK d, e : d = NormalizeTransferLog(r, tracked) /\ e = NormalizeTransferLog(s, tracked2)
  OBVIOUS
<1>1. /\ Relevant(r, tracked) /\ r.blockNumber # Malformed
      /\ Relevant(s, tracked2) /\ s.blockNumber # Malformed
      /\ p = [key |-> d.walletID, value |-> eventToEnvelope(d, now)]
      /\ q = [key |-> e.walletID, value |-> eventToEnvelope(e, later)]
  BY <1>0, Writes
<1>2. d.txHash = r.txHash /\ d.logIndex = r.logIndex /\ e.txHash = s.txHash /\ e.logIndex = s.logIndex
  BY <1>0, <1>1 DEF NormalizeTransferLog
<1>3. /\ p.value.eventID = makeEventID("ethereum", d) /\ q.value.eventID = makeEventID("ethereum", e)
      /\ p.value.walletID = d.walletID /\ p.value.direction = d.direction /\ p.key = d.walletID
      /\ q.value.walletID = e.walletID /\ q.value.direction = e.direction /\ q.key = e.walletID
  BY <1>1 DEF eventToEnvelope
<1>4. p.value.eventID = q.value.eventID <=>
          /\ SamePlace(r, s)
          /\ d.walletID = e.walletID /\ d.direction = e.direction
  BY <1>2, <1>3 DEF makeEventID, SamePlace
<1>5. OneLog(r, s) => SamePlace(r, s)
  BY DEF OneLog, SamePlace
<1>6. OneLog(r, s) /\ d.walletID = e.walletID /\ d.direction = e.direction => d = e
  BY <1>0, <1>1, SameLog
<1>7. d = e => envelopeToDomain(p.value) = envelopeToDomain(q.value)
  BY <1>1 DEF envelopeToDomain, eventToEnvelope
<1>8. OneLog(r, s) /\ SameHolders(r, tracked, tracked2) => d = e
  BY <1>0, <1>1, SameEvent
<1> QED
  BY <1>3, <1>4, <1>5, <1>6, <1>7, <1>8

(* Two publications have one id exactly when they are of one log, for one   *)
(* wallet and in one direction, and then one key and one row; and one log   *)
(* has one id as long as the maps of tracked addresses agree on its two,    *)
(* for all logs a node can return and all wallets (makeEventID and          *)
(* loadTrackedAddresses of watcher.go).                                     *)
THEOREM EventIdentified == Spec => []EventIdentity
<1>1. EventIdentity
  BY Identity DEF EventIdentity
<1> QED
  BY <1>1, PTL

LEMMA Acceptance ==
    ASSUME NEW tracked \in TrackedMaps, NEW now \in Times
    PROVE  AcceptedDownstream(tracked, now)
<1> SUFFICES ASSUME NEW r \in Logs
             PROVE  LET p == Published(r, tracked, now)
                    IN  IF p = None
                        THEN \/ r.removed \/ Len(r.topics) < 3 \/ r.blockNumber = Malformed
                             \/ lower(r.topics[1]) # TransferTopic
                             \/ \A i \in 2 .. 3 : lower(r.topics[i]) \notin DOMAIN tracked
                        ELSE /\ Unmarshal(p.value) # None
                             /\ validateForPersist(p.value)
                             /\ Matches(AllOfEthereum, RoutingKey(p.value))
                             /\ Matches(DefaultBinding, RoutingKey(p.value))
                                    <=> lower(r.topics[2]) \notin DOMAIN tracked
  BY DEF AcceptedDownstream
<1> DEFINE e   == NormalizeTransferLog(r, tracked)
           env == eventToEnvelope(e, now)
<1>0. r.topics \in Seq(Texts)
  BY TransferAssumption DEF RawLogs
<1>1. CASE ~(Relevant(r, tracked) /\ r.blockNumber # Malformed)
  <2>1. Published(r, tracked, now) = None
    BY <1>1, Writes
  <2>2. r.blockNumber = Malformed \/ ~Relevant(r, tracked)
    BY <1>1
  <2>3. ~(Len(r.topics) >= 3) => Len(r.topics) < 3
    BY <1>0
  <2> QED
    BY <2>1, <2>2, <2>3 DEF Relevant, topicToAddress
<1>2. CASE Relevant(r, tracked) /\ r.blockNumber # Malformed
  <2>1. /\ env \in EventEnvelopes /\ Validate(env) /\ Published(r, tracked, now).value = env
        /\ Published(r, tracked, now) # None
    BY <1>2, Writes
  <2>2. /\ env.network = "ethereum" /\ env.direction \in {"incoming", "outgoing"}
        /\ env.eventType = "transfer" /\ env.tokenSymbol \in {"USDC", "USDT", "UNKNOWN"}
        /\ env.amount \in Nat /\ env # None /\ env # Garbage
    BY <2>1, TransferAssumption DEF EventEnvelopes
  <2>3. env.direction = "incoming" <=> lower(r.topics[2]) \notin DOMAIN tracked
    BY <1>2 DEF eventToEnvelope, NormalizeTransferLog, topicToAddress
  <2> HIDE DEF env
  <2>4. Unmarshal(env) # None
    BY <2>1, <2>2 DEF Unmarshal
  <2>5. validateForPersist(env)
    BY <2>2, TransferAssumption DEF validateForPersist
  <2> DEFINE key == RoutingKey(env)
  <2>6. /\ Len(key) = 3 /\ key[1] = "ethereum" /\ key[2] = env.direction
        /\ key[3] = LowerSymbol[env.tokenSymbol]
    BY <2>2 DEF RoutingKey
  <2> HIDE DEF key
  <2>7. Matches(AllOfEthereum, key)
    BY <2>6 DEF Matches, AllOfEthereum
  <2>8. Matches(DefaultBinding, key) <=> key[2] = "incoming"
    BY <2>2, <2>6 DEF Matches, DefaultBinding
  <2> QED
    BY <2>1, <2>3, <2>4, <2>5, <2>6, <2>7, <2>8 DEF key
<1> QED
  BY <1>1, <1>2

(* No consumer turns down what the watcher writes, and the watcher writes   *)
(* every transfer of a tracked wallet, for all logs and wallets.            *)
THEOREM Accepted == Spec => []AcceptedByAll
<1>1. AcceptedByAll
  BY Acceptance DEF AcceptedByAll
<1> QED
  BY <1>1, PTL
=============================================================================
