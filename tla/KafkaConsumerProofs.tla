-------------------------- MODULE KafkaConsumerProofs --------------------------
(***************************************************************************)
(* What the loop of Consumer.Run guarantees whatever its handler does, for  *)
(* any number of processes, messages, retries, faults and any length of the *)
(* partition: its state stays well formed, what a process has read past is  *)
(* finished (Vouched), and effects appear in the order of the partition     *)
(* (InOrder). The proofs about the groups extend this module and say which  *)
(* messages are finished and which values have had their effect.            *)
(***************************************************************************)
EXTENDS KafkaConsumer, TLAPS

(* A step as the group sees it: one of the loop, the end of a handler call, *)
(* or one that only counts as a fault.                                      *)
GroupStep ==
    \/ GroupNext
    \/ \E c \in Members : Succeeded(c) \/ Failed(c)
    \/ UNCHANGED <<log, committed, owner, memberVars, position>> /\ faults' \in Nat

(* With the finished messages in S: everything before the committed         *)
(* position is finished, and so is what a process has fetched past, less    *)
(* the message it still works on. current is the last message it fetched,   *)
(* position where its latest assignment reads.                              *)
Vouched(S) ==
    /\ 1 .. committed \subseteq S
    /\ \A c \in Members :
          /\ pc[c] = "handle" => 1 .. (current[c] - 1) \subseteq S
          /\ pc[c] = "commit" => 1 .. current[c] \subseteq S
          /\ (owner = c /\ pc[c] = "fetch") => 1 .. position[c] \subseteq S
          /\ (owner = c /\ pc[c] \in {"handle", "commit"}) =>
                position[c] <= current[c] \/ 1 .. position[c] \subseteq S

(* A value in V has had its effect no earlier than all before its first     *)
(* occurrence was finished.                                                 *)
InOrder(S, V) ==
    \A j \in 1 .. Len(log) : log[j] \in V =>
        \E k \in 1 .. j : log[k] = log[j] /\ 1 .. (k - 1) \subseteq S

-----------------------------------------------------------------------------
(* The partition is only appended to.                                       *)
LogGrows ==
    /\ log' \in Seq(Messages)
    /\ Len(log) \in Nat /\ Len(log') \in Nat /\ Len(log) <= Len(log')
    /\ \A i \in 1 .. Len(log) : log'[i] = log[i]

LEMMA LogStep == GroupTypeOK /\ GroupStep => LogGrows
<1> SUFFICES ASSUME GroupTypeOK, GroupStep PROVE LogGrows
  OBVIOUS
<1>1. ASSUME NEW m \in Messages, Produce(m) PROVE LogGrows
  BY <1>1 DEF Produce, GroupTypeOK, LogGrows
<1>2. CASE log' = log
  BY <1>2 DEF GroupTypeOK, LogGrows
<1> QED
  BY <1>1, <1>2
     DEF GroupStep, GroupNext, Start, Join, Rebalance, Assign, Fetch, Commit, CommitFails,
         Exit, Succeeded, Failed

(* The types of the group's state are preserved.                            *)
LEMMA GroupTypeStep == GroupTypeOK /\ GroupStep => GroupTypeOK'
<1> SUFFICES ASSUME GroupTypeOK, GroupStep PROVE GroupTypeOK'
  OBVIOUS
<1> USE GroupAssumption
<1>0. Len(log) \in Nat /\ committed \in Nat
  BY DEF GroupTypeOK
<1>1. ASSUME NEW m \in Messages, Produce(m)
      PROVE  GroupTypeOK'
  <2>1. LogGrows
    BY <1>1, LogStep DEF GroupStep, GroupNext
  <2> QED
    BY <1>1, <2>1, <1>0, SMTT(30) DEF Produce, memberVars, LogGrows, GroupTypeOK
<1>2. ASSUME NEW c \in Members, Start(c)
      PROVE  GroupTypeOK'
  BY <1>2 DEF Start, GroupTypeOK, Loop
<1>3. ASSUME NEW c \in Members, Join(c) \/ Rebalance(c)
      PROVE  GroupTypeOK'
  <2>1. Assign(c) /\ faults' \in Nat
    BY <1>3 DEF Join, Rebalance, Fault, GroupTypeOK
  <2> QED
    BY <2>1 DEF Assign, memberVars, GroupTypeOK, Loop
<1>4. ASSUME NEW c \in Members, Fetch(c)
      PROVE  GroupTypeOK'
  BY <1>4, <1>0, SMTT(30) DEF Fetch, GroupTypeOK, Loop
<1>5. ASSUME NEW c \in Members, Commit(c)
      PROVE  GroupTypeOK'
  BY <1>5, <1>0, SMTT(30) DEF Commit, GroupTypeOK, Loop
<1>6. ASSUME NEW c \in Members, CommitFails(c)
      PROVE  GroupTypeOK'
  BY <1>6, <1>0, SMTT(30) DEF CommitFails, Leave, Fault, GroupTypeOK, Loop
<1>7. ASSUME NEW c \in Members, Exit(c)
      PROVE  GroupTypeOK'
  BY <1>7, <1>0, SMTT(30) DEF Exit, Leave, Fault, GroupTypeOK, Loop
<1>8. ASSUME NEW c \in Members, Succeeded(c)
      PROVE  GroupTypeOK'
  BY <1>8, <1>0, SMTT(30) DEF Succeeded, Handling, GroupTypeOK, Loop
<1>9. ASSUME NEW c \in Members, Failed(c)
      PROVE  GroupTypeOK'
  <2>1. CASE LastAttempt(c)
    BY <1>9, <2>1, <1>0 DEF Failed, Handling, GroupTypeOK, Loop
  <2>2. CASE ~LastAttempt(c)
    <3>1. attempt[c] + 1 \in 0 .. MaxRetries
      BY <2>2 DEF LastAttempt, GroupTypeOK
    <3>2. attempt' = [attempt EXCEPT ![c] = attempt[c] + 1]
      BY <1>9, <2>2 DEF Failed
    <3>3. attempt' \in [Members -> 0 .. MaxRetries]
      BY <3>1, <3>2 DEF GroupTypeOK
    <3>4. UNCHANGED <<log, committed, owner, pc, position, current, faults>>
      BY <1>9, <2>2 DEF Failed
    <3> QED
      BY <3>3, <3>4 DEF GroupTypeOK
  <2> QED
    BY <2>1, <2>2
<1>10. CASE UNCHANGED <<log, committed, owner, memberVars, position>> /\ faults' \in Nat
  BY <1>10 DEF memberVars, GroupTypeOK
<1> QED
  BY <1>1, <1>2, <1>3, <1>4, <1>5, <1>6, <1>7, <1>8, <1>9, <1>10 DEF GroupStep, GroupNext

(* A process that stops gives the partition back.                           *)
LEMMA OwnerStep == GroupTypeOK /\ OwnerRuns /\ GroupStep => OwnerRuns'
BY GroupAssumption
   DEF OwnerRuns, GroupTypeOK, GroupStep, GroupNext, memberVars, Produce, Start, Join,
       Rebalance, Assign, Fetch, Commit, CommitFails, Exit, Leave, Succeeded, Failed

-----------------------------------------------------------------------------
(* A step keeps the promise if it finishes the messages whose handler call  *)
(* it ends, and takes none back.                                            *)
LEMMA VouchedStep ==
    ASSUME GroupTypeOK, OwnerRuns, GroupStep,
           NEW S, NEW T, S \subseteq T, Vouched(S),
           \A i \in 1 .. Len(log) : log[i] \in Undecodable => i \in S,
           \A c \in Members : pc[c] = "handle" /\ pc'[c] = "commit" => current[c] \in T
    PROVE  Vouched(T)'
<1> USE GroupAssumption
<1>0. /\ Len(log) \in Nat
      /\ committed \in 0 .. Len(log) /\ 1 .. committed \subseteq S
      /\ \A d \in Members : position[d] \in 0 .. Len(log) /\ current[d] \in 0 .. Len(log)
      /\ \A d \in Members : pc[d] \in {"handle", "commit"} => current[d] \in 1 .. Len(log)
      /\ \A d \in Members : pc[d] = "down" => owner # d
  BY DEF GroupTypeOK, OwnerRuns, Vouched
<1> DEFINE Vouches(d) ==
        /\ pc[d] = "handle" => 1 .. (current[d] - 1) \subseteq T
        /\ pc[d] = "commit" => 1 .. current[d] \subseteq T
        /\ (owner = d /\ pc[d] = "fetch") => 1 .. position[d] \subseteq T
        /\ (owner = d /\ pc[d] \in {"handle", "commit"}) =>
              position[d] <= current[d] \/ 1 .. position[d] \subseteq T
<1>a. ASSUME NEW d \in Members
      PROVE  /\ pc[d] = "handle" => 1 .. (current[d] - 1) \subseteq T
             /\ pc[d] = "commit" => 1 .. current[d] \subseteq T
             /\ (owner = d /\ pc[d] = "fetch") => 1 .. position[d] \subseteq T
             /\ (owner = d /\ pc[d] \in {"handle", "commit"}) =>
                   position[d] <= current[d] \/ 1 .. position[d] \subseteq T
  BY DEF Vouched
<1>b. ASSUME NEW d \in Members,
             pc'[d] = pc[d], current'[d] = current[d], position'[d] = position[d],
             owner' = d => owner = d
      PROVE  Vouches(d)'
  BY <1>a, <1>b
<1>c. 1 .. committed' \subseteq T
  <2>1. \/ committed' = committed
        \/ \E c \in Members : committed' = current[c] /\ pc[c] = "commit"
    BY DEF GroupStep, GroupNext, Produce, Start, Join, Rebalance, Assign, Fetch,
           Commit, CommitFails, Exit, Succeeded, Failed
  <2> QED
    BY <2>1, <1>0, <1>a
<1>1. CASE UNCHANGED <<pc, current, position, owner>>
  BY <1>1, <1>b, <1>c DEF Vouched
<1>2. ASSUME NEW c \in Members, Start(c) \/ Exit(c) \/ CommitFails(c)
      PROVE  Vouched(T)'
  \* c owns nothing and works on nothing after it
  <2>1. ASSUME NEW d \in Members, d # c
        PROVE  Vouches(d)'
    BY <1>2, <2>1, <1>b DEF Start, Exit, CommitFails, Leave, GroupTypeOK
  <2>2. pc'[c] \in {"down", "fetch"} /\ owner' # c
    BY <1>2, <1>0 DEF Start, Exit, CommitFails, Leave, GroupTypeOK
  <2> QED
    BY <2>1, <2>2, <1>c DEF Vouched
<1>3. ASSUME NEW c \in Members, Assign(c)
      PROVE  Vouched(T)'
  \* c resumes at the committed position
  <2>1. ASSUME NEW d \in Members, d # c
        PROVE  Vouches(d)'
    BY <1>3, <2>1, <1>b DEF Assign, memberVars, GroupTypeOK
  <2>2. /\ position'[c] = committed /\ current'[c] = current[c] /\ pc'[c] = pc[c]
    BY <1>3 DEF Assign, memberVars, GroupTypeOK
  <2>3. Vouches(c)'
    BY <2>2, <1>a, <1>0
  <2> QED
    BY <2>1, <2>3, <1>c DEF Vouched
<1>4. ASSUME NEW c \in Members, Fetch(c)
      PROVE  Vouched(T)'
  <2>1. ASSUME NEW d \in Members, d # c
        PROVE  Vouches(d)'
    BY <1>4, <2>1, <1>b DEF Fetch, GroupTypeOK
  <2>2. /\ position'[c] = position[c] + 1 /\ current'[c] = position[c] + 1
        /\ pc'[c] = IF log[position[c] + 1] \in Undecodable THEN "commit" ELSE "handle"
        /\ 1 .. position[c] \subseteq T /\ position[c] + 1 \in 1 .. Len(log)
    BY <1>4, <1>0, <1>a DEF Fetch, GroupTypeOK
  <2>3. log[position[c] + 1] \in Undecodable => 1 .. (position[c] + 1) \subseteq T
    BY <2>2, <1>0
  <2>4. Vouches(c)'
    BY <2>2, <2>3, <1>0
  <2> QED
    BY <2>1, <2>4, <1>c DEF Vouched
<1>5. ASSUME NEW c \in Members, Commit(c)
      PROVE  Vouched(T)'
  <2>1. ASSUME NEW d \in Members, d # c
        PROVE  Vouches(d)'
    BY <1>5, <2>1, <1>b DEF Commit, GroupTypeOK
  <2>2. /\ position'[c] = position[c] /\ current'[c] = current[c] /\ pc'[c] = "fetch"
        /\ owner' = owner /\ pc[c] = "commit"
    BY <1>5 DEF Commit, GroupTypeOK
  <2>3. Vouches(c)'
    BY <2>2, <1>0, <1>a
  <2> QED
    BY <2>1, <2>3, <1>c DEF Vouched
<1>6. ASSUME NEW c \in Members, Succeeded(c) \/ Failed(c)
      PROVE  Vouched(T)'
  <2>1. /\ UNCHANGED <<owner, position, current>> /\ pc[c] = "handle"
        /\ pc' = pc \/ pc' = [pc EXCEPT ![c] = "commit"]
    BY <1>6 DEF Succeeded, Failed, Handling
  <2>2. ASSUME NEW d \in Members, d # c
        PROVE  Vouches(d)'
    BY <2>1, <2>2, <1>b DEF GroupTypeOK
  <2>3. CASE pc' = pc
    BY <2>1, <2>3, <1>1
  <2>4. CASE pc'[c] = "commit"
    <3>1. 1 .. current[c] \subseteq T
      BY <2>1, <2>4, <1>0, <1>a
    <3>2. Vouches(c)'
      BY <2>1, <2>4, <3>1, <1>0, <1>a
    <3> QED
      BY <2>2, <3>2, <1>c DEF Vouched
  <2> QED
    BY <2>1, <2>3, <2>4 DEF GroupTypeOK
<1> QED
  BY <1>1, <1>2, <1>3, <1>4, <1>5, <1>6
     DEF GroupStep, GroupNext, Produce, Join, Rebalance, memberVars

(* The effects stay in order if only the message a process handles has one. *)
LEMMA InOrderStep ==
    ASSUME GroupTypeOK, LogGrows, NEW S, NEW T, S \subseteq T, NEW V, NEW W,
           InOrder(S, V), Vouched(S),
           \A v \in V : \E i \in 1 .. Len(log) : log[i] = v,
           \A v \in W \ V : log' = log /\ \E c \in Members : pc[c] = "handle" /\ v = Message(c)
    PROVE  InOrder(T, W)'
<1>0. /\ Len(log) \in Nat
      /\ \A c \in Members : pc[c] = "handle" => /\ current[c] \in 1 .. Len(log)
                                                /\ 1 .. (current[c] - 1) \subseteq T
  BY DEF GroupTypeOK, Vouched
<1>1. ASSUME NEW j \in 1 .. Len(log), log[j] \in V
      PROVE  \E k \in 1 .. j : log'[k] = log'[j] /\ 1 .. (k - 1) \subseteq T
  <2>1. PICK k \in 1 .. j : log[k] = log[j] /\ 1 .. (k - 1) \subseteq S
    BY <1>1 DEF InOrder
  <2>2. log'[k] = log[k] /\ log'[j] = log[j]
    BY <1>0 DEF LogGrows
  <2> QED
    BY <2>1, <2>2
<1>2. ASSUME NEW j \in 1 .. Len(log'), log'[j] \in V
      PROVE  \E k \in 1 .. j : log'[k] = log'[j] /\ 1 .. (k - 1) \subseteq T
  <2>1. PICK i \in 1 .. Len(log) : log[i] = log'[j]
    BY <1>2
  <2>2. CASE j <= Len(log)
    BY <1>0, <1>1, <1>2, <2>2 DEF LogGrows
  <2>3. CASE Len(log) < j
    <3>1. PICK k \in 1 .. i : log'[k] = log'[i] /\ 1 .. (k - 1) \subseteq T
      BY <1>1, <1>2, <2>1
    <3>2. log'[i] = log[i] /\ k \in 1 .. j
      BY <1>0, <2>3 DEF LogGrows
    <3> QED
      BY <2>1, <3>1, <3>2
  <2> QED
    BY <1>0, <2>2, <2>3 DEF LogGrows
<1>3. ASSUME NEW j \in 1 .. Len(log'), log'[j] \in W, log'[j] \notin V
      PROVE  \E k \in 1 .. j : log'[k] = log'[j] /\ 1 .. (k - 1) \subseteq T
  <2>1. PICK c \in Members : pc[c] = "handle" /\ log[j] = log[current[c]] /\ log' = log
    BY <1>3 DEF Message
  <2>2. CASE current[c] <= j
    <3>1. current[c] \in 1 .. j
      BY <2>1, <2>2, <1>0
    <3> QED
      BY <2>1, <3>1, <1>0
  <2>3. CASE j < current[c]
    <3>1. 1 .. (j - 1) \subseteq T
      BY <2>1, <2>3, <1>0
    <3> QED
      BY <3>1
  <2> QED
    BY <2>1, <2>2, <2>3, <1>0
<1> QED
  BY <1>2, <1>3 DEF InOrder

-----------------------------------------------------------------------------
(* The group starts with an empty partition and nothing committed.          *)
LEMMA GroupStart ==
    ASSUME GroupInit, NEW S, NEW V
    PROVE  GroupTypeOK /\ OwnerRuns /\ Vouched(S) /\ InOrder(S, V)
BY GroupAssumption DEF GroupInit, GroupTypeOK, Loop, OwnerRuns, Vouched, InOrder
=============================================================================
