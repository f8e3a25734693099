---------------------------- MODULE PipelineProofs ---------------------------
(***************************************************************************)
(* Proofs about the two programs made of goroutines that hand things on     *)
(* through channels: event-watcher, for every chain, every set of tracked   *)
(* addresses, every capacity of the channels and any number of polls, stops *)
(* and lost acknowledgements, and snapshot-runner (the last part), for any  *)
(* wallets, workers and tokens.                                             *)
(*                                                                         *)
(* OnlyRacedSkipped needs what a poll has promised before lastBlock moves;  *)
(* InOrderPerDirection, which speaks of the topic, is carried along the     *)
(* whole pipeline: everything that may still be published is one sequence,  *)
(* Stream, whose parts the goroutines pass on to each other.                *)
(*                                                                         *)
(* EveryWalletOnce of snapshot-runner is inductive once it is known how a   *)
(* send, a receive and a worker change the number of copies; StatusIsTrue   *)
(* needs it, since a wallet that was read twice could be an error and an    *)
(* item at once, and needs the order in which the stages close.             *)
(***************************************************************************)
EXTENDS Watcher, SnapshotRunner, SequenceTheorems, FiniteSetTheorems,
        FunctionTheorems, WellFoundedInduction, TLAPS

(* Concatenation, under a name whose laws are the lemmas below.             *)
s ++ t == s \o t

(* What the publish stage would add to the topic if nothing came in between *)
(* and every publish succeeded once.                                        *)
Held(b) == IF b = 0 THEN <<>> ELSE <<b>>

ToNormalize == IF poller = "send" THEN rawLogs ++ batch ELSE rawLogs

ToPublish ==
    IF normalizer = "done"
    THEN normalized
    ELSE normalized ++ (Held(normalizing) ++ ToNormalize)

Remaining ==
    IF publisher = "done" THEN <<>> ELSE Held(publishing) ++ ToPublish

Stream == topic ++ Remaining

(* The first occurrences in s are in the order of the chain c, per wallet   *)
(* and direction.                                                           *)
IsOut(c, b)  == c[b].from \in Tracked
Whose(c, b)  == IF IsOut(c, b) THEN c[b].from ELSE c[b].to
FirstInOrder(c, s) ==
    \A i, j \in DOMAIN s :
        \/ j <= i
        \/ s[i] <= s[j]
        \/ Whose(c, s[i]) # Whose(c, s[j])
        \/ IsOut(c, s[i]) # IsOut(c, s[j])
        \/ \E k \in 1 .. i : s[k] = s[j]

-----------------------------------------------------------------------------
(* A process that does not run holds nothing.                               *)
OffIsFresh ==
    run = "off" =>
        /\ lastBlock = 0 /\ newBlock = 0
        /\ since = 0 /\ until = 0 /\ between = {}
        /\ batch = <<>> /\ rawLogs = <<>> /\ normalized = <<>>
        /\ normalizing = 0 /\ publishing = 0
        /\ poller = "select"
        /\ normalizer = "running" /\ publisher = "running"

(* The first productive poll of a run sets since, and then lastBlock.       *)
Marks ==
    /\ poller \in {"select", "incoming"} => (since > 0 <=> lastBlock > 0)
    /\ poller = "send" => (since > 0 <=> lastBlock > 0 \/ newBlock > 0)
    /\ since = 0 => until = 0
    /\ poller = "incoming" => asked \in 1 .. Len(chain)

(* The first half of a poll: the outgoing transfers up to the block that    *)
(* was the latest then; without a starting block, only of that block.       *)
AskedCovered ==
    poller = "incoming" =>
        /\ \A y \in (IF lastBlock = 0 THEN asked ELSE lastBlock) .. asked :
              chain[y] \in Transfers /\ Outgoing(y) => y \in ToSet(batch)
        /\ lastBlock = 0 => ToSet(batch) \subseteq {asked}

(* A complete poll: the transfers of the blocks it is about to leave behind *)
(* are in its batch or have been handed on, or were raced.                  *)
PollCovers ==
    run = "running" /\ poller = "send" =>
        \A b \in 1 .. newBlock :
            b >= lastBlock /\ b >= since /\ chain[b] # NULL
            => InFlight(b) \/ Published(b) \/ Raced(b)

StreamInOrder == FirstInOrder(chain, Stream)

(* Nothing in the pipeline is later than where the next poll starts.        *)
BehindMark ==
    poller \in {"select", "incoming"} /\ lastBlock > 0 =>
        \A x \in ToSet(Stream) : x <= lastBlock

(* The first half of a poll: outgoing logs, ascending, none missing up to   *)
(* the last of them, and none earlier than what was fetched before.         *)
FirstHalf ==
    poller = "incoming" =>
        /\ \A i, j \in DOMAIN batch : i < j => batch[i] < batch[j]
        /\ \A y \in ToSet(batch) : chain[y] \in Transfers /\ Outgoing(y)
        /\ \A x \in ToSet(Stream), y \in ToSet(batch) : x <= y
        /\ lastBlock > 0 =>
              \A x \in ToSet(batch) : \A y \in lastBlock .. x :
                  chain[y] \in Transfers /\ Outgoing(y) => y \in ToSet(batch)

(* A complete poll will move lastBlock past everything in the pipeline.     *)
BehindNext ==
    poller = "send" /\ (lastBlock > 0 \/ newBlock > 0) =>
        \A x \in ToSet(Stream) : x <= lastBlock \/ x <= newBlock

IInv ==
    /\ TypeOK /\ OffIsFresh /\ Marks
    /\ OnlyRacedSkipped /\ AskedCovered /\ PollCovers
    /\ StreamInOrder /\ BehindMark /\ FirstHalf /\ BehindNext

-----------------------------------------------------------------------------
(* Sequences and their elements.                                            *)

LEMMA SetOfEmpty == ToSet(<<>>) = {}
  BY DEF ToSet

LEMMA SetOfOne == ASSUME NEW x PROVE ToSet(<<x>>) = {x}
  BY DEF ToSet

LEMMA SetOfType ==
  ASSUME NEW S, NEW s \in Seq(S)
  PROVE  /\ ToSet(s) \subseteq S
         /\ \A x : x \in ToSet(s) <=> \E i \in 1 .. Len(s) : s[i] = x
  BY DEF ToSet

LEMMA SetOfConcat ==
  ASSUME NEW S, NEW s \in Seq(S), NEW t \in Seq(S)
  PROVE  ToSet(s \o t) = ToSet(s) \cup ToSet(t)
  <1> DEFINE u == s \o t
  <1>1. /\ u \in Seq(S) /\ Len(u) = Len(s) + Len(t)
        /\ \A i \in 1 .. Len(s) + Len(t) :
              u[i] = IF i <= Len(s) THEN s[i] ELSE t[i - Len(s)]
    BY ConcatProperties
  <1>2. Len(s) \in Nat /\ Len(t) \in Nat
    BY LenProperties
  <1>3. ASSUME NEW x \in ToSet(u) PROVE x \in ToSet(s) \cup ToSet(t)
    <2>1. PICK i \in 1 .. Len(u) : u[i] = x
      BY <1>1, <1>3, SetOfType
    <2>2. CASE i <= Len(s)
      BY <1>1, <1>2, <2>1, <2>2, SetOfType
    <2>3. CASE i > Len(s)
      <3>1. i - Len(s) \in 1 .. Len(t) /\ t[i - Len(s)] = x
        BY <1>1, <1>2, <2>1, <2>3
      <3> QED BY <3>1, SetOfType
    <2> QED BY <1>2, <2>2, <2>3
  <1>4. ASSUME NEW x \in ToSet(s) PROVE x \in ToSet(u)
    <2>1. PICK i \in 1 .. Len(s) : s[i] = x
      BY <1>4, SetOfType
    <2>2. i \in 1 .. Len(u) /\ u[i] = x
      BY <1>1, <1>2, <2>1
    <2> QED BY <1>1, <2>2, SetOfType
  <1>5. ASSUME NEW x \in ToSet(t) PROVE x \in ToSet(u)
    <2>1. PICK i \in 1 .. Len(t) : t[i] = x
      BY <1>5, SetOfType
    <2>2. i + Len(s) \in 1 .. Len(u) /\ u[i + Len(s)] = x
      BY <1>1, <1>2, <2>1
    <2> QED BY <1>1, <2>2, SetOfType
  <1> QED BY <1>3, <1>4, <1>5

LEMMA Uncons ==
  ASSUME NEW S, NEW s \in Seq(S), s # <<>>
  PROVE  /\ Head(s) \in S /\ Tail(s) \in Seq(S)
         /\ s = <<Head(s)>> \o Tail(s)
         /\ ToSet(s) = {Head(s)} \cup ToSet(Tail(s))
  <1>1. Head(s) \in S /\ Tail(s) \in Seq(S)
    BY HeadTailProperties
  <1>2. s = <<Head(s)>> \o Tail(s)
    BY <1>1
  <1>3. PICK one : one = <<Head(s)>>
    OBVIOUS
  <1>4. PICK tl : tl = Tail(s)
    OBVIOUS
  <1>5. one \in Seq(S) /\ tl \in Seq(S)
    BY <1>1, <1>3, <1>4
  <1>6. ToSet(one \o tl) = ToSet(one) \cup ToSet(tl)
    BY <1>5, SetOfConcat
  <1>7. ToSet(s) = ToSet(one) \cup ToSet(tl)
    BY <1>2, <1>3, <1>4, <1>6
  <1> QED BY <1>1, <1>2, <1>3, <1>4, <1>7, SetOfOne

LEMMA SetOfAppend ==
  ASSUME NEW S, NEW s \in Seq(S), NEW x \in S
  PROVE  ToSet(Append(s, x)) = ToSet(s) \cup {x}
  <1>1. PICK one : one = <<x>>
    OBVIOUS
  <1>a. one \in Seq(S)
    BY <1>1
  <1>b. ToSet(s \o one) = ToSet(s) \cup ToSet(one)
    BY <1>a, SetOfConcat
  <1>2. Append(s, x) \in Seq(S) /\ Append(s, x) = s \o <<x>>
    BY AppendProperties, AppendIsConcat
  <1>3. ToSet(s \o <<x>>) = ToSet(s) \cup ToSet(<<x>>)
    BY <1>1, <1>b
  <1> QED BY <1>2, <1>3, SetOfOne

-----------------------------------------------------------------------------
(* First occurrences in order: what keeps it.                               *)

InOrderAt(c, s, i, j) ==
    \/ s[i] <= s[j]
    \/ Whose(c, s[i]) # Whose(c, s[j])
    \/ IsOut(c, s[i]) # IsOut(c, s[j])
    \/ \E k \in 1 .. i : s[k] = s[j]

LEMMA OrderUnfolded ==
  ASSUME NEW c, NEW s \in Seq(Nat)
  PROVE  FirstInOrder(c, s) <=>
            \A i, j \in 1 .. Len(s) : i < j => InOrderAt(c, s, i, j)
  <1>1. DOMAIN s = 1 .. Len(s) /\ Len(s) \in Nat
    BY LenProperties
  <1>2. \A i, j \in 1 .. Len(s) : j <= i <=> ~(i < j)
    BY <1>1
  <1> QED BY ONLY <1>1, <1>2 DEF FirstInOrder, InOrderAt

LEMMA OrderPrefix ==
  ASSUME NEW c, NEW s \in Seq(Nat), NEW t \in Seq(Nat), FirstInOrder(c, s \o t)
  PROVE  FirstInOrder(c, s)
  <1> DEFINE u == s \o t
  <1>1. /\ u \in Seq(Nat) /\ Len(u) = Len(s) + Len(t)
        /\ \A i \in 1 .. Len(s) : u[i] = s[i]
        /\ Len(s) \in Nat /\ Len(t) \in Nat
    BY ConcatProperties, LenProperties
  <1>2. FirstInOrder(c, u)
    OBVIOUS
  <1> HIDE DEF u
  <1>3. ASSUME NEW i \in 1 .. Len(s), NEW j \in 1 .. Len(s), i < j
        PROVE  InOrderAt(c, s, i, j)
    <2>1. i \in 1 .. Len(u) /\ j \in 1 .. Len(u) /\ u[i] = s[i] /\ u[j] = s[j]
      <3>1. Len(s) <= Len(u) /\ Len(u) \in Nat
        BY <1>1
      <3>2. u[i] = s[i] /\ u[j] = s[j]
        BY <1>1
      <3> QED BY <3>1, <3>2, <1>1
    <2>2. InOrderAt(c, u, i, j)
      BY <1>1, <1>2, <1>3, <2>1, OrderUnfolded
    <2>3. ASSUME NEW k \in 1 .. i PROVE u[k] = s[k]
      <3>1. k \in 1 .. Len(s)
        BY <1>1, <2>3
      <3> QED BY <1>1, <3>1
    <2> QED BY <2>1, <2>2, <2>3 DEF InOrderAt
  <1> QED BY <1>3, OrderUnfolded

LEMMA OrderRepeat ==
  ASSUME NEW c, NEW s \in Seq(Nat), NEW t \in Seq(Nat), NEW b \in Nat,
         FirstInOrder(c, s \o (<<b>> \o t))
  PROVE  FirstInOrder(c, (s \o <<b>>) \o (<<b>> \o t))
  <1> DEFINE n == Len(s)
             u == s \o (<<b>> \o t)
             v == (s \o <<b>>) \o (<<b>> \o t)
             f(i) == IF i <= n + 1 THEN i ELSE i - 1
             g(k) == IF k <= n + 1 THEN k ELSE k + 1
  <1>1. n \in Nat /\ Len(t) \in Nat
    BY LenProperties
  <1>2. <<b>> \o t \in Seq(Nat) /\ s \o <<b>> \in Seq(Nat)
        /\ <<b>> \in Seq(Nat) /\ Len(<<b>>) = 1
    OBVIOUS
  <1>3. Len(u) = n + 1 + Len(t) /\ Len(v) = n + 2 + Len(t) /\ u \in Seq(Nat) /\ v \in Seq(Nat)
    OBVIOUS
  <1>4. \A i \in 1 .. Len(v) : f(i) \in 1 .. Len(u) /\ v[i] = u[f(i)]
    <2>1. ASSUME NEW i \in 1 .. Len(v), i <= n PROVE v[i] = u[f(i)]
      BY <1>1, <1>2, <1>3, <2>1
    <2>2. ASSUME NEW i \in 1 .. Len(v), i = n + 1 PROVE v[i] = u[f(i)]
      BY <1>1, <1>2, <1>3, <2>2
    <2>3. ASSUME NEW i \in 1 .. Len(v), i = n + 2 PROVE v[i] = u[f(i)]
      BY <1>1, <1>2, <1>3, <2>3
    <2>4. ASSUME NEW i \in 1 .. Len(v), i > n + 2 PROVE v[i] = u[f(i)]
      <3>1. v[i] = t[i - (n + 2)]
        BY <1>1, <1>2, <1>3, <2>4
      <3>2. u[i - 1] = t[i - (n + 2)]
        <4>1. i - 1 \in 1 .. n + (1 + Len(t)) /\ i - 1 > n /\ (i - 1) - n = i - n - 1
          BY <1>1, <1>3, <2>4
        <4>2. u[i - 1] = (<<b>> \o t)[i - n - 1]
          <5>1. Len(<<b>> \o t) = 1 + Len(t)
            BY <1>2, ConcatProperties
          <5> QED BY <1>1, <1>2, <4>1, <5>1, ConcatProperties
        <4>3. i - n - 1 \in 1 .. 1 + Len(t) /\ i - n - 1 > 1 /\ (i - n - 1) - 1 = i - (n + 2)
          BY <1>1, <1>3, <2>4
        <4>4. (<<b>> \o t)[i - n - 1] = t[i - (n + 2)]
          BY <1>1, <1>2, <4>3, ConcatProperties
        <4> QED BY <4>2, <4>4
      <3>3. f(i) = i - 1
        BY <1>1, <1>3, <2>4
      <3> QED BY <3>1, <3>2, <3>3
    <2>5. \A i \in 1 .. Len(v) : f(i) \in 1 .. Len(u)
      BY <1>1, <1>3
    <2>6. ASSUME NEW i \in 1 .. Len(v) PROVE v[i] = u[f(i)]
      <3>1. i \in Nat /\ (i <= n \/ i = n + 1 \/ i = n + 2 \/ i > n + 2)
        BY <1>1, <1>3
      <3> HIDE DEF u, v, f
      <3> QED BY <2>1, <2>2, <2>3, <2>4, <3>1
    <2> QED BY <2>5, <2>6
  <1>5. \A k \in 1 .. Len(u) : g(k) \in 1 .. Len(v) /\ f(g(k)) = k
    BY <1>1, <1>3
  <1>6. \A k \in 1 .. Len(u) : v[g(k)] = u[k]
    <2> HIDE DEF f, g, u, v
    <2> QED BY <1>4, <1>5
  <1>7. FirstInOrder(c, u) /\ \A i \in 1 .. Len(u) : u[i] \in Nat
    BY <1>3
  <1>8. \A i, j \in 1 .. Len(v) : i < j /\ f(i) # f(j) => f(i) < f(j)
    BY <1>1, <1>3
  <1>9. \A i \in 1 .. Len(v) : \A k \in 1 .. f(i) : g(k) \in 1 .. i /\ k \in 1 .. Len(u)
    BY <1>1, <1>3
  <1>10. v \in Seq(Nat) /\ u \in Seq(Nat)
    BY <1>3
  <1> HIDE DEF u, v, f, g
  <1>11. ASSUME NEW i \in 1 .. Len(v), NEW j \in 1 .. Len(v), i < j
         PROVE  InOrderAt(c, v, i, j)
    <2>1. v[i] = u[f(i)] /\ v[j] = u[f(j)] /\ f(i) \in 1 .. Len(u) /\ f(j) \in 1 .. Len(u)
      BY <1>4
    <2>2. CASE f(i) = f(j)
      <3>1. v[i] = v[j] /\ v[i] \in Nat
        BY <1>7, <2>1, <2>2
      <3> QED BY <3>1 DEF InOrderAt
    <2>3. CASE f(i) # f(j)
      <3>1. InOrderAt(c, u, f(i), f(j))
        BY <1>7, <1>8, <1>10, <1>11, <2>1, <2>3, OrderUnfolded
      <3>2. (\E k \in 1 .. f(i) : u[k] = u[f(j)]) => \E k \in 1 .. i : v[k] = v[j]
        BY <1>6, <1>9, <2>1
      <3> QED BY <2>1, <3>1, <3>2 DEF InOrderAt
    <2> QED BY <2>2, <2>3
  <1>12. FirstInOrder(c, v)
    BY <1>10, <1>11, OrderUnfolded
  <1> QED BY <1>12 DEF v

(* A poll appends its outgoing and then its incoming logs.                  *)
LEMMA OrderExtend ==
  ASSUME NEW c, NEW s \in Seq(Nat), NEW out \in Seq(Nat), NEW in \in Seq(Nat),
         FirstInOrder(c, s),
         \A x \in ToSet(s), y \in ToSet(out) \cup ToSet(in) : x <= y,
         \A i, j \in DOMAIN out : i < j => out[i] < out[j],
         \A i, j \in DOMAIN in : i < j => in[i] < in[j],
         \A x \in ToSet(out) : IsOut(c, x),
         \A x \in ToSet(out), y \in ToSet(in) :
            x <= y \/ ~IsOut(c, y) \/ y \in ToSet(out)
  PROVE  FirstInOrder(c, s \o (out \o in))
  <1> DEFINE n == Len(s)  m == Len(out)  l == Len(in)
             u == s \o (out \o in)
  <1>1. n \in Nat /\ m \in Nat /\ l \in Nat
    BY LenProperties
  <1>2. out \o in \in Seq(Nat) /\ Len(out \o in) = m + l
        /\ \A i \in 1 .. m + l : (out \o in)[i] = IF i <= m THEN out[i] ELSE in[i - m]
    BY ConcatProperties
  <1>3. u \in Seq(Nat) /\ Len(u) = n + (m + l)
        /\ \A i \in 1 .. n + (m + l) :
              u[i] = IF i <= n THEN s[i] ELSE (out \o in)[i - n]
    BY <1>2, ConcatProperties
  <1> HIDE DEF u
  <1>4. ASSUME NEW i \in 1 .. n PROVE i \in 1 .. Len(u) /\ u[i] = s[i]
    <2>1. i \in 1 .. n + (m + l) /\ i <= n
      BY <1>1
    <2> QED BY <1>3, <2>1
  <1>5. ASSUME NEW i \in 1 .. m PROVE n + i \in 1 .. Len(u) /\ u[n + i] = out[i]
    <2>1. n + i \in 1 .. n + (m + l) /\ ~(n + i <= n) /\ (n + i) - n = i /\ i \in 1 .. m + l /\ i <= m
      BY <1>1
    <2>2. u[n + i] = (out \o in)[i]
      BY <1>3, <2>1
    <2> QED BY <1>2, <1>3, <2>1, <2>2
  <1>6. ASSUME NEW i \in 1 .. l PROVE n + m + i \in 1 .. Len(u) /\ u[n + m + i] = in[i]
    <2>1. n + m + i \in 1 .. n + (m + l) /\ ~(n + m + i <= n) /\ (n + m + i) - n = m + i
          /\ m + i \in 1 .. m + l /\ ~(m + i <= m) /\ (m + i) - m = i
      BY <1>1
    <2>2. u[n + m + i] = (out \o in)[m + i]
      BY <1>3, <2>1
    <2> QED BY <1>2, <1>3, <2>1, <2>2
  <1>7. ASSUME NEW i \in 1 .. Len(u)
        PROVE  \/ i \in 1 .. n
               \/ \E p \in 1 .. m : i = n + p
               \/ \E p \in 1 .. l : i = n + m + p
    <2>1. i \in Nat /\ i >= 1 /\ i <= n + (m + l)
      BY <1>1, <1>3
    <2>2. CASE i > n /\ i <= n + m
      <3>1. i - n \in 1 .. m /\ i = n + (i - n)
        BY <1>1, <2>1, <2>2
      <3> QED BY <3>1
    <2>3. CASE i > n + m
      <3>1. i - n - m \in 1 .. l /\ i = n + m + (i - n - m)
        BY <1>1, <2>1, <2>3
      <3> QED BY <3>1
    <2> QED BY <1>1, <2>1, <2>2, <2>3
  <1>8. ASSUME NEW p \in 1 .. m PROVE u[n + p] \in ToSet(out) /\ out[p] \in Nat
    <2>1. out[p] \in ToSet(out) /\ out[p] \in Nat
      BY SetOfType
    <2> QED BY <1>5, <2>1
  <1>9. ASSUME NEW p \in 1 .. l PROVE u[n + m + p] \in ToSet(in) /\ in[p] \in Nat
    <2>1. in[p] \in ToSet(in) /\ in[p] \in Nat
      BY SetOfType
    <2> QED BY <1>6, <2>1
  <1>10. DOMAIN out = 1 .. m /\ DOMAIN in = 1 .. l
    BY LenProperties
  <1>11. ASSUME NEW i \in 1 .. Len(u), NEW j \in 1 .. Len(u), i < j
         PROVE  InOrderAt(c, u, i, j)
    <2>0. i \in Nat /\ j \in Nat
      BY <1>3
    <2>1. CASE i \in 1 .. n /\ j \in 1 .. n
      <3>1. InOrderAt(c, s, i, j)
        BY <1>11, <2>1, OrderUnfolded
      <3>2. \A k \in 1 .. i : u[k] = s[k]
        BY <1>1, <1>4, <2>1
      <3> QED BY <1>4, <2>1, <3>1, <3>2 DEF InOrderAt
    <2>2. CASE i \in 1 .. n /\ j \notin 1 .. n
      <3>1. u[i] \in ToSet(s)
        BY <1>4, <2>2, SetOfType
      <3>2. u[j] \in ToSet(out) \cup ToSet(in)
        BY <1>7, <1>8, <1>9, <2>2
      <3>3. u[i] <= u[j]
        BY <3>1, <3>2
      <3> QED BY <3>3 DEF InOrderAt
    <2>3. ASSUME NEW p \in 1 .. m, NEW q \in 1 .. m, i = n + p, j = n + q
          PROVE  InOrderAt(c, u, i, j)
      <3>1. p < q
        BY <1>1, <1>11, <2>3
      <3>2. out[p] < out[q]
        BY <1>10, <3>1
      <3>a. u[i] = out[p] /\ u[j] = out[q]
        BY <1>5, <2>3
      <3>b. out[p] \in Nat /\ out[q] \in Nat
        BY <1>8
      <3>3. u[i] <= u[j]
        BY <3>2, <3>a, <3>b
      <3> QED BY <3>3 DEF InOrderAt
    <2>4. ASSUME NEW p \in 1 .. l, NEW q \in 1 .. l, i = n + m + p, j = n + m + q
          PROVE  InOrderAt(c, u, i, j)
      <3>1. p < q
        BY <1>1, <1>11, <2>4
      <3>2. in[p] < in[q]
        BY <1>10, <3>1
      <3>a. u[i] = in[p] /\ u[j] = in[q]
        BY <1>6, <2>4
      <3>b. in[p] \in Nat /\ in[q] \in Nat
        BY <1>9
      <3>3. u[i] <= u[j]
        BY <3>2, <3>a, <3>b
      <3> QED BY <3>3 DEF InOrderAt
    <2>5. ASSUME NEW p \in 1 .. m, NEW q \in 1 .. l, i = n + p, j = n + m + q
          PROVE  InOrderAt(c, u, i, j)
      <3>1. u[i] \in ToSet(out) /\ u[j] \in ToSet(in)
        BY <1>8, <1>9, <2>5
      <3>2. CASE u[j] \in ToSet(out) /\ ~(u[i] <= u[j])
        <4>1. PICK k \in 1 .. m : out[k] = u[j]
          BY <3>2, SetOfType
        <4>2. ~(p < k)
          <5>1. p < k => out[p] < out[k]
            BY <1>10
          <5>2. out[p] = u[i] /\ out[p] \in Nat /\ out[k] \in Nat
            BY <1>5, <1>8, <2>5
          <5> QED BY <3>2, <4>1, <5>1, <5>2
        <4>3. n + k \in 1 .. i
          BY <1>1, <2>5, <4>2
        <4>4. u[n + k] = u[j]
          BY <1>5, <4>1
        <4> QED BY <4>3, <4>4 DEF InOrderAt
      <3>3. IsOut(c, u[i])
        BY <3>1
      <3>4. u[i] <= u[j] \/ ~IsOut(c, u[j]) \/ u[j] \in ToSet(out)
        BY <3>1
      <3> HIDE DEF IsOut
      <3> QED BY <3>2, <3>3, <3>4 DEF InOrderAt
    <2>6. ~(/\ i \notin 1 .. n /\ j \in 1 .. n)
      BY <1>1, <1>11, <2>0
    <2>7. ~(/\ \E p \in 1 .. l : i = n + m + p
            /\ \E q \in 1 .. m : j = n + q)
      BY <1>1, <1>11, <2>0
    <2> QED BY <1>7, <2>1, <2>2, <2>3, <2>4, <2>5, <2>6, <2>7
  <1>12. FirstInOrder(c, u)
    BY <1>3, <1>11, OrderUnfolded
  <1> QED BY <1>12 DEF u

LEMMA OrderSameLogs ==
  ASSUME NEW c, NEW d, NEW s \in Seq(Nat),
         \A b \in ToSet(s) : c[b] = d[b],
         FirstInOrder(c, s)
  PROVE  FirstInOrder(d, s)
  <1>1. \A i \in DOMAIN s : s[i] \in ToSet(s)
    BY DEF ToSet
  <1>2. \A i \in DOMAIN s : IsOut(c, s[i]) = IsOut(d, s[i]) /\ Whose(c, s[i]) = Whose(d, s[i])
    BY <1>1 DEF IsOut, Whose
  <1> HIDE DEF IsOut, Whose
  <1> QED BY <1>2 DEF FirstInOrder

-----------------------------------------------------------------------------
(* What the two requests return, and the highest block among it.            *)

LEMMA AscendingType ==
  ASSUME NEW n \in Nat, NEW S \in SUBSET (1 .. n), NEW s \in Ascending(S)
  PROVE  /\ s \in Seq(S) /\ ToSet(s) = S
         /\ \A i, j \in DOMAIN s : i < j => s[i] < s[j]
  <1>1. IsFiniteSet(1 .. n)
    BY FS_Interval
  <1>2. Cardinality(S) \in Nat
    BY <1>1, FS_Subset, FS_CardinalityType
  <1>3. s \in [1 .. Cardinality(S) -> S]
    BY DEF Ascending
  <1>4. s \in Seq(S)
    BY <1>2, <1>3
  <1> QED BY <1>4 DEF Ascending

LEMMA MaxOfLogs ==
  ASSUME NEW n \in Nat, NEW S \in SUBSET (1 .. n)
  PROVE  /\ Max({0} \cup S) \in {0} \cup S
         /\ \A x \in S : x <= Max({0} \cup S)
  <1> DEFINE T == {0} \cup S
             U == {u \in Nat : \A x \in T : x <= u}
  <1>1. n \in U
    OBVIOUS
  <1>2. PICK u \in U : \A v \in U : u <= v
    <2>1. U # {} /\ U \subseteq Nat
      BY <1>1
    <2> HIDE DEF U
    <2>2. PICK u \in U : \A v \in U : ~(<<v, u>> \in OpToRel(<, Nat))
      BY <2>1, WFMin, NatLessThanWellFounded
    <2>3. \A v \in U : ~(v < u)
      BY <2>1, <2>2 DEF OpToRel
    <2> QED BY <2>1, <2>3
  <1>3. u \in T
    <2>1. SUFFICES ASSUME u \notin T PROVE FALSE
      OBVIOUS
    <2>2. \A x \in T : x < u
      BY <1>2, <2>1
    <2>3. u - 1 \in U
      BY <1>2, <2>2
    <2> QED BY <1>2, <2>3
  <1>4. u \in T /\ \A y \in T : u >= y
    BY <1>2, <1>3
  <1> HIDE DEF T
  <1>5. Max(T) \in T /\ \A y \in T : Max(T) >= y
    BY <1>4 DEF Max
  <1>6. T \subseteq Nat
    BY DEF T
  <1>7. \A x \in S : x <= Max(T)
    BY <1>5, <1>6 DEF T
  <1> QED BY <1>5, <1>7 DEF T

LEMMA MinOfLogs ==
  ASSUME NEW n \in Nat, NEW S \in SUBSET (1 .. n), S # {}
  PROVE  /\ Min(S) \in S
         /\ \A x \in S : Min(S) <= x
  <1> DEFINE T == S
  <1>1. T \subseteq Nat /\ T # {}
    OBVIOUS
  <1> HIDE DEF T
  <1>2. PICK u \in T : \A v \in T : ~(<<v, u>> \in OpToRel(<, Nat))
    BY <1>1, WFMin, NatLessThanWellFounded
  <1>3. \A v \in T : ~(v < u)
    BY <1>1, <1>2 DEF OpToRel
  <1>4. ASSUME NEW v \in T PROVE u <= v
    <2>1. v \in Nat /\ u \in Nat /\ ~(v < u)
      BY <1>1, <1>2, <1>3
    <2> QED BY <2>1
  <1>5. Min(T) \in T /\ \A x \in T : Min(T) <= x
    BY <1>2, <1>4 DEF Min
  <1> QED BY <1>5 DEF T

LEMMA LogsType ==
  ASSUME NEW from, NEW filter
  PROVE  Logs(from, filter) \subseteq 1 .. Latest
  BY DEF Logs

-----------------------------------------------------------------------------
(* Type correctness.                                                        *)

LEMMA PollFacts ==
  ASSUME TypeOK, FetchIncoming, NEW B, B = batch'
  PROVE  /\ B \in Seq(Blocks) /\ ToSet(B) \subseteq Blocks
         /\ ToSet(B) = ToSet(batch) \cup IncomingLogs(lastBlock)
         /\ newBlock' \in {0} \cup ToSet(B)
         /\ \A x \in ToSet(B) : x <= newBlock'
         /\ B # <<>> => /\ Min(ToSet(B)) \in ToSet(B)
                        /\ \A x \in ToSet(B) : Min(ToSet(B)) <= x
         /\ newBlock' > 0 <=> B # <<>>
  <1> DEFINE S == IncomingLogs(lastBlock)
  <1>a. Latest \in Nat /\ Blocks = 1 .. Latest /\ Blocks \subseteq Nat \ {0}
    BY LenProperties DEF TypeOK, Latest, Blocks
  <1>1. S \subseteq 1 .. Latest
    BY LogsType DEF IncomingLogs
  <1>2. PICK incoming \in Ascending(S) : batch' = batch \o incoming
    BY DEF FetchIncoming
  <1> HIDE DEF S
  <1>3. incoming \in Seq(Blocks) /\ ToSet(incoming) = S
    <2>1. incoming \in Seq(S) /\ ToSet(incoming) = S
      BY <1>a, <1>1, <1>2, AscendingType
    <2> QED BY <1>a, <1>1, <2>1, SeqMonotonic
  <1>4. batch \in Seq(Blocks)
    BY DEF TypeOK
  <1>5. B \in Seq(Blocks) /\ ToSet(B) = ToSet(batch) \cup S
    BY <1>2, <1>3, <1>4, ConcatProperties, SetOfConcat
  <1>6. ToSet(B) \subseteq Blocks
    BY <1>5, SetOfType
  <1>7. newBlock' = Max({0} \cup ToSet(B))
    BY DEF FetchIncoming
  <1>8. newBlock' \in {0} \cup ToSet(B) /\ \A x \in ToSet(B) : x <= newBlock'
    BY <1>a, <1>6, <1>7, MaxOfLogs
  <1>9. ASSUME B # <<>>
        PROVE  /\ Min(ToSet(B)) \in ToSet(B)
               /\ \A x \in ToSet(B) : Min(ToSet(B)) <= x
               /\ newBlock' > 0
    <2>1. Head(B) \in ToSet(B)
      BY <1>5, <1>9, Uncons
    <2>2. Head(B) > 0 /\ Head(B) <= newBlock'
      BY <1>a, <1>6, <1>8, <2>1
    <2>3. newBlock' \in Nat
      BY <1>a, <1>6, <1>8
    <2>4. Head(B) \in Nat
      BY <1>a, <1>6, <2>1
    <2>5. newBlock' > 0
      BY <2>2, <2>3, <2>4
    <2>6. ToSet(B) \in SUBSET (1 .. Latest) /\ ToSet(B) # {}
      BY <1>a, <1>6, <2>1
    <2>7. /\ Min(ToSet(B)) \in ToSet(B)
          /\ \A x \in ToSet(B) : Min(ToSet(B)) <= x
      BY <1>a, <2>6, MinOfLogs
    <2> QED BY <2>5, <2>7
  <1>10. B = <<>> => newBlock' = 0
    BY <1>8, SetOfEmpty
  <1>11. newBlock' > 0 <=> B # <<>>
    BY <1>9, <1>10
  <1>12. ToSet(B) = ToSet(batch) \cup IncomingLogs(lastBlock)
    BY <1>5 DEF S
  <1> HIDE DEF S
  <1> QED BY <1>5, <1>6, <1>8, <1>9, <1>11, <1>12

LEMMA TypeInit == Init => TypeOK /\ OffIsFresh /\ Marks
  <1> SUFFICES ASSUME Init PROVE TypeOK /\ OffIsFresh /\ Marks
    OBVIOUS
  <1> USE WatcherAssumption DEF Init
  <1>1. TypeOK
    BY DEF TypeOK, Blocks
  <1>2. OffIsFresh
    BY DEF OffIsFresh
  <1>3. Marks
    BY DEF Marks
  <1> QED BY <1>1, <1>2, <1>3

(* The chain grows: blocks stay blocks.                                     *)
LEMMA MineType ==
  ASSUME TypeOK, NEW t \in Transfers \cup {NULL}, Mine(t)
  PROVE  /\ Len(chain') = Len(chain) + 1 /\ Blocks \subseteq Blocks'
         /\ \A b \in Blocks : chain'[b] = chain[b]
         /\ TypeOK'
  <1>1. chain \in Seq(Transfers \cup {NULL})
    BY DEF TypeOK
  <1> HIDE DEF Transfers
  <1>2. /\ chain' \in Seq(Transfers \cup {NULL}) /\ Len(chain') = Len(chain) + 1
        /\ \A b \in 1 .. Len(chain) : chain'[b] = chain[b]
    BY <1>1, AppendProperties DEF Mine
  <1>3. Blocks \subseteq Blocks' /\ \A b \in Blocks : chain'[b] = chain[b]
    BY <1>1, <1>2, LenProperties DEF Blocks
  <1>4. TypeOK'
    <2> USE DEF Mine, pollerVars, skipVars, stageVars, publishVars
    <2>1. /\ batch' \in Seq(Blocks') /\ rawLogs' \in Seq(Blocks')
          /\ normalized' \in Seq(Blocks') /\ topic' \in Seq(Blocks')
      BY <1>3, SeqMonotonic DEF TypeOK
    <2>2. /\ {lastBlock', newBlock', normalizing', publishing'} \subseteq Blocks' \cup {0}
          /\ {asked', since', until'} \subseteq Blocks' \cup {0}
          /\ fetched' \subseteq Blocks' /\ between' \subseteq Blocks'
      BY <1>3 DEF TypeOK
    <2> QED BY <1>2, <2>1, <2>2 DEF TypeOK
  <1> QED BY <1>2, <1>3, <1>4

LEMMA TypeStep ==
  ASSUME TypeOK, Marks, [Next]_vars
  PROVE  TypeOK'
  <1> USE DEF chainVars, pollerVars, skipVars, stageVars, publishVars
  <1>0. Buffer \in Nat \ {0}
    BY WatcherAssumption
  <1>a. ASSUME UNCHANGED chain PROVE Blocks' = Blocks
    BY <1>a DEF Blocks
  <1>b. Latest \in Nat /\ Blocks = 1 .. Latest /\ Blocks \subseteq Nat \ {0}
    BY LenProperties DEF TypeOK, Latest, Blocks
  <1>1. ASSUME NEW t \in Transfers \cup {NULL}, Mine(t) PROVE TypeOK'
    BY <1>1, MineType
  <1>2. CASE Start
    BY <1>2, <1>a DEF Start, TypeOK
  <1>3. CASE Cancel
    BY <1>3, <1>a DEF Cancel, Stopped, TypeOK
  <1>4. CASE Return
    BY <1>4, <1>a, <1>0 DEF Return, Fresh, TypeOK
  <1>5. CASE Crash
    BY <1>5, <1>a, <1>0 DEF Crash, Stopped, Fresh, TypeOK
  <1>6. CASE FetchOutgoing
    <2>1. batch' \in Seq(Blocks)
      <3> DEFINE S == OutgoingLogs(lastBlock)
      <3>1. S \subseteq 1 .. Latest
        BY LogsType DEF OutgoingLogs
      <3>2. batch' \in Ascending(S)
        BY <1>6 DEF FetchOutgoing
      <3> HIDE DEF S
      <3>3. batch' \in Seq(S)
        BY <1>b, <3>1, <3>2, AscendingType
      <3> QED BY <1>b, <3>1, <3>3, SeqMonotonic
    <2> QED BY <1>6, <1>a, <1>b, <2>1 DEF FetchOutgoing, TypeOK
  <1>7. CASE FetchIncoming
    <2>1. PICK B : B = batch'
      OBVIOUS
    <2>2. /\ B \in Seq(Blocks) /\ ToSet(B) \subseteq Blocks
          /\ newBlock' \in Blocks \cup {0}
          /\ B # <<>> => Min(ToSet(B)) \in Blocks
      BY <1>7, <2>1, PollFacts
    <2>3. fetched' = fetched \cup ToSet(B)
      BY <1>7, <2>1 DEF FetchIncoming
    <2>4. {asked', since', until'} \subseteq Blocks \cup {0}
      BY <1>7, <2>1, <2>2 DEF FetchIncoming, TypeOK
    <2>5. between' \subseteq Blocks
      <3>1. PICK m : m = newBlock'
        OBVIOUS
      <3>2. asked \in Nat /\ m \in Nat /\ m <= Latest
        BY <1>b, <2>2, <3>1 DEF TypeOK
      <3>3. asked + 1 .. m - 1 \subseteq Blocks
        BY <1>b, <3>2
      <3> QED BY <1>7, <3>1, <3>3 DEF FetchIncoming, TypeOK
    <2> QED BY <1>7, <1>a, <2>1, <2>2, <2>3, <2>4, <2>5 DEF FetchIncoming, TypeOK
  <1>8. CASE FetchFails
    BY <1>8, <1>a DEF FetchFails, TypeOK
  <1>9. CASE PollerSend
    <2>1. Head(batch) \in Blocks /\ Tail(batch) \in Seq(Blocks)
      BY <1>9, HeadTailProperties DEF PollerSend, TypeOK
    <2>2. rawLogs' \in Seq(Blocks) /\ Len(rawLogs') = Len(rawLogs) + 1 /\ Len(rawLogs) \in Nat
      BY <1>9, <2>1, AppendProperties, LenProperties DEF PollerSend, TypeOK
    <2> QED BY <1>9, <1>a, <1>0, <2>1, <2>2 DEF PollerSend, TypeOK
  <1>10. CASE Advance
    BY <1>10, <1>a DEF Advance, TypeOK
  <1>11. CASE PollerStops
    BY <1>11, <1>a DEF PollerStops, TypeOK
  <1>12. CASE StageReceive
    <2>1. /\ Head(rawLogs) \in Blocks /\ Tail(rawLogs) \in Seq(Blocks)
          /\ Len(Tail(rawLogs)) = Len(rawLogs) - 1 /\ Len(rawLogs) \in Nat
      BY <1>12, HeadTailProperties, LenProperties DEF StageReceive, TypeOK
    <2> QED BY <1>12, <1>a, <1>0, <2>1 DEF StageReceive, TypeOK
  <1>13. CASE StageSend
    <2>1. <<normalizing>> \in Seq(Blocks) /\ Len(<<normalizing>>) = 1
      BY <1>13 DEF StageSend, TypeOK
    <2> QED BY <1>13, <1>a, <2>1 DEF StageSend, TypeOK
  <1>14. CASE StageStops
    BY <1>14, <1>a DEF StageStops, TypeOK
  <1>15. CASE PublishReceive
    <2>1. /\ Head(normalized) \in Blocks /\ Tail(normalized) \in Seq(Blocks)
          /\ Len(Tail(normalized)) = Len(normalized) - 1 /\ Len(normalized) \in Nat
      BY <1>15, HeadTailProperties, LenProperties DEF PublishReceive, TypeOK
    <2> QED BY <1>15, <1>a, <2>1 DEF PublishReceive, TypeOK
  <1>c. publishing # 0 => Append(topic, publishing) \in Seq(Blocks)
    BY AppendProperties DEF TypeOK
  <1>16. CASE Publish
    BY <1>16, <1>a, <1>c DEF Publish, TypeOK
  <1>17. CASE PublishFails
    <2>1. topic' \in Seq(Blocks)
      BY <1>17, <1>c DEF PublishFails, Written, TypeOK
    <2> QED BY <1>17, <1>a, <2>1 DEF PublishFails, TypeOK
  <1>18. CASE PublisherStops
    BY <1>18, <1>a DEF PublisherStops, TypeOK
  <1>19. CASE UNCHANGED vars
    BY <1>19, <1>a DEF vars, TypeOK
  <1> QED BY <1>1, <1>2, <1>3, <1>4, <1>5, <1>6, <1>7, <1>8, <1>9, <1>10, <1>11,
             <1>12, <1>13, <1>14, <1>15, <1>16, <1>17, <1>18, <1>19 DEF Next

(* A run starts from nothing.                                               *)
LEMMA OffStep ==
  ASSUME TypeOK, OffIsFresh, [Next]_vars
  PROVE  OffIsFresh'
  <1> USE DEF OffIsFresh, chainVars, pollerVars, skipVars, stageVars, publishVars
  <1>1. ASSUME NEW t \in Transfers \cup {NULL}, Mine(t) PROVE OffIsFresh'
    BY <1>1 DEF Mine
  <1>2. CASE Start \/ Cancel \/ Return \/ Crash
    BY <1>2 DEF Start, Cancel, Stopped, Return, Crash, Fresh
  <1>3. CASE FetchOutgoing \/ FetchIncoming \/ FetchFails
    BY <1>3 DEF FetchOutgoing, FetchIncoming, FetchFails
  <1>4. CASE PollerSend \/ Advance \/ PollerStops
    BY <1>4 DEF PollerSend, Advance, PollerStops
  <1>5. CASE StageReceive \/ StageSend \/ StageStops
    BY <1>5 DEF StageReceive, StageSend, StageStops
  <1>6. CASE PublishReceive \/ Publish \/ PublishFails \/ PublisherStops
    BY <1>6 DEF PublishReceive, Publish, PublishFails, PublisherStops
  <1>7. CASE UNCHANGED vars
    BY <1>7 DEF vars
  <1> QED BY <1>1, <1>2, <1>3, <1>4, <1>5, <1>6, <1>7 DEF Next

LEMMA MarksStep ==
  ASSUME TypeOK, Marks, [Next]_vars
  PROVE  Marks'
  <1> USE DEF Marks, chainVars, pollerVars, skipVars, stageVars, publishVars
  <1>a. /\ Latest \in Nat /\ {lastBlock, newBlock, since, asked} \subseteq Nat
        /\ Blocks \subseteq Nat \ {0}
    BY LenProperties DEF TypeOK, Latest, Blocks
  <1>1. ASSUME NEW t \in Transfers \cup {NULL}, Mine(t) PROVE Marks'
    <2>1. Len(chain') = Len(chain) + 1
      BY <1>1, MineType
    <2> QED BY <1>1, <1>a, <2>1 DEF Mine, Latest
  <1>2. CASE Start \/ Cancel \/ Return \/ Crash
    BY <1>2 DEF Start, Cancel, Stopped, Return, Crash, Fresh
  <1>3. CASE FetchOutgoing \/ FetchFails
    BY <1>3, <1>a DEF FetchOutgoing, FetchFails, Latest
  <1>9. CASE FetchIncoming
    <2>1. PICK B : B = batch'
      OBVIOUS
    <2>2. /\ newBlock' > 0 <=> B # <<>>
          /\ B # <<>> => Min(ToSet(B)) \in Blocks
      BY <1>9, <2>1, PollFacts
    <2>3. poller = "incoming" /\ poller' = "send" /\ lastBlock' = lastBlock
      BY <1>9 DEF FetchIncoming
    <2>4. CASE since = 0 /\ B # <<>>
      <3>1. since' = Min(ToSet(B))
        BY <1>9, <2>1, <2>4 DEF FetchIncoming
      <3>2. PICK m \in Blocks : m = Min(ToSet(B))
        BY <2>2, <2>4
      <3>3. m > 0
        BY <1>a, <3>2
      <3>4. since' > 0
        BY <3>1, <3>2, <3>3
      <3> QED BY <2>2, <2>3, <2>4, <3>4
    <2>5. CASE ~(since = 0 /\ B # <<>>)
      BY <1>9, <1>a, <2>1, <2>2, <2>3, <2>5 DEF FetchIncoming
    <2> QED BY <2>4, <2>5
  <1>4. CASE PollerSend \/ PollerStops
    BY <1>4 DEF PollerSend, PollerStops
  <1>5. CASE Advance
    BY <1>5, <1>a DEF Advance
  <1>6. CASE StageReceive \/ StageSend \/ StageStops
    BY <1>6 DEF StageReceive, StageSend, StageStops
  <1>7. CASE PublishReceive \/ Publish \/ PublishFails \/ PublisherStops
    BY <1>7 DEF PublishReceive, Publish, PublishFails, PublisherStops
  <1>8. CASE UNCHANGED vars
    BY <1>8 DEF vars
  <1> QED BY <1>1, <1>2, <1>3, <1>4, <1>5, <1>6, <1>7, <1>8, <1>9 DEF Next

-----------------------------------------------------------------------------
(* No transfer is passed over but the raced ones.                           *)

(* A log that has left the poller's first request is published or on its    *)
(* way, and stays so while the process runs.                                *)
Kept(b) == InFlight(b) \/ Published(b)

LEMMA KeptStep ==
  ASSUME TypeOK, [Next]_vars, run = "running", run' = "running",
         ~FetchIncoming, NEW b \in Nat \ {0}, Kept(b)
  PROVE  Kept(b)'
  <1> USE DEF Kept, InFlight, Published, chainVars, pollerVars, skipVars, stageVars, publishVars
  <1>1. ASSUME NEW t \in Transfers \cup {NULL}, Mine(t) PROVE Kept(b)'
    BY <1>1 DEF Mine
  <1>2. CASE Start \/ Cancel \/ Return \/ Crash
    BY <1>2 DEF Start, Cancel, Return, Crash
  <1>3. CASE FetchOutgoing \/ FetchFails
    BY <1>3 DEF FetchOutgoing, FetchFails
  <1>4. CASE PollerSend
    <2>1. ToSet(batch) = {Head(batch)} \cup ToSet(Tail(batch)) /\ Head(batch) \in Blocks
      BY <1>4, Uncons DEF PollerSend, TypeOK
    <2>2. PICK R : R = rawLogs'
      OBVIOUS
    <2>3. ToSet(R) = ToSet(rawLogs) \cup {Head(batch)}
      <3>1. rawLogs \in Seq(Blocks) /\ R = Append(rawLogs, Head(batch))
        BY <1>4, <2>2 DEF PollerSend, TypeOK
      <3> QED BY <2>1, <3>1, SetOfAppend
    <2>4. PICK B : B = batch'
      OBVIOUS
    <2>5. ToSet(B) = ToSet(Tail(batch))
      BY <1>4, <2>4 DEF PollerSend
    <2> QED BY <1>4, <2>1, <2>2, <2>3, <2>4, <2>5 DEF PollerSend
  <1>5. CASE Advance
    BY <1>5, SetOfEmpty DEF Advance
  <1>6. CASE PollerStops \/ StageStops
    BY <1>6 DEF PollerStops, StageStops
  <1>7. CASE StageReceive
    <2>1. ToSet(rawLogs) = {Head(rawLogs)} \cup ToSet(Tail(rawLogs))
      BY <1>7, Uncons DEF StageReceive, TypeOK
    <2> QED BY <1>7, <2>1 DEF StageReceive
  <1>8. CASE StageSend
    BY <1>8, SetOfEmpty, SetOfOne DEF StageSend
  <1>9. CASE PublishReceive
    <2>1. ToSet(normalized) = {Head(normalized)} \cup ToSet(Tail(normalized))
      BY <1>9, Uncons DEF PublishReceive, TypeOK
    <2> QED BY <1>9, <2>1 DEF PublishReceive
  <1>10. publishing # 0 =>
            ToSet(Append(topic, publishing)) = ToSet(topic) \cup {publishing}
    <2>1. topic \in Seq(Blocks) /\ (publishing # 0 => publishing \in Blocks)
      BY DEF TypeOK
    <2> QED BY <2>1, SetOfAppend
  <1>11. CASE Publish
    BY <1>11, <1>10 DEF Publish
  <1>12. CASE PublishFails
    <2>1. ToSet(topic) \subseteq ToSet(topic')
      BY <1>12, <1>10 DEF PublishFails, Written
    <2> QED BY <1>12, <2>1 DEF PublishFails
  <1>13. CASE PublisherStops
    BY <1>13 DEF PublisherStops
  <1>14. CASE UNCHANGED vars
    BY <1>14 DEF vars
  <1> QED BY <1>1, <1>2, <1>3, <1>4, <1>5, <1>6, <1>7, <1>8, <1>9, <1>11, <1>12,
             <1>13, <1>14 DEF Next

LEMMA ChainStays ==
  ASSUME TypeOK, [Next]_vars, NEW b \in Blocks
  PROVE  chain'[b] = chain[b]
  <1>1. ASSUME NEW t \in Transfers \cup {NULL}, Mine(t) PROVE chain'[b] = chain[b]
    BY <1>1, MineType
  <1>2. chain' = chain \/ \E t \in Transfers \cup {NULL} : Mine(t)
    BY DEF Next, vars, chainVars, Start, Cancel, Return, Crash, FetchOutgoing,
           FetchIncoming, FetchFails, PollerSend, Advance, PollerStops,
           StageReceive, StageSend, StageStops, PublishReceive, Publish,
           PublishFails, PublisherStops
  <1> QED BY <1>1, <1>2

(* The first half of a poll is what the first request returned, and blocks  *)
(* mined since are later than it asked for.                                 *)
LEMMA AskedStep ==
  ASSUME TypeOK, Marks, AskedCovered, [Next]_vars
  PROVE  AskedCovered'
  <1> USE DEF chainVars, pollerVars, skipVars, stageVars, publishVars
  <1>a. /\ Latest \in Nat /\ Blocks = 1 .. Latest
        /\ lastBlock \in Nat /\ asked \in Nat
    BY LenProperties DEF TypeOK, Latest, Blocks
  <1>1. SUFFICES ASSUME poller' = "incoming"
                 PROVE  AskedCovered'
    BY DEF AskedCovered
  <1>2. CASE FetchOutgoing
    <2> DEFINE S == OutgoingLogs(lastBlock)
    <2>1. PICK B : B = batch'
      OBVIOUS
    <2>2. ToSet(B) = S
      <3>1. S \subseteq 1 .. Latest
        BY LogsType DEF OutgoingLogs
      <3>2. B \in Ascending(S)
        BY <1>2, <2>1 DEF FetchOutgoing
      <3> HIDE DEF S
      <3> QED BY <1>a, <3>1, <3>2, AscendingType
    <2>3. asked' = Latest /\ lastBlock' = lastBlock /\ chain' = chain
      BY <1>2 DEF FetchOutgoing
    <2>4. ASSUME NEW y \in (IF lastBlock = 0 THEN Latest ELSE lastBlock) .. Latest,
                 chain[y] \in Transfers, Outgoing(y), Latest > 0
          PROVE  y \in S
      <3>1. y \in 1 .. Latest
        BY <1>a, <2>4
      <3>2. y >= IF lastBlock = 0 THEN Latest ELSE lastBlock
        BY <1>a, <2>4
      <3> QED BY <2>4, <3>1, <3>2 DEF OutgoingLogs, Logs, Outgoing
    <2>5. lastBlock = 0 => S \subseteq {Latest}
      BY <1>a DEF OutgoingLogs, Logs
    <2>6. Latest > 0
      BY <1>2 DEF FetchOutgoing
    <2> HIDE DEF S
    <2> QED BY <2>1, <2>2, <2>3, <2>4, <2>5, <2>6 DEF AskedCovered, Outgoing
  <1>3. CASE ~FetchOutgoing
    <2>1. /\ poller = "incoming" /\ batch' = batch
          /\ lastBlock' = lastBlock /\ asked' = asked
      BY <1>1, <1>3 DEF Next, vars, Mine, Start, Cancel, Stopped, Return, Crash,
           Fresh, FetchIncoming, FetchFails, PollerSend, Advance, PollerStops,
           StageReceive, StageSend, StageStops, PublishReceive, Publish,
           PublishFails, PublisherStops
    <2>2. \A y \in (IF lastBlock = 0 THEN asked ELSE lastBlock) .. asked :
             chain'[y] = chain[y]
      <3>1. asked \in 1 .. Latest
        BY <2>1 DEF Marks, Latest
      <3>2. \A y \in (IF lastBlock = 0 THEN asked ELSE lastBlock) .. asked : y \in Blocks
        BY <1>a, <3>1
      <3> QED BY <3>2, ChainStays
    <2> QED BY <2>1, <2>2 DEF AskedCovered, Outgoing
  <1> QED BY <1>2, <1>3

Covered(b) == Kept(b) \/ Raced(b)

(* A transfer that was raced stays so.                                      *)
LEMMA RacedStep ==
  ASSUME TypeOK, Marks, [Next]_vars, run = "running", run' = "running",
         NEW b \in Blocks, Raced(b)
  PROVE  Raced(b)'
  <1> USE DEF chainVars, pollerVars, skipVars, stageVars, publishVars
  <1>1. chain'[b] = chain[b]
    BY ChainStays
  <1>2. between \subseteq between'
    BY DEF Next, vars, Mine, Start, Cancel, Return, Crash, FetchOutgoing,
           FetchIncoming, FetchFails, PollerSend, Advance, PollerStops,
           StageReceive, StageSend, StageStops, PublishReceive, Publish,
           PublishFails, PublisherStops
  <1>3. until' = until \/ since = 0
    BY DEF Next, vars, Mine, Start, Cancel, Return, Crash, FetchOutgoing,
           FetchIncoming, FetchFails, PollerSend, Advance, PollerStops,
           StageReceive, StageSend, StageStops, PublishReceive, Publish,
           PublishFails, PublisherStops
  <1>4. since = 0 => ~(b < until)
    <2>1. b \in Nat \ {0}
      BY LenProperties DEF TypeOK, Blocks
    <2> QED BY <2>1 DEF Marks
  <1> QED BY <1>1, <1>2, <1>3, <1>4 DEF Raced, Outgoing

(* A poll is complete: what it does not hold of the blocks between its      *)
(* start and its highest was mined between its two requests.                *)
LEMMA PollComplete ==
  ASSUME TypeOK, Marks, AskedCovered, FetchIncoming,
         NEW b \in 1 .. newBlock', b >= lastBlock, b >= since', chain[b] # NULL,
         NEW B, B = batch', b \notin ToSet(B)
  PROVE  Raced(b)'
  <1> DEFINE S == IncomingLogs(lastBlock)
  <1>a. /\ Latest \in Nat /\ Blocks = 1 .. Latest
        /\ {lastBlock, asked, since} \subseteq Nat
        /\ asked \in 1 .. Latest
    <2>1. Latest \in Nat /\ Blocks = 1 .. Latest
      BY LenProperties DEF TypeOK, Latest, Blocks
    <2> QED BY <2>1 DEF TypeOK, Marks, FetchIncoming, Latest
  <1>1. /\ ToSet(B) \subseteq Blocks /\ ToSet(B) = ToSet(batch) \cup S
        /\ newBlock' \in {0} \cup ToSet(B)
        /\ B # <<>> => Min(ToSet(B)) \in ToSet(B)
        /\ newBlock' > 0 <=> B # <<>>
    BY PollFacts
  <1>2. /\ chain' = chain /\ lastBlock' = lastBlock /\ poller = "incoming"
        /\ between' = between \cup (asked + 1 .. newBlock' - 1)
        /\ since = 0 /\ B # <<>> => since' = Min(ToSet(B)) /\ until' = newBlock'
    BY DEF FetchIncoming
  <1>3. newBlock' \in Nat /\ b \in Nat /\ b > 0 /\ b < newBlock' /\ b \in Blocks
        /\ newBlock' \in ToSet(B) /\ B # <<>>
    <2>1. newBlock' \in Nat /\ newBlock' <= Latest
      BY <1>a, <1>1
    <2>2. b \in Nat /\ b > 0 /\ b <= newBlock' /\ b \in Blocks
      BY <1>a, <2>1
    <2>3. newBlock' \in ToSet(B)
      BY <1>1, <2>1, <2>2
    <2>4. b # newBlock'
      BY <2>3
    <2> QED BY <1>1, <2>1, <2>2, <2>3, <2>4
  <1>4. chain[b] \in Transfers
    BY <1>3 DEF TypeOK, Blocks
  <1>5. b > asked => b \in between'
    <2>1. PICK m : m = newBlock'
      OBVIOUS
    <2>2. b > asked => b \in asked + 1 .. m - 1
      <3>1. asked \in Nat /\ m \in Nat /\ b \in Nat /\ b < m
        BY <1>a, <1>3, <2>1
      <3> QED BY ONLY <3>1
    <2> QED BY <1>2, <2>1, <2>2
  <1>6. CASE lastBlock > 0
    <2>1. b \notin S /\ b \notin ToSet(batch)
      BY <1>1
    <2>2. Outgoing(b)
      <3>1. chain[b].to \notin Tracked
        BY <1>a, <1>3, <1>4, <1>6, <2>1 DEF IncomingLogs, Logs
      <3> QED BY <1>4, <3>1 DEF Transfers, Outgoing
    <2>3. b > asked
      <3>1. b <= asked => b \in lastBlock .. asked
        BY <1>a, <1>3
      <3>2. b <= asked => b \in ToSet(batch)
        BY <1>2, <1>4, <1>6, <2>2, <3>1 DEF AskedCovered
      <3> QED BY <1>a, <1>3, <2>1, <3>2
    <2> QED BY <1>2, <1>5, <2>2, <2>3 DEF Raced, Outgoing
  <1>7. CASE lastBlock = 0
    <2>1. since' = Min(ToSet(B)) /\ until' = newBlock'
      <3>1. since = 0
        BY <1>a, <1>2, <1>7 DEF Marks
      <3> QED BY <1>2, <1>3, <3>1
    <2>2. ToSet(B) \subseteq {asked, Latest}
      <3>1. S \subseteq {Latest}
        BY <1>a, <1>7 DEF IncomingLogs, Logs
      <3>2. ToSet(batch) \subseteq {asked}
        BY <1>2, <1>7 DEF AskedCovered
      <3> QED BY <1>1, <3>1, <3>2
    <2>3. since' \in ToSet(B)
      BY <1>1, <1>3, <2>1
    <2>4. since' < b
      <3>1. since' # b /\ since' \in Nat
        BY <1>a, <1>1, <2>3
      <3> QED BY <1>3, <3>1
    <2>5. newBlock' <= Latest
      BY <1>a, <1>1, <1>3
    <2>6. since' = asked
      BY <1>a, <1>3, <2>2, <2>3, <2>4, <2>5
    <2> QED BY <1>3, <1>5, <2>1, <2>4, <2>6 DEF Raced
  <1> QED BY <1>a, <1>6, <1>7

(* What is owed up to lastBlock, and up to newBlock when a poll is          *)
(* complete, is covered.                                                    *)
LEMMA SkipStep ==
  ASSUME TypeOK, OffIsFresh, Marks, OnlyRacedSkipped, AskedCovered, PollCovers,
         [Next]_vars,
         TypeOK', OffIsFresh'
  PROVE  OnlyRacedSkipped' /\ PollCovers'
  <1> USE DEF chainVars, pollerVars, skipVars, stageVars, publishVars
  <1>a. /\ Latest \in Nat /\ Blocks = 1 .. Latest
        /\ {lastBlock, newBlock, since} \subseteq Blocks \cup {0}
        /\ {lastBlock, newBlock, since} \subseteq Nat
    <2>1. Latest \in Nat /\ Blocks = 1 .. Latest
      BY LenProperties DEF TypeOK, Latest, Blocks
    <2>2. {lastBlock, newBlock, since} \subseteq Blocks \cup {0}
      BY DEF TypeOK
    <2> QED BY <2>1, <2>2
  <1>b. OnlyRacedSkipped <=>
          (run = "running" /\ since > 0 =>
              \A b \in since .. lastBlock : chain[b] # NULL => Covered(b))
    BY DEF OnlyRacedSkipped, Covered, Kept
  <1>c. PollCovers <=>
          (run = "running" /\ poller = "send" =>
              \A b \in 1 .. newBlock :
                 b >= lastBlock /\ b >= since /\ chain[b] # NULL => Covered(b))
    BY DEF PollCovers, Covered, Kept
  <1>d. OnlyRacedSkipped' <=>
          (run' = "running" /\ since' > 0 =>
              \A b \in since' .. lastBlock' : chain'[b] # NULL => Covered(b)')
    BY DEF OnlyRacedSkipped, Covered, Kept
  <1>e. PollCovers' <=>
          (run' = "running" /\ poller' = "send" =>
              \A b \in 1 .. newBlock' :
                 b >= lastBlock' /\ b >= since' /\ chain'[b] # NULL => Covered(b)')
    BY DEF PollCovers, Covered, Kept
  <1>f. \A b \in Blocks : chain'[b] = chain[b]
    BY ChainStays
  <1>g. ASSUME run = "running", run' = "running", ~FetchIncoming,
               NEW b \in Blocks, Covered(b)
        PROVE  Covered(b)'
    <2>1. b \in Nat \ {0}
      BY <1>a
    <2>2. CASE Kept(b)
      BY <1>g, <2>1, <2>2, KeptStep DEF Covered
    <2>3. CASE Raced(b)
      BY <1>g, <2>3, RacedStep DEF Covered
    <2> QED BY <1>g, <2>2, <2>3 DEF Covered
  <1>1. CASE run' # "running"
    BY <1>1, <1>d, <1>e
  <1>2. CASE run = "off" /\ run' = "running"
    <2>1. Start
      BY <1>2 DEF Next, vars, Mine, Start, Cancel, Return, Crash, FetchOutgoing,
           FetchIncoming, FetchFails, PollerSend, Advance, PollerStops,
           StageReceive, StageSend, StageStops, PublishReceive, Publish,
           PublishFails, PublisherStops
    <2>2. since' = 0 /\ poller' = "select"
      BY <1>2, <2>1 DEF Start, OffIsFresh
    <2> QED BY <2>2, <1>d, <1>e
  <1>3. CASE run = "running" /\ run' = "running" /\ ~FetchIncoming /\ ~Advance
    <2>1. /\ lastBlock' = lastBlock /\ since' = since
          /\ poller' = "send" => poller = "send" /\ newBlock' = newBlock
      BY <1>3 DEF Next, vars, Mine, Start, Cancel, Return, Crash, FetchOutgoing,
           FetchFails, PollerSend, PollerStops,
           StageReceive, StageSend, StageStops, PublishReceive, Publish,
           PublishFails, PublisherStops
    <2>2. \A b \in Blocks : chain'[b] # NULL /\ (chain[b] # NULL => Covered(b))
                            => Covered(b)'
      BY <1>3, <1>f, <1>g
    <2>3. since > 0 => \A b \in since .. lastBlock : b \in Blocks
      BY <1>a
    <2>4. \A b \in 1 .. newBlock : b \in Blocks
      BY <1>a
    <2>5. OnlyRacedSkipped'
      BY <1>3, <2>1, <2>2, <2>3, <1>b, <1>d
    <2>6. PollCovers'
      BY <1>3, <2>1, <2>2, <2>4, <1>c, <1>e
    <2> QED BY <2>5, <2>6
  <1>4. CASE run = "running" /\ run' = "running" /\ Advance
    <2>1. \A b \in Blocks : chain'[b] # NULL /\ (chain[b] # NULL => Covered(b))
                            => Covered(b)'
      <3>1. ~FetchIncoming
        BY <1>4 DEF Advance, FetchIncoming
      <3> QED BY <1>4, <1>f, <1>g, <3>1
    <2>2. ASSUME since' > 0, NEW b \in since' .. lastBlock', chain'[b] # NULL
          PROVE  Covered(b)'
      <3>1. /\ since' = since /\ poller = "send"
            /\ lastBlock' = lastBlock \/ lastBlock' = newBlock
        BY <1>4 DEF Advance
      <3>2. CASE b <= lastBlock
        <4>1. b \in since .. lastBlock /\ b \in Blocks
          BY <1>a, <2>2, <3>1, <3>2
        <4> QED BY <1>4, <1>b, <2>1, <2>2, <3>1, <4>1
      <3>3. CASE ~(b <= lastBlock)
        <4>1. b \in 1 .. newBlock /\ b >= lastBlock /\ b >= since /\ b \in Blocks
          BY <1>a, <2>2, <3>1, <3>3
        <4> QED BY <1>4, <1>c, <2>1, <2>2, <3>1, <4>1
      <3> QED BY <3>2, <3>3
    <2>3. poller' = "select"
      BY <1>4 DEF Advance
    <2> QED BY <2>2, <2>3, <1>d, <1>e
  <1>5. CASE run = "running" /\ run' = "running" /\ FetchIncoming
    <2>1. /\ lastBlock' = lastBlock /\ chain' = chain
          /\ poller = "incoming" /\ poller' = "send"
          /\ since > 0 => since' = since
          /\ UNCHANGED <<topic, rawLogs, normalized, normalizing, publishing>>
      BY <1>5 DEF FetchIncoming
    <2>2. PICK B : B = batch'
      OBVIOUS
    <2>3. ToSet(B) \subseteq Blocks /\ newBlock' \in {0} \cup ToSet(B)
      BY <1>5, <2>2, PollFacts
    <2>4. ASSUME NEW b \in Blocks, Covered(b) PROVE Covered(b)'
      <3>1. CASE Kept(b)
        BY <2>1, <3>1 DEF Covered, Kept, InFlight, Published
      <3>2. CASE Raced(b)
        BY <1>5, <3>2, RacedStep DEF Covered
      <3> QED BY <2>4, <3>1, <3>2 DEF Covered
    <2>5. ASSUME since' > 0, NEW b \in since' .. lastBlock', chain'[b] # NULL
          PROVE  Covered(b)'
      <3>1. since' \in Nat
        <4>1. since' \in Blocks' \cup {0} /\ Blocks' = Blocks
          BY <2>1 DEF TypeOK, Blocks
        <4> QED BY <1>a, <4>1
      <3>2. lastBlock > 0
        BY <1>a, <2>1, <2>5, <3>1
      <3>3. since > 0
        BY <2>1, <3>2 DEF Marks
      <3>4. b \in since .. lastBlock /\ b \in Blocks
        BY <1>a, <2>1, <2>5, <3>3
      <3> QED BY <1>5, <1>b, <2>1, <2>4, <2>5, <3>3, <3>4
    <2>6. ASSUME NEW b \in 1 .. newBlock', b >= lastBlock', b >= since',
                 chain'[b] # NULL
          PROVE  Covered(b)'
      <3>1. CASE b \in ToSet(B)
        BY <2>1, <2>2, <3>1 DEF Covered, Kept, InFlight
      <3>2. CASE b \notin ToSet(B)
        BY <1>5, <2>1, <2>2, <2>6, <3>2, PollComplete DEF Covered
      <3> QED BY <3>1, <3>2
    <2> QED BY <2>5, <2>6, <1>d, <1>e
  <1>6. run # "off" \/ run' # "running" => run = "running" \/ run' # "running"
    BY DEF TypeOK, Next, vars, Mine, Start, Cancel, Return, Crash, FetchOutgoing,
           FetchIncoming, FetchFails, PollerSend, Advance, PollerStops,
           StageReceive, StageSend, StageStops, PublishReceive, Publish,
           PublishFails, PublisherStops
  <1> QED BY <1>1, <1>2, <1>3, <1>4, <1>5, <1>6

-----------------------------------------------------------------------------
(* The stream through the pipeline.                                         *)

LEMMA ConcatType ==
  ASSUME NEW S, NEW s \in Seq(S), NEW t \in Seq(S)
  PROVE  s ++ t \in Seq(S)
  BY DEF ++

LEMMA ConcatEmpty ==
  ASSUME NEW S, NEW s \in Seq(S)
  PROVE  s ++ <<>> = s /\ <<>> ++ s = s
  BY DEF ++

LEMMA Associative ==
  ASSUME NEW s \in Seq(Nat), NEW t \in Seq(Nat), NEW u \in Seq(Nat)
  PROVE  s ++ (t ++ u) = (s ++ t) ++ u
  BY SMTT(30) DEF ++

LEMMA HeldType == ASSUME NEW b \in Nat PROVE Held(b) \in Seq(Nat)
  BY DEF Held

LEMMA StreamType ==
  TypeOK => /\ {lastBlock, newBlock, normalizing, publishing} \subseteq Nat
            /\ topic \in Seq(Nat) /\ normalized \in Seq(Nat)
            /\ rawLogs \in Seq(Nat) /\ batch \in Seq(Nat)
            /\ ToNormalize \in Seq(Nat) /\ ToPublish \in Seq(Nat)
            /\ Remaining \in Seq(Nat) /\ Stream \in Seq(Nat)
            /\ ToSet(Stream) \subseteq Blocks
  <1> SUFFICES ASSUME TypeOK
      PROVE /\ {lastBlock, newBlock, normalizing, publishing} \subseteq Nat
            /\ topic \in Seq(Nat) /\ normalized \in Seq(Nat)
            /\ rawLogs \in Seq(Nat) /\ batch \in Seq(Nat)
            /\ ToNormalize \in Seq(Nat) /\ ToPublish \in Seq(Nat)
            /\ Remaining \in Seq(Nat) /\ Stream \in Seq(Nat)
            /\ ToSet(Stream) \subseteq Blocks
    OBVIOUS
  <1>1. Blocks \subseteq Nat
    BY LenProperties DEF TypeOK, Blocks
  <1>2. /\ topic \in Seq(Blocks) /\ normalized \in Seq(Blocks)
        /\ rawLogs \in Seq(Blocks) /\ batch \in Seq(Blocks)
        /\ {lastBlock, newBlock, normalizing, publishing} \subseteq Blocks \cup {0}
    BY DEF TypeOK
  <1>3. Held(normalizing) \in Seq(Blocks) /\ Held(publishing) \in Seq(Blocks)
        /\ <<>> \in Seq(Blocks)
    BY <1>2 DEF Held
  <1>4. ToNormalize \in Seq(Blocks)
    BY <1>2, ConcatType DEF ToNormalize
  <1>5. Held(normalizing) ++ ToNormalize \in Seq(Blocks)
    BY <1>3, <1>4, ConcatType
  <1>6. ToPublish \in Seq(Blocks)
    BY <1>2, <1>5, ConcatType DEF ToPublish
  <1>7. Remaining \in Seq(Blocks)
    BY <1>3, <1>6, ConcatType DEF Remaining
  <1>8. Stream \in Seq(Blocks)
    BY <1>2, <1>7, ConcatType DEF Stream
  <1>9. ToSet(Stream) \subseteq Blocks
    BY <1>8, SetOfType
  <1>10. /\ topic \in Seq(Nat) /\ normalized \in Seq(Nat)
         /\ rawLogs \in Seq(Nat) /\ batch \in Seq(Nat)
         /\ ToNormalize \in Seq(Nat) /\ ToPublish \in Seq(Nat)
         /\ Remaining \in Seq(Nat) /\ Stream \in Seq(Nat)
    BY <1>1, <1>2, <1>4, <1>6, <1>7, <1>8, SeqMonotonic
  <1>11. {lastBlock, newBlock, normalizing, publishing} \subseteq Nat
    <2>1. Blocks \cup {0} \subseteq Nat
      BY <1>1
    <2> QED BY <1>2, <2>1
  <1> QED BY <1>9, <1>10, <1>11

(* What is dropped, is dropped from the end of the stream.                  *)
Shortened(t) == \E B \in Seq(Nat) : Stream = t ++ B

LEMMA ShortenedKeeps ==
  ASSUME TypeOK, NEW t \in Seq(Nat), Shortened(t)
  PROVE  /\ ToSet(t) \subseteq ToSet(Stream)
         /\ FirstInOrder(chain, Stream) => FirstInOrder(chain, t)
  <1>1. PICK B \in Seq(Nat) : Stream = t ++ B
    BY DEF Shortened
  <1>2. ToSet(t ++ B) = ToSet(t) \cup ToSet(B)
    BY SetOfConcat DEF ++
  <1>3. FirstInOrder(chain, t ++ B) => FirstInOrder(chain, t)
    BY OrderPrefix DEF ++
  <1> QED BY <1>1, <1>2, <1>3

LEMMA SameIsShortened == TypeOK => Shortened(Stream)
  <1>1. ASSUME TypeOK PROVE Stream = Stream ++ <<>> /\ <<>> \in Seq(Nat)
    BY <1>1, StreamType, ConcatEmpty
  <1> QED BY <1>1 DEF Shortened

(* The poller and the normalizer.                                           *)
LEMMA UpstreamStep ==
  ASSUME TypeOK,
         \/ PollerSend \/ Advance \/ PollerStops
         \/ StageReceive \/ StageSend \/ StageStops
  PROVE  Shortened(Stream')
  <1> USE DEF chainVars, pollerVars, skipVars, stageVars, publishVars
  <1>a. /\ {normalizing, publishing} \subseteq Nat
        /\ topic \in Seq(Nat) /\ normalized \in Seq(Nat)
        /\ rawLogs \in Seq(Nat) /\ batch \in Seq(Nat)
        /\ ToNormalize \in Seq(Nat) /\ ToPublish \in Seq(Nat)
        /\ Remaining \in Seq(Nat) /\ Stream \in Seq(Nat)
        /\ Held(normalizing) \in Seq(Nat) /\ Held(publishing) \in Seq(Nat)
    BY StreamType, HeldType
  <1>b. ASSUME Stream' = Stream PROVE Shortened(Stream')
    BY <1>b, SameIsShortened
  <1>c. ASSUME ToPublish' = ToPublish, UNCHANGED <<topic, publishing, publisher>>
        PROVE Shortened(Stream')
    BY <1>c, <1>b DEF Stream, Remaining
  <1>d. ASSUME NEW B \in Seq(Nat), ToPublish = ToPublish' ++ B, ToPublish' \in Seq(Nat),
               UNCHANGED <<topic, publishing, publisher>>
        PROVE  Shortened(Stream')
    <2>1. CASE publisher = "done"
      BY <1>b, <1>d, <2>1 DEF Stream, Remaining
    <2>2. CASE publisher # "done"
      <3>1. Stream = topic ++ (Held(publishing) ++ (ToPublish' ++ B))
            /\ Stream' = topic ++ (Held(publishing) ++ ToPublish')
        BY <1>d, <2>2 DEF Stream, Remaining
      <3>2. Stream = Stream' ++ B
        <4>1. topic ++ (Held(publishing) ++ (ToPublish' ++ B))
              = (topic ++ (Held(publishing) ++ ToPublish')) ++ B
          BY <1>a, <1>d, Associative, ConcatType, SMTT(30)
        <4> QED BY <3>1, <4>1
      <3> QED BY <3>2 DEF Shortened
    <2> QED BY <2>1, <2>2
  <1>1. CASE PollerSend
    <2>1. /\ Head(batch) \in Nat /\ Tail(batch) \in Seq(Nat)
          /\ batch = <<Head(batch)>> ++ Tail(batch)
      BY <1>1, <1>a, Uncons DEF PollerSend, ++
    <2>2. rawLogs' = rawLogs ++ <<Head(batch)>> /\ batch' = Tail(batch)
      BY <1>1, <1>a, <2>1, AppendIsConcat DEF PollerSend, ++
    <2>3. PICK one : one = <<Head(batch)>>
      OBVIOUS
    <2>4. rawLogs' ++ batch' = rawLogs ++ batch
      <3>1. one \in Seq(Nat) /\ Tail(batch) \in Seq(Nat) /\ rawLogs \in Seq(Nat)
        BY <1>a, <2>1, <2>3
      <3>2. rawLogs ++ (one ++ Tail(batch)) = (rawLogs ++ one) ++ Tail(batch)
        BY <3>1, Associative
      <3> QED BY <2>1, <2>2, <2>3, <3>2
    <2>5. ToNormalize' = ToNormalize
      BY <1>1, <2>4 DEF PollerSend, ToNormalize
    <2>6. ToPublish' = ToPublish
      BY <1>1, <2>5 DEF PollerSend, ToPublish
    <2> QED BY <1>1, <1>c, <2>6 DEF PollerSend
  <1>2. CASE Advance
    <2>1. ToNormalize' = ToNormalize
      BY <1>2, <1>a, ConcatEmpty DEF Advance, ToNormalize
    <2>2. ToPublish' = ToPublish
      BY <1>2, <2>1 DEF Advance, ToPublish
    <2> QED BY <1>2, <1>c, <2>2 DEF Advance
  <1>3. CASE PollerStops
    <2>1. CASE poller = "send" /\ normalizer # "done"
      <3>1. ToPublish = normalized ++ (Held(normalizing) ++ (rawLogs ++ batch))
            /\ ToPublish' = normalized ++ (Held(normalizing) ++ rawLogs)
        BY <1>3, <2>1 DEF PollerStops, ToPublish, ToNormalize
      <3>2. ToPublish = ToPublish' ++ batch
        <4>1. normalized ++ (Held(normalizing) ++ (rawLogs ++ batch))
              = (normalized ++ (Held(normalizing) ++ rawLogs)) ++ batch
          BY <1>a, Associative, ConcatType
        <4> QED BY <3>1, <4>1
      <3>3. ToPublish' \in Seq(Nat)
        <4>1. Held(normalizing) ++ rawLogs \in Seq(Nat)
          BY <1>a, ConcatType
        <4> QED BY <1>a, <3>1, <4>1, ConcatType
      <3> QED BY <1>3, <1>a, <1>d, <3>2, <3>3 DEF PollerStops
    <2>2. CASE poller # "send" \/ normalizer = "done"
      <3>1. ToPublish' = ToPublish
        BY <1>3, <2>2 DEF PollerStops, ToPublish, ToNormalize
      <3> QED BY <1>3, <1>c, <3>1 DEF PollerStops
    <2> QED BY <2>1, <2>2
  <1>e. ASSUME UNCHANGED normalized, normalizer # "done", normalizer' = "done",
               UNCHANGED <<topic, publishing, publisher>>
        PROVE  Shortened(Stream')
    <2>1. ToPublish = ToPublish' ++ (Held(normalizing) ++ ToNormalize)
          /\ ToPublish' = normalized
      BY <1>e DEF ToPublish
    <2>2. Held(normalizing) ++ ToNormalize \in Seq(Nat)
      BY <1>a, ConcatType
    <2> QED BY <1>a, <1>d, <1>e, <2>1, <2>2
  <1>4. CASE StageReceive
    <2>1. /\ Head(rawLogs) \in Nat \ {0} /\ Tail(rawLogs) \in Seq(Nat)
          /\ rawLogs = <<Head(rawLogs)>> ++ Tail(rawLogs)
      <3>1. Head(rawLogs) \in Blocks
        BY <1>4, HeadTailProperties DEF StageReceive, TypeOK
      <3>2. Blocks \subseteq Nat \ {0}
        BY LenProperties DEF TypeOK, Blocks
      <3> QED BY <1>4, <1>a, <3>1, <3>2, Uncons DEF StageReceive, ++
    <2>2. CASE run = "running"
      <3>1. <<Head(rawLogs)>> \in Seq(Nat)
        BY <2>1
      <3>2. <<Head(rawLogs)>> ++ ToNormalize' = ToNormalize /\ ToNormalize' \in Seq(Nat)
        <4>1. CASE poller = "send"
          <5>1. ToNormalize = rawLogs ++ batch /\ ToNormalize' = Tail(rawLogs) ++ batch
            BY <1>4, <4>1 DEF StageReceive, ToNormalize
          <5>2. PICK one : one = <<Head(rawLogs)>>
            OBVIOUS
          <5>3. one \in Seq(Nat) /\ Tail(rawLogs) \in Seq(Nat) /\ batch \in Seq(Nat)
            BY <1>a, <2>1, <3>1, <5>2
          <5>4. one ++ (Tail(rawLogs) ++ batch) = (one ++ Tail(rawLogs)) ++ batch
            BY <5>3, Associative
          <5>5. Tail(rawLogs) ++ batch \in Seq(Nat)
            BY <1>a, <5>3, ConcatType
          <5> QED BY <2>1, <5>1, <5>2, <5>4, <5>5
        <4>2. CASE poller # "send"
          BY <1>4, <2>1, <4>2 DEF StageReceive, ToNormalize
        <4> QED BY <4>1, <4>2
      <3>3. Held(normalizing)' = <<Head(rawLogs)>> /\ Held(normalizing) = <<>>
        BY <1>4, <2>1, <2>2 DEF StageReceive, Held
      <3>4. Held(normalizing)' ++ ToNormalize' = Held(normalizing) ++ ToNormalize
        BY <1>a, <3>2, <3>3, ConcatEmpty
      <3>5. ToPublish' = ToPublish
        BY <1>4, <2>2, <3>4 DEF StageReceive, ToPublish
      <3> QED BY <1>4, <1>c, <3>5 DEF StageReceive
    <2>3. CASE run # "running"
      BY <1>4, <1>e, <2>3 DEF StageReceive
    <2> QED BY <2>2, <2>3
  <1>5. CASE StageSend
    <2>1. normalizer # "done" /\ ToNormalize' = ToNormalize /\ UNCHANGED normalizer
      BY <1>5 DEF StageSend, TypeOK, ToNormalize
    <2>2. Held(normalizing) = <<normalizing>> /\ Held(normalizing)' = <<>>
      BY <1>5 DEF StageSend, Held
    <2>3. ToPublish = <<>> ++ (<<normalizing>> ++ ToNormalize)
          /\ ToPublish' = <<normalizing>> ++ (<<>> ++ ToNormalize)
      BY <1>5, <2>1, <2>2 DEF StageSend, ToPublish
    <2>4. <<normalizing>> ++ ToNormalize \in Seq(Nat)
      BY <1>a, <2>2, ConcatType
    <2>5. ToPublish' = ToPublish
      BY <1>a, <2>3, <2>4, ConcatEmpty
    <2> QED BY <1>5, <1>c, <2>5 DEF StageSend
  <1>6. CASE StageStops
    BY <1>6, <1>e DEF StageStops
  <1> QED BY <1>1, <1>2, <1>3, <1>4, <1>5, <1>6

(* The publish stage. A publish that was applied although it failed repeats *)
(* its event right away.                                                    *)
LEMMA DownstreamStep ==
  ASSUME TypeOK, PublishReceive \/ Publish \/ PublishFails \/ PublisherStops,
         topic' \in Seq(Nat),
         NEW t \in Seq(Nat), t = Stream'
  PROVE  /\ ToSet(t) \subseteq ToSet(Stream)
         /\ FirstInOrder(chain, Stream) => FirstInOrder(chain, t)
  <1> USE DEF chainVars, pollerVars, skipVars, stageVars, publishVars
  <1>a. /\ {normalizing, publishing} \subseteq Nat
        /\ topic \in Seq(Nat) /\ normalized \in Seq(Nat)
        /\ ToNormalize \in Seq(Nat) /\ ToPublish \in Seq(Nat)
        /\ Remaining \in Seq(Nat) /\ Stream \in Seq(Nat)
        /\ Held(normalizing) \in Seq(Nat) /\ Held(publishing) \in Seq(Nat)
    BY StreamType, HeldType
  <1>b. Shortened(t) => /\ ToSet(t) \subseteq ToSet(Stream)
                        /\ FirstInOrder(chain, Stream) => FirstInOrder(chain, t)
    BY ShortenedKeeps
  <1>c. t = Stream => Shortened(t)
    BY SameIsShortened
  <1>1. CASE PublishReceive
    <2>1. /\ Head(normalized) \in Nat \ {0} /\ Tail(normalized) \in Seq(Nat)
          /\ normalized = <<Head(normalized)>> ++ Tail(normalized)
      <3>1. Head(normalized) \in Blocks
        BY <1>1, HeadTailProperties DEF PublishReceive, TypeOK
      <3>2. Blocks \subseteq Nat \ {0}
        BY LenProperties DEF TypeOK, Blocks
      <3> QED BY <1>1, <1>a, <3>1, <3>2, Uncons DEF PublishReceive, ++
    <2>2. PICK one : one = <<Head(normalized)>>
      OBVIOUS
    <2>a. one \in Seq(Nat) /\ Tail(normalized) \in Seq(Nat)
      BY <2>1, <2>2
    <2>3. one ++ ToPublish' = ToPublish /\ ToPublish' \in Seq(Nat)
      <3> DEFINE X == Held(normalizing) ++ ToNormalize
      <3>1. X \in Seq(Nat) /\ X' = X
        BY <1>1, <1>a, ConcatType DEF PublishReceive, ToNormalize, Held
      <3>2. CASE normalizer = "done"
        BY <1>1, <2>1, <2>2, <3>2 DEF PublishReceive, ToPublish
      <3>3. CASE normalizer # "done"
        <4>1. ToPublish = normalized ++ X /\ ToPublish' = Tail(normalized) ++ X
          BY <1>1, <3>1, <3>3 DEF PublishReceive, ToPublish
        <4> HIDE DEF X
        <4>a. PICK tl : tl = Tail(normalized)
          OBVIOUS
        <4>b. one \in Seq(Nat) /\ tl \in Seq(Nat) /\ X \in Seq(Nat)
          BY <2>a, <3>1, <4>a
        <4>c. one ++ (tl ++ X) = (one ++ tl) ++ X
          BY <4>b, Associative
        <4>2. one ++ (Tail(normalized) ++ X) = (one ++ Tail(normalized)) ++ X
          BY <4>a, <4>c
        <4>3. Tail(normalized) ++ X \in Seq(Nat)
          BY <2>a, <3>1, ConcatType
        <4> QED BY <2>1, <2>2, <4>1, <4>2, <4>3
      <3> QED BY <3>2, <3>3
    <2>4. Held(publishing)' = one /\ Held(publishing) = <<>>
      BY <1>1, <2>1, <2>2 DEF PublishReceive, Held
    <2>5. Remaining' = Remaining
      <3>1. publisher = "running" /\ publisher' = "running"
        BY <1>1 DEF PublishReceive
      <3>2. Remaining = <<>> ++ ToPublish /\ Remaining' = one ++ ToPublish'
        BY <2>4, <3>1 DEF Remaining
      <3> QED BY <1>a, <2>3, <3>2, ConcatEmpty
    <2>6. Stream' = Stream
      BY <1>1, <2>5 DEF PublishReceive, Stream
    <2> QED BY <1>b, <1>c, <2>6
  <1>d. ASSUME publishing # 0
        PROVE  /\ Append(topic, publishing) = topic ++ Held(publishing)
               /\ topic ++ Held(publishing) \in Seq(Nat)
               /\ Stream = topic ++ (Held(publishing) ++ ToPublish)
               /\ Stream = (topic ++ Held(publishing)) ++ ToPublish
    <2>1. Held(publishing) = <<publishing>>
      BY <1>d DEF Held
    <2>2. Append(topic, publishing) = topic ++ <<publishing>>
      BY <1>a, AppendIsConcat DEF ++
    <2>3. topic ++ Held(publishing) \in Seq(Nat)
      BY <1>a, ConcatType
    <2>4. publisher # "done"
      BY <1>d DEF TypeOK
    <2>5. Stream = topic ++ (Held(publishing) ++ ToPublish)
      BY <2>4 DEF Stream, Remaining
    <2>6. Stream = (topic ++ Held(publishing)) ++ ToPublish
      BY <1>a, <2>5, Associative
    <2> QED BY <2>1, <2>2, <2>3, <2>5, <2>6
  <1>2. CASE Publish
    <2>1. topic' = topic ++ Held(publishing) /\ topic' \in Seq(Nat)
      BY <1>2, <1>d DEF Publish
    <2>2. publisher' # "done" /\ Held(publishing)' = <<>> /\ ToPublish' = ToPublish
      BY <1>2 DEF Publish, TypeOK, Held, ToPublish, ToNormalize
    <2>3. Stream' = topic' ++ (<<>> ++ ToPublish)
      BY <2>2 DEF Stream, Remaining
    <2>4. Stream' = Stream
      BY <1>2, <1>a, <1>d, <2>1, <2>3, ConcatEmpty DEF Publish
    <2> QED BY <1>b, <1>c, <2>4
  <1>3. CASE PublishFails
    <2>1. publishing # 0 /\ ToPublish' = ToPublish
      BY <1>3 DEF PublishFails, ToPublish, ToNormalize
    <2>2. topic' = topic \/ topic' = topic ++ Held(publishing)
      BY <1>3, <1>d, <2>1 DEF PublishFails, Written
    <2>3. CASE run # "running"
      <3>1. Stream' = topic'
        <4>1. Stream' = topic' ++ <<>>
          BY <1>3, <2>3 DEF PublishFails, Stream, Remaining
        <4> QED BY <4>1, ConcatEmpty
      <3>2. CASE topic' = topic
        BY <1>a, <1>b, <3>1, <3>2 DEF Shortened, Stream
      <3>3. CASE topic' = topic ++ Held(publishing)
        BY <1>a, <1>b, <1>d, <2>1, <3>1, <3>3 DEF Shortened
      <3> QED BY <2>2, <3>2, <3>3
    <2>4. CASE run = "running" /\ topic' = topic
      <3>1. Stream' = Stream
        BY <1>3, <2>1, <2>4 DEF PublishFails, Stream, Remaining, Held
      <3> QED BY <1>b, <1>c, <3>1
    <2>5. CASE run = "running" /\ topic' = topic ++ Held(publishing)
      <3>1. Held(publishing)' = Held(publishing) /\ publisher' # "done"
        BY <1>3, <2>1, <2>5 DEF PublishFails, Held, TypeOK
      <3>2. t = (topic ++ Held(publishing)) ++ (Held(publishing) ++ ToPublish)
        BY <2>1, <2>5, <3>1 DEF Stream, Remaining
      <3>3. Held(publishing) = <<publishing>> /\ publishing \in Nat
        BY <1>a, <2>1 DEF Held
      <3>4. FirstInOrder(chain, Stream) => FirstInOrder(chain, t)
        <4>1. FirstInOrder(chain, topic \o (<<publishing>> \o ToPublish)) =>
              FirstInOrder(chain, (topic \o <<publishing>>) \o (<<publishing>> \o ToPublish))
          BY <1>a, <3>3, OrderRepeat
        <4> QED BY <1>d, <2>1, <3>2, <3>3, <4>1 DEF ++
      <3>5. ToSet(t) \subseteq ToSet(Stream)
        <4>1. PICK h \in Seq(Nat) : h = Held(publishing)
          BY <1>a
        <4>2. PICK r \in Seq(Nat) : r = ToPublish
          BY <1>a
        <4>3. /\ topic ++ h \in Seq(Nat) /\ h ++ r \in Seq(Nat)
              /\ ToSet(h ++ r) = ToSet(h) \cup ToSet(r)
              /\ ToSet(topic ++ h) = ToSet(topic) \cup ToSet(h)
          BY <1>a, SetOfConcat, ConcatType DEF ++
        <4>4. \A x, y \in Seq(Nat) : ToSet(x ++ y) = ToSet(x) \cup ToSet(y)
          BY SetOfConcat DEF ++
        <4>5. /\ ToSet((topic ++ h) ++ (h ++ r)) = ToSet(topic ++ h) \cup ToSet(h ++ r)
              /\ ToSet(topic ++ (h ++ r)) = ToSet(topic) \cup ToSet(h ++ r)
          BY <1>a, <4>3, <4>4
        <4> QED BY <1>d, <2>1, <3>2, <4>1, <4>2, <4>3, <4>5
      <3> QED BY <3>4, <3>5
    <2> QED BY <2>2, <2>3, <2>4, <2>5
  <1>4. CASE PublisherStops
    <2>1. Stream' = topic
      <3>1. Stream' = topic ++ <<>>
        BY <1>4 DEF PublisherStops, Stream, Remaining
      <3> QED BY <1>a, <3>1, ConcatEmpty
    <2> QED BY <1>a, <1>b, <2>1 DEF Shortened, Stream
  <1> QED BY <1>1, <1>2, <1>3, <1>4

LEMMA StreamStep ==
  ASSUME TypeOK, TypeOK', [Next]_vars, ~FetchIncoming, NEW t, t = Stream'
  PROVE  /\ t \in Seq(Nat) /\ ToSet(t) \subseteq ToSet(Stream)
         /\ StreamInOrder => FirstInOrder(chain', t)
  <1> USE DEF chainVars, pollerVars, skipVars, stageVars, publishVars, StreamInOrder
  <1>a. /\ topic \in Seq(Nat) /\ Remaining \in Seq(Nat) /\ Stream \in Seq(Nat)
        /\ ToSet(Stream) \subseteq Blocks
    BY StreamType
  <1>b. (TypeOK => Stream \in Seq(Nat) /\ topic \in Seq(Nat))'
    BY StreamType, PTL
  <1>c. t \in Seq(Nat) /\ topic' \in Seq(Nat)
    BY <1>b
  <1>d. Shortened(t) => /\ ToSet(t) \subseteq ToSet(Stream)
                        /\ FirstInOrder(chain, Stream) => FirstInOrder(chain, t)
    BY <1>c, ShortenedKeeps
  <1>e. t = Stream => Shortened(t)
    BY SameIsShortened
  <1>1. ASSUME NEW m \in Transfers \cup {NULL}, Mine(m)
        PROVE  /\ ToSet(t) \subseteq ToSet(Stream)
               /\ StreamInOrder => FirstInOrder(chain', t)
    <2>1. t = Stream
      BY <1>1 DEF Mine, Stream, Remaining, ToPublish, ToNormalize, Held
    <2>2. \A b \in ToSet(Stream) : chain[b] = chain'[b]
      BY <1>1, <1>a, MineType
    <2>3. PICK d : d = chain'
      OBVIOUS
    <2>4. FirstInOrder(chain, Stream) => FirstInOrder(d, Stream)
      BY <1>a, <2>2, <2>3, OrderSameLogs
    <2> QED BY <2>1, <2>3, <2>4
  <1>2. CASE Start \/ Cancel \/ FetchOutgoing \/ FetchFails \/ UNCHANGED vars
    <2>1. /\ UNCHANGED <<chain, topic, rawLogs, normalized, normalizing,
                         normalizer, publishing, publisher>>
          /\ poller = "send" <=> poller' = "send"
          /\ poller = "send" => UNCHANGED batch
      BY <1>2 DEF Start, Cancel, Stopped, FetchOutgoing, FetchFails, vars
    <2>2. ToNormalize' = ToNormalize
      BY <2>1 DEF ToNormalize
    <2>3. ToPublish' = ToPublish
      BY <2>1, <2>2 DEF ToPublish, Held
    <2>4. t = Stream
      BY <2>1, <2>3 DEF Stream, Remaining, Held
    <2> QED BY <1>c, <1>d, <1>e, <2>1, <2>4
  <1>3. CASE Return \/ Crash
    <2>1. UNCHANGED <<chain, topic>> /\ Fresh
      BY <1>3 DEF Return, Crash
    <2>2. /\ ToNormalize' = <<>> /\ Held(normalizing)' = <<>>
          /\ Held(publishing)' = <<>> /\ normalized' = <<>>
          /\ normalizer' # "done" /\ publisher' # "done"
      BY <2>1 DEF Fresh, ToNormalize, Held
    <2>3. <<>> ++ <<>> = <<>>
      <3>1. <<>> \in Seq(Nat)
        OBVIOUS
      <3> QED BY <3>1, ConcatEmpty
    <2>4. ToPublish' = <<>>
      BY <2>2, <2>3 DEF ToPublish
    <2>5. Remaining' = <<>>
      BY <2>2, <2>3, <2>4 DEF Remaining
    <2>6. t = topic
      BY <1>a, <2>1, <2>5, ConcatEmpty DEF Stream
    <2>7. Shortened(t)
      BY <1>a, <2>6 DEF Shortened, Stream
    <2> QED BY <1>c, <1>d, <2>1, <2>7
  <1>4. CASE PollerSend \/ Advance \/ PollerStops \/ StageReceive \/ StageSend \/ StageStops
    <2>1. Shortened(t)
      BY <1>4, UpstreamStep
    <2>2. UNCHANGED chain
      BY <1>4 DEF PollerSend, Advance, PollerStops, StageReceive, StageSend, StageStops
    <2> QED BY <1>c, <1>d, <2>1, <2>2
  <1>5. CASE PublishReceive \/ Publish \/ PublishFails \/ PublisherStops
    <2>1. UNCHANGED chain
      BY <1>5 DEF PublishReceive, Publish, PublishFails, PublisherStops
    <2> QED BY <1>5, <1>c, <2>1, DownstreamStep
  <1> QED BY <1>c, <1>1, <1>2, <1>3, <1>4, <1>5 DEF Next

(* The second half of a poll adds its logs to the end of the stream.        *)
LEMMA IncomingStep ==
  ASSUME TypeOK, TypeOK', Marks, StreamInOrder, BehindMark, FirstHalf, FetchIncoming
  PROVE  StreamInOrder' /\ BehindNext'
  <1> USE DEF chainVars, pollerVars, skipVars, stageVars, publishVars
  <1> DEFINE S == IncomingLogs(lastBlock)
  <1>1. PICK incoming \in Ascending(S) : batch' = batch \o incoming
    BY DEF FetchIncoming
  <1>2. /\ Latest \in Nat /\ Blocks = 1 .. Latest /\ Latest > 0
        /\ lastBlock \in Nat /\ lastBlock <= Latest /\ batch \in Seq(Blocks)
    <2>1. Latest \in Nat /\ Blocks = 1 .. Latest
      BY LenProperties DEF TypeOK, Latest, Blocks
    <2>2. lastBlock \in Blocks \cup {0} /\ batch \in Seq(Blocks) /\ Latest > 0
      BY DEF TypeOK, Marks, FetchIncoming, Latest
    <2> QED BY <2>1, <2>2
  <1>3. \A y \in S : /\ y \in 1 .. Latest /\ chain[y] \in Transfers
                     /\ lastBlock > 0 => y >= lastBlock
                     /\ lastBlock = 0 => y = Latest
    BY <1>2 DEF IncomingLogs, Logs
  <1> HIDE DEF S
  <1>4. /\ incoming \in Seq(Blocks) /\ ToSet(incoming) = S
        /\ \A i, j \in DOMAIN incoming : i < j => incoming[i] < incoming[j]
    <2>1. S \subseteq 1 .. Latest
      BY <1>3
    <2>2. /\ incoming \in Seq(S) /\ ToSet(incoming) = S
          /\ \A i, j \in DOMAIN incoming : i < j => incoming[i] < incoming[j]
      BY <1>1, <1>2, <2>1, AscendingType
    <2> QED BY <1>2, <2>1, <2>2, SeqMonotonic
  <1>5. /\ topic \in Seq(Nat) /\ normalized \in Seq(Nat)
        /\ rawLogs \in Seq(Nat) /\ Stream \in Seq(Nat)
        /\ Held(normalizing) \in Seq(Nat) /\ Held(publishing) \in Seq(Nat)
        /\ ToSet(Stream) \subseteq Blocks
    BY StreamType, HeldType
  <1>6. incoming \in Seq(Nat) /\ batch \in Seq(Nat) /\ ToSet(batch) \subseteq Blocks
    BY <1>2, <1>4, SeqMonotonic, SetOfType
  <1>7. PICK t : t = Stream'
    OBVIOUS
  <1>8. PICK B : B = batch'
    OBVIOUS
  <1>9. B = batch ++ incoming /\ B \in Seq(Nat)
    BY <1>1, <1>6, <1>8, ConcatType DEF ++
  <1>10. t = Stream \/ t = Stream ++ B
    <2>1. UNCHANGED <<topic, rawLogs, normalized, normalizing, normalizer,
                      publishing, publisher>>
          /\ poller = "incoming" /\ poller' = "send"
      BY DEF FetchIncoming
    <2>2. ToNormalize = rawLogs /\ ToNormalize' = rawLogs ++ B
      BY <1>8, <2>1 DEF ToNormalize
    <2>3. CASE publisher = "done" \/ normalizer = "done"
      BY <1>7, <2>1, <2>3 DEF Stream, Remaining, ToPublish, Held
    <2>4. CASE publisher # "done" /\ normalizer # "done"
      <3> DEFINE n == Held(normalizing)  p == Held(publishing)
      <3>1. /\ Stream = topic ++ (p ++ (normalized ++ (n ++ rawLogs)))
            /\ t = topic ++ (p ++ (normalized ++ (n ++ (rawLogs ++ B))))
        BY <1>7, <2>1, <2>2, <2>4 DEF Stream, Remaining, ToPublish, Held
      <3>2. n \in Seq(Nat) /\ p \in Seq(Nat)
        BY <1>5
      <3> HIDE DEF n, p
      <3>3. /\ n ++ rawLogs \in Seq(Nat)
            /\ n ++ (rawLogs ++ B) = (n ++ rawLogs) ++ B
        BY <1>5, <1>9, <3>2, ConcatType, Associative
      <3>4. /\ normalized ++ (n ++ rawLogs) \in Seq(Nat)
            /\ normalized ++ ((n ++ rawLogs) ++ B) = (normalized ++ (n ++ rawLogs)) ++ B
        BY <1>5, <1>9, <3>3, ConcatType, Associative
      <3>5. /\ p ++ (normalized ++ (n ++ rawLogs)) \in Seq(Nat)
            /\ p ++ ((normalized ++ (n ++ rawLogs)) ++ B)
               = (p ++ (normalized ++ (n ++ rawLogs))) ++ B
        BY <1>9, <3>2, <3>4, ConcatType, Associative
      <3>6. topic ++ ((p ++ (normalized ++ (n ++ rawLogs))) ++ B)
            = (topic ++ (p ++ (normalized ++ (n ++ rawLogs)))) ++ B
        BY <1>5, <1>9, <3>5, Associative
      <3> QED BY <3>1, <3>3, <3>4, <3>5, <3>6
    <2> QED BY <2>3, <2>4
  <1>11. \A x \in ToSet(Stream), y \in ToSet(batch) \cup S : x <= y
    <2>1. ASSUME NEW x \in ToSet(Stream), NEW y \in ToSet(batch) PROVE x <= y
      BY DEF FirstHalf, FetchIncoming
    <2>2. ASSUME NEW x \in ToSet(Stream), NEW y \in S PROVE x <= y
      <3>1. x \in 1 .. Latest /\ y \in 1 .. Latest
        BY <1>2, <1>3, <1>5
      <3>2. lastBlock > 0 => x <= lastBlock
        BY DEF BehindMark, FetchIncoming
      <3> QED BY <1>2, <1>3, <3>1, <3>2
    <2> QED BY <2>1, <2>2
  <1>12. StreamInOrder'
    <2>1. FirstInOrder(chain, Stream \o (batch \o incoming))
      <3>1. \A x \in ToSet(batch) : IsOut(chain, x)
        BY DEF FirstHalf, FetchIncoming, IsOut, Outgoing
      <3>2. ASSUME NEW x \in ToSet(batch), NEW y \in ToSet(incoming)
            PROVE  x <= y \/ ~IsOut(chain, y) \/ y \in ToSet(batch)
        <4>1. y \in S /\ y \in 1 .. Latest /\ x \in 1 .. Latest /\ chain[y] \in Transfers
          BY <1>2, <1>3, <1>4, <1>6
        <4>2. CASE lastBlock = 0
          BY <1>2, <1>3, <4>1, <4>2
        <4>3. CASE lastBlock > 0 /\ ~(x <= y) /\ IsOut(chain, y)
          <5>1. y \in lastBlock .. x
            BY <1>2, <1>3, <4>1, <4>3
          <5> QED BY <4>1, <4>3, <5>1 DEF FirstHalf, FetchIncoming, IsOut, Outgoing
        <4> QED BY <1>2, <4>2, <4>3
      <3>3. \A i, j \in DOMAIN batch : i < j => batch[i] < batch[j]
        BY DEF FirstHalf, FetchIncoming
      <3>4. FirstInOrder(chain, Stream)
        BY DEF StreamInOrder
      <3>5. \A x \in ToSet(Stream), y \in ToSet(batch) \cup ToSet(incoming) : x <= y
        BY <1>4, <1>11
      <3> QED BY <1>4, <1>5, <1>6, <3>1, <3>2, <3>3, <3>4, <3>5, OrderExtend
    <2>2. FirstInOrder(chain, t)
      BY <1>9, <1>10, <2>1 DEF StreamInOrder, ++
    <2>3. UNCHANGED chain
      BY DEF FetchIncoming
    <2> QED BY <1>7, <2>2, <2>3 DEF StreamInOrder
  <1>13. BehindNext'
    <2>1. ToSet(B) = ToSet(batch) \cup S
      BY <1>4, <1>6, <1>9, SetOfConcat DEF ++
    <2>2. ToSet(t) \subseteq ToSet(Stream) \cup ToSet(B)
      <3>1. ToSet(Stream ++ B) = ToSet(Stream) \cup ToSet(B)
        <4>1. \A x, y \in Seq(Nat) : ToSet(x ++ y) = ToSet(x) \cup ToSet(y)
          BY SetOfConcat DEF ++
        <4> QED BY <1>5, <1>9, <4>1
      <3> QED BY <1>10, <3>1
    <2>3. /\ newBlock' \in {0} \cup ToSet(B)
          /\ \A x \in ToSet(B) : x <= newBlock'
      <3>1. newBlock' = Max({0} \cup ToSet(B))
        BY <1>8 DEF FetchIncoming
      <3>2. ToSet(B) \subseteq 1 .. Latest
        BY <1>2, <1>3, <1>6, <2>1
      <3> QED BY <1>2, <3>1, <3>2, MaxOfLogs
    <2>4. ASSUME lastBlock > 0 \/ newBlock' > 0, NEW x \in ToSet(t)
          PROVE  x <= lastBlock \/ x <= newBlock'
      <3>1. CASE x \in ToSet(B)
        BY <2>3, <3>1
      <3>2. CASE x \in ToSet(Stream) /\ lastBlock > 0
        BY <3>2 DEF BehindMark, FetchIncoming
      <3>3. CASE x \in ToSet(Stream) /\ newBlock' > 0
        <4>1. newBlock' \in ToSet(batch) \cup S
          BY <2>1, <2>3, <3>3
        <4> QED BY <1>11, <3>3, <4>1
      <3> QED BY <2>2, <2>4, <3>1, <3>2, <3>3
    <2>5. lastBlock' = lastBlock
      BY DEF FetchIncoming
    <2> QED BY <1>7, <2>4, <2>5 DEF BehindNext
  <1> QED BY <1>12, <1>13

LEMMA OrderStep ==
  ASSUME TypeOK, TypeOK', Marks, StreamInOrder, BehindMark, FirstHalf, BehindNext,
         [Next]_vars
  PROVE  StreamInOrder' /\ BehindMark' /\ FirstHalf' /\ BehindNext'
  <1> USE DEF chainVars, pollerVars, skipVars, stageVars, publishVars
  <1>a. /\ Latest \in Nat /\ Blocks = 1 .. Latest
        /\ {lastBlock, newBlock} \subseteq Nat
        /\ batch \in Seq(Blocks) /\ ToSet(batch) \subseteq Blocks
        /\ ToSet(Stream) \subseteq Blocks
    <2>1. Latest \in Nat /\ Blocks = 1 .. Latest /\ batch \in Seq(Blocks)
      BY LenProperties DEF TypeOK, Latest, Blocks
    <2>2. ToSet(batch) \subseteq Blocks
      BY <2>1, SetOfType
    <2> QED BY <2>1, <2>2, StreamType
  <1>1. CASE FetchIncoming
    <2>1. poller' = "send"
      BY <1>1 DEF FetchIncoming
    <2> QED BY <1>1, <2>1, IncomingStep DEF BehindMark, FirstHalf
  <1>2. CASE ~FetchIncoming
    <2> PICK t : t = Stream'
      OBVIOUS
    <2>1. ToSet(t) \subseteq ToSet(Stream) /\ FirstInOrder(chain', t)
      BY <1>2, StreamStep
    <2>2. StreamInOrder'
      BY <2>1 DEF StreamInOrder
    <2>3. CASE FetchOutgoing
      <3> DEFINE S == OutgoingLogs(lastBlock)
      <3>1. PICK B : B = batch'
        OBVIOUS
      <3>2. /\ poller = "select" /\ poller' = "incoming" /\ B \in Ascending(S)
            /\ lastBlock' = lastBlock /\ chain' = chain
        BY <2>3, <3>1 DEF FetchOutgoing
      <3>3. \A y : y \in S <=>
                      /\ y \in 1 .. Latest /\ chain[y] \in Transfers /\ Outgoing(y)
                      /\ y >= IF lastBlock = 0 THEN Latest ELSE lastBlock
        BY DEF OutgoingLogs, Logs, Outgoing
      <3> HIDE DEF S
      <3>4. ToSet(B) = S /\ \A i, j \in DOMAIN B : i < j => B[i] < B[j]
        BY <1>a, <3>2, <3>3, AscendingType
      <3>5. BehindMark'
        BY <2>1, <3>2 DEF BehindMark
      <3>6. BehindNext'
        BY <3>2 DEF BehindNext
      <3>7. ASSUME NEW x \in ToSet(t), NEW y \in ToSet(B) PROVE x <= y
        <4>1. y \in S /\ x \in 1 .. Latest /\ (lastBlock > 0 => x <= lastBlock)
          BY <1>a, <2>1, <3>2, <3>4 DEF BehindMark
        <4> QED BY <1>a, <3>3, <4>1
      <3>8. ASSUME lastBlock > 0, NEW x \in ToSet(B), NEW y \in lastBlock .. x,
                   chain[y] \in Transfers /\ Outgoing(y)
            PROVE  y \in ToSet(B)
        BY <1>a, <3>3, <3>4, <3>8
      <3>9. \A y : Outgoing(y)' <=> Outgoing(y)
        BY <3>2 DEF Outgoing
      <3>10. \A y \in ToSet(B) : chain[y] \in Transfers /\ Outgoing(y)
        BY <3>3, <3>4
      <3>11. FirstHalf'
        BY <3>1, <3>2, <3>4, <3>7, <3>8, <3>9, <3>10 DEF FirstHalf
      <3> QED BY <2>2, <3>5, <3>6, <3>11
    <2>4. CASE Advance
      <3>1. poller = "send" /\ poller' = "select"
            /\ lastBlock' = IF newBlock > lastBlock THEN newBlock ELSE lastBlock
        BY <2>4 DEF Advance
      <3>2. \A x \in ToSet(t) : x \in Nat
        BY <1>a, <2>1
      <3>3. BehindMark'
        BY <1>a, <2>1, <3>1, <3>2 DEF BehindMark, BehindNext
      <3> QED BY <2>2, <3>1, <3>3 DEF FirstHalf, BehindNext
    <2>5. CASE Return \/ Crash
      <3>1. poller' = "select" /\ lastBlock' = 0
        BY <2>5 DEF Return, Crash, Fresh
      <3> QED BY <2>2, <3>1 DEF BehindMark, FirstHalf, BehindNext
    <2>6. CASE ~FetchOutgoing /\ ~Advance /\ ~Return /\ ~Crash
      <3>1. /\ lastBlock' = lastBlock /\ newBlock' = newBlock
            /\ poller' \in {"select", "incoming"} => poller \in {"select", "incoming"}
            /\ poller' = "incoming" => poller = "incoming" /\ batch' = batch
            /\ poller' = "send" => poller = "send"
        BY <1>2, <2>6 DEF Next, vars, Mine, Start, Cancel, FetchFails, PollerSend,
             PollerStops, StageReceive, StageSend, StageStops, PublishReceive,
             Publish, PublishFails, PublisherStops
      <3>2. \A b \in Blocks : chain'[b] = chain[b]
        <4>1. chain' = chain \/ \E m \in Transfers \cup {NULL} : Mine(m)
          BY <1>2, <2>6 DEF Next, vars, Start, Cancel, FetchFails, PollerSend,
             PollerStops, StageReceive, StageSend, StageStops, PublishReceive,
             Publish, PublishFails, PublisherStops
        <4> QED BY <4>1, MineType
      <3>3. BehindMark'
        BY <2>1, <3>1 DEF BehindMark
      <3>4. BehindNext'
        BY <2>1, <3>1 DEF BehindNext
      <3>5. FirstHalf'
        <4>1. \A y \in Blocks : (chain[y] \in Transfers /\ Outgoing(y)) <=>
                                (chain'[y] \in Transfers /\ Outgoing(y)')
          BY <3>2 DEF Outgoing
        <4>2. CASE poller' = "incoming"
          <5> DEFINE B == batch
          <5>1. poller = "incoming" /\ batch' = batch /\ lastBlock' = lastBlock
            BY <3>1, <4>2
          <5>2. \A y \in ToSet(batch) : chain'[y] \in Transfers /\ Outgoing(y)'
            BY <1>a, <4>1, <5>1 DEF FirstHalf
          <5>3. \A x \in ToSet(t), y \in ToSet(batch) : x <= y
            BY <2>1, <5>1 DEF FirstHalf
          <5>4. ASSUME lastBlock > 0, NEW x \in ToSet(batch), NEW y \in lastBlock .. x,
                       chain'[y] \in Transfers /\ Outgoing(y)'
                PROVE  y \in ToSet(batch)
            <6>1. y \in Blocks
              BY <1>a, <5>4
            <6> QED BY <4>1, <5>1, <5>4, <6>1 DEF FirstHalf
          <5>5. \A i, j \in DOMAIN batch : i < j => batch[i] < batch[j]
            BY <5>1 DEF FirstHalf
          <5> QED BY <5>1, <5>2, <5>3, <5>4, <5>5 DEF FirstHalf
        <4> QED BY <4>2 DEF FirstHalf
      <3> QED BY <2>2, <3>3, <3>4, <3>5
    <2> QED BY <2>3, <2>4, <2>5, <2>6
  <1> QED BY <1>1, <1>2

-----------------------------------------------------------------------------
(* The inductive invariant holds: of the watcher's three goroutines and its *)
(* node, in every interleaving, with crashes, cancellation and failing      *)
(* requests and publishes.                                                  *)
THEOREM Invariance == Spec => []IInv
  <1>1. Init => IInv
    <2> SUFFICES ASSUME Init PROVE IInv
      OBVIOUS
    <2>1. TypeOK /\ OffIsFresh /\ Marks
      BY TypeInit
    <2>2. poller = "select" /\ run = "off" /\ lastBlock = 0
      BY DEF Init
    <2>3. StreamInOrder
      <3>1. <<>> ++ <<>> = <<>>
        <4>1. <<>> \in Seq(Nat)
          OBVIOUS
        <4> QED BY <4>1, ConcatEmpty
      <3>2. Stream = <<>>
        BY <3>1 DEF Init, Stream, Remaining, ToPublish, ToNormalize, Held
      <3>3. \A i \in DOMAIN <<>> : FALSE
        OBVIOUS
      <3> QED BY <3>2, <3>3 DEF StreamInOrder, FirstInOrder
    <2> QED BY <2>1, <2>2, <2>3 DEF IInv, OnlyRacedSkipped, AskedCovered,
              PollCovers, BehindMark, FirstHalf, BehindNext
  <1>2. IInv /\ [Next]_vars => IInv'
    <2> SUFFICES ASSUME IInv, [Next]_vars PROVE IInv'
      OBVIOUS
    <2> USE DEF IInv
    <2>1. TypeOK' /\ OffIsFresh' /\ Marks'
      BY TypeStep, OffStep, MarksStep
    <2>2. OnlyRacedSkipped' /\ AskedCovered' /\ PollCovers'
      BY <2>1, SkipStep, AskedStep
    <2>3. StreamInOrder' /\ BehindMark' /\ FirstHalf' /\ BehindNext'
      BY <2>1, OrderStep
    <2> QED BY <2>1, <2>2, <2>3
  <1> QED BY <1>1, <1>2, PTL DEF Spec

(* Channels hold logs of the chain within their capacity, and a goroutine   *)
(* that has returned holds nothing (watcher.go, Run).                       *)
THEOREM TypeCorrect == Spec => []TypeOK
  <1>1. IInv => TypeOK
    BY DEF IInv
  <1> QED BY <1>1, Invariance, PTL

(* From the first block it has fetched to lastBlock, a running watcher      *)
(* passes over no transfer, incoming or outgoing, but those mined between   *)
(* the two requests of one poll: the outgoing ones, and in its first        *)
(* productive poll, where both requests ask for "latest" (FetchLogs), the   *)
(* incoming ones too.                                                       *)
THEOREM NothingSkipped == Spec => []OnlyRacedSkipped
  <1>1. IInv => OnlyRacedSkipped
    BY DEF IInv
  <1> QED BY <1>1, Invariance, PTL

(* The first publications of a wallet's events are in the order of the      *)
(* chain, per direction, across polls, repeated publishes and restarts.     *)
THEOREM TopicInOrder == Spec => []InOrderPerDirection
  <1>1. IInv => InOrderPerDirection
    <2> SUFFICES ASSUME IInv PROVE InOrderPerDirection
      OBVIOUS
    <2>1. topic \in Seq(Nat) /\ Remaining \in Seq(Nat)
      BY StreamType DEF IInv
    <2>2. FirstInOrder(chain, topic \o Remaining)
      BY DEF IInv, StreamInOrder, Stream, ++
    <2>3. FirstInOrder(chain, topic)
      BY <2>1, <2>2, OrderPrefix
    <2> QED BY <2>3 DEF InOrderPerDirection, FirstInOrder, IsOut, Whose, Outgoing, Wallet
  <1> QED BY <1>1, Invariance, PTL

-----------------------------------------------------------------------------
(***************************************************************************)
(* snapshot-runner                                                          *)
(***************************************************************************)

(* The parts of Copies: where a wallet is.                                  *)
Busy == {"process", "send"}
Positions(s, w) == {i \in DOMAIN s : s[i] = w}
Firsts(s)       == [i \in DOMAIN s |-> s[i][1]]
Unsent(w)       == Cardinality(Positions(toSend, w))
Queued(w)       == Cardinality(Positions(walletCh, w))
HeldBy(w)       == {k \in Workers : worker[k] \in Busy /\ wallet[k] = w}
Working(w)      == Cardinality(HeldBy(w))
Found(w)        == Cardinality(Positions(Firsts(resultCh), w))
Read(w)         == Cardinality(collected \cap {w})

Capacity ==
    Len(toSend) + Len(walletCh) <= Cardinality(Wallets)

BusyHasWallet == \A k \in Workers : worker[k] \in Busy => wallet[k] \in Wallets

(* Before the context ends nothing closes early.                            *)
ClosedInOrder ==
    ~expired =>
        /\ generator = "done" => toSend = <<>>
        /\ \A k \in Workers :
              worker[k] = "done" => generator = "done" /\ walletCh = <<>>

(* What each stage of the run leaves behind.                                *)
StageOrder ==
    /\ stage \in {"start", "collect"} => stored = {} /\ answer = Nil
    /\ stage = "start" => row = "none"
    /\ stage = "collect" => row = "pending"
    /\ stage = "persist" =>
          /\ row = "pending" /\ answer \in {"completed", "failed"}
          /\ resultCh = <<>>
          /\ \A k \in Workers : worker[k] = "done"
    /\ row \in {"completed", "failed"} =>
          stage = "returned" /\ row = answer
    /\ row = "completed" => collected = Wallets

(* A wallet with an error has no items, and the answer tells which.         *)
AnswerIsTrue ==
    /\ \A x \in items \cup stored : x[1] \in collected \ errors
    /\ stage \in {"persist", "returned"} =>
          /\ answer = "completed" => errors # Wallets
          /\ answer = "failed" => errors # {} /\ items = {} /\ stored = {}

SnapshotInv ==
    /\ SnapshotTypeOK /\ EveryWalletOnce
    /\ Capacity /\ BusyHasWallet /\ ClosedInOrder /\ StageOrder /\ AnswerIsTrue

-----------------------------------------------------------------------------
(* How often an element occurs in a sequence.                               *)

LEMMA PositionsType ==
  ASSUME NEW S, NEW s \in Seq(S), NEW w
  PROVE  IsFiniteSet(Positions(s, w)) /\ Cardinality(Positions(s, w)) \in Nat
  <1>1. Len(s) \in Nat /\ Positions(s, w) \subseteq 1 .. Len(s)
    BY DEF Positions
  <1>2. IsFiniteSet(1 .. Len(s))
    BY <1>1, FS_Interval
  <1>3. IsFiniteSet(Positions(s, w))
    BY <1>1, <1>2, FS_Subset
  <1> QED
    BY <1>3, FS_CardinalityType

LEMMA PositionsEmpty == ASSUME NEW w PROVE Cardinality(Positions(<<>>, w)) = 0
  <1>1. Positions(<<>>, w) = {}
    BY DEF Positions
  <1> QED
    BY <1>1, FS_EmptySet

LEMMA PositionsAppend ==
  ASSUME NEW S, NEW s \in Seq(S), NEW x \in S, NEW w
  PROVE  Cardinality(Positions(Append(s, x), w))
             = Cardinality(Positions(s, w)) + (IF x = w THEN 1 ELSE 0)
  <1>1. IsFiniteSet(Positions(s, w)) /\ Cardinality(Positions(s, w)) \in Nat
    BY PositionsType
  <1>2. /\ Append(s, x) \in Seq(S) /\ Len(Append(s, x)) = Len(s) + 1
        /\ Len(s) \in Nat
        /\ \A i \in 1 .. Len(s) : Append(s, x)[i] = s[i]
        /\ Append(s, x)[Len(s) + 1] = x
    OBVIOUS
  <1>3. Positions(Append(s, x), w)
          = IF x = w THEN Positions(s, w) \cup {Len(s) + 1} ELSE Positions(s, w)
    BY <1>2 DEF Positions
  <1>4. Len(s) + 1 \notin Positions(s, w)
    BY <1>2 DEF Positions
  <1>5. CASE x = w
    <2> DEFINE P == Positions(s, w)
    <2>1. Cardinality(P \cup {Len(s) + 1}) = Cardinality(P) + 1
      BY <1>1, <1>4, FS_AddElement
    <2> QED
      BY <1>3, <1>5, <2>1
  <1>6. CASE x # w
    BY <1>1, <1>3, <1>6
  <1> QED
    BY <1>5, <1>6

LEMMA PositionsTail ==
  ASSUME NEW S, NEW s \in Seq(S), s # <<>>, NEW w
  PROVE  Cardinality(Positions(Tail(s), w))
             = Cardinality(Positions(s, w)) - (IF Head(s) = w THEN 1 ELSE 0)
  <1> DEFINE T == Positions(Tail(s), w)
             R == Positions(s, w) \ {1}
             f == [i \in T |-> i + 1]
  <1>1. IsFiniteSet(Positions(s, w)) /\ Cardinality(Positions(s, w)) \in Nat
    BY PositionsType
  <1>2. /\ Tail(s) \in Seq(S) /\ Len(Tail(s)) = Len(s) - 1
        /\ Len(s) \in Nat \ {0} /\ Head(s) = s[1]
        /\ \A i \in 1 .. Len(s) - 1 : Tail(s)[i] = s[i + 1]
    OBVIOUS
  <1>3. T \subseteq Nat /\ R \subseteq Nat
    BY <1>2 DEF Positions
  <1>4. \A i \in T : i + 1 \in R
    BY <1>2 DEF Positions
  <1>5. \A j \in R : j - 1 \in T /\ j = (j - 1) + 1
    BY <1>2 DEF Positions
  <1>6. f \in [T -> R]
    BY <1>4
  <1>7. \A a, b \in T : f[a] = f[b] => a = b
    BY <1>3
  <1>8. \A j \in R : \E i \in T : f[i] = j
    BY <1>5
  <1> HIDE DEF T, R, f
  <1>9. f \in Bijection(T, R)
    BY <1>6, <1>7, <1>8 DEF Bijection, Injection, Surjection, IsInjective
  <1>10. ExistsBijection(R, T)
    BY <1>9, Fun_ExistsBijSymmetric DEF ExistsBijection
  <1>11. /\ IsFiniteSet(R)
         /\ Cardinality(R) = IF 1 \in Positions(s, w)
                             THEN Cardinality(Positions(s, w)) - 1
                             ELSE Cardinality(Positions(s, w))
    BY <1>1, FS_RemoveElement DEF R
  <1>12. Cardinality(T) = Cardinality(R)
    BY <1>10, <1>11, FS_Bijection
  <1>13. 1 \in Positions(s, w) <=> Head(s) = w
    BY <1>2 DEF Positions
  <1> QED
    BY <1>1, <1>11, <1>12, <1>13 DEF T

(* The head of a sequence occurs in it.                                     *)
LEMMA PositionsHead ==
  ASSUME NEW S, NEW s \in Seq(S), s # <<>>
  PROVE  Cardinality(Positions(s, Head(s))) >= 1
  <1>1. /\ Cardinality(Positions(s, Head(s))) \in Nat
        /\ Cardinality(Positions(Tail(s), Head(s))) \in Nat
    <2>1. Tail(s) \in Seq(S)
      OBVIOUS
    <2> QED
      BY <2>1, PositionsType
  <1>2. Cardinality(Positions(Tail(s), Head(s)))
          = Cardinality(Positions(s, Head(s))) - 1
    BY PositionsTail
  <1> QED
    BY <1>1, <1>2

(* A set as a sequence, as SetToSeq gives it.                               *)
LEMMA SetToSeqOnce ==
  ASSUME NEW S, IsFiniteSet(S)
  PROVE  /\ SetToSeq(S) \in Seq(S) /\ Len(SetToSeq(S)) = Cardinality(S)
         /\ \A w \in S : Cardinality(Positions(SetToSeq(S), w)) = 1
  <1> DEFINE n == Cardinality(S)
             f == SetToSeq(S)
  <1>1. n \in Nat /\ ExistsBijection(1 .. n, S)
    BY FS_CardinalityType
  <1>2. \E g \in [1 .. n -> S] : IsInjective(g)
    BY <1>1 DEF ExistsBijection, Bijection, Injection
  <1>3. f \in [1 .. n -> S] /\ IsInjective(f)
    BY <1>2 DEF SetToSeq
  <1> HIDE DEF f
  <1>4. f \in Seq(S) /\ Len(f) = n
    BY <1>1, <1>3, SeqDef, LenProperties
  <1>5. IsFiniteSet(1 .. n) /\ Cardinality(1 .. n) = n
    BY <1>1, FS_Interval
  <1>6. f \in Injection(1 .. n, S)
    BY <1>3 DEF Injection
  <1>7. f \in Surjection(1 .. n, S)
    BY <1>5, <1>6, FS_Injection
  <1>8. ASSUME NEW w \in S PROVE Cardinality(Positions(f, w)) = 1
    <2>1. PICK i \in 1 .. n : f[i] = w
      BY <1>7 DEF Surjection
    <2>2. DOMAIN f = 1 .. n
      BY <1>3
    <2>3. Positions(f, w) = {i}
      BY <1>3, <2>1, <2>2 DEF Positions, IsInjective
    <2> QED
      BY <2>3, FS_Singleton
  <1> QED
    BY <1>4, <1>8 DEF f

(* The wallets of the results in the channel.                               *)
LEMMA FirstsType ==
  ASSUME NEW P, NEW A, \A p \in P : p[1] \in A, NEW s \in Seq(P)
  PROVE  Firsts(s) \in Seq(A) /\ Len(Firsts(s)) = Len(s)
  <1>1. Len(s) \in Nat /\ DOMAIN s = 1 .. Len(s)
    OBVIOUS
  <1>2. \A i \in 1 .. Len(s) : s[i] \in P
    BY ElementOfSeq
  <1>3. Firsts(s) \in [1 .. Len(s) -> A]
    BY <1>1, <1>2 DEF Firsts
  <1> QED
    BY <1>1, <1>3, SeqDef, LenProperties

LEMMA FirstsAppend ==
  ASSUME NEW P, NEW A, \A p \in P : p[1] \in A, NEW s \in Seq(P), NEW x \in P
  PROVE  Firsts(Append(s, x)) = Append(Firsts(s), x[1])
  <1>1. /\ Append(s, x) \in Seq(P) /\ Len(Append(s, x)) = Len(s) + 1
        /\ Len(s) \in Nat
        /\ \A i \in 1 .. Len(s) : Append(s, x)[i] = s[i]
        /\ Append(s, x)[Len(s) + 1] = x
    OBVIOUS
  <1>2. /\ Firsts(s) \in Seq(A) /\ Len(Firsts(s)) = Len(s) /\ x[1] \in A
        /\ Firsts(Append(s, x)) \in Seq(A)
        /\ Len(Firsts(Append(s, x))) = Len(s) + 1
    BY <1>1, FirstsType
  <1>3. /\ Append(Firsts(s), x[1]) \in Seq(A)
        /\ Len(Append(Firsts(s), x[1])) = Len(s) + 1
        /\ \A i \in 1 .. Len(s) : Append(Firsts(s), x[1])[i] = Firsts(s)[i]
        /\ Append(Firsts(s), x[1])[Len(s) + 1] = x[1]
    BY <1>1, <1>2, AppendProperties
  <1>4. \A i \in 1 .. Len(s) + 1 :
           Firsts(Append(s, x))[i] = Append(Firsts(s), x[1])[i]
    <2>1. \A i \in 1 .. Len(s) : Firsts(s)[i] = s[i][1]
      BY DEF Firsts
    <2>2. \A i \in 1 .. Len(s) + 1 :
             Firsts(Append(s, x))[i] = Append(s, x)[i][1]
      BY <1>1 DEF Firsts
    <2> QED
      BY <1>1, <1>3, <2>1, <2>2
  <1> QED
    BY <1>2, <1>3, <1>4, SeqEqual

LEMMA FirstsTail ==
  ASSUME NEW P, NEW A, \A p \in P : p[1] \in A, NEW s \in Seq(P), s # <<>>
  PROVE  Firsts(Tail(s)) = Tail(Firsts(s)) /\ Head(Firsts(s)) = Head(s)[1]
         /\ Firsts(s) # <<>>
  <1>1. /\ Tail(s) \in Seq(P) /\ Len(Tail(s)) = Len(s) - 1
        /\ Len(s) \in Nat \ {0} /\ Head(s) = s[1]
        /\ \A i \in 1 .. Len(s) - 1 : Tail(s)[i] = s[i + 1]
    OBVIOUS
  <1>2. /\ Firsts(s) \in Seq(A) /\ Len(Firsts(s)) = Len(s)
        /\ Firsts(Tail(s)) \in Seq(A)
        /\ Len(Firsts(Tail(s))) = Len(s) - 1
    BY <1>1, FirstsType
  <1>3. Firsts(s) # <<>>
    BY <1>1, <1>2
  <1>4. /\ Tail(Firsts(s)) \in Seq(A)
        /\ Len(Tail(Firsts(s))) = Len(s) - 1
        /\ \A i \in 1 .. Len(s) - 1 : Tail(Firsts(s))[i] = Firsts(s)[i + 1]
        /\ Head(Firsts(s)) = Firsts(s)[1]
    BY <1>1, <1>2, <1>3, HeadTailProperties
  <1>5. \A i \in 1 .. Len(s) : Firsts(s)[i] = s[i][1]
    BY DEF Firsts
  <1>6. \A i \in 1 .. Len(s) - 1 : Firsts(Tail(s))[i] = Tail(s)[i][1]
    BY <1>1 DEF Firsts
  <1>7. \A i \in 1 .. Len(s) - 1 : Firsts(Tail(s))[i] = Tail(Firsts(s))[i]
    BY <1>1, <1>4, <1>5, <1>6
  <1>8. Firsts(Tail(s)) = Tail(Firsts(s))
    BY <1>2, <1>4, <1>7, SeqEqual
  <1> QED
    BY <1>1, <1>3, <1>4, <1>5, <1>8

-----------------------------------------------------------------------------
(* Types, capacities, and the order of the stages.                          *)

LEMMA SnapshotTypeInit ==
  SnapshotInit => SnapshotTypeOK /\ Capacity /\ BusyHasWallet
  <1> SUFFICES ASSUME SnapshotInit
               PROVE  SnapshotTypeOK /\ Capacity /\ BusyHasWallet
    OBVIOUS
  <1>1. /\ toSend \in Seq(Wallets) /\ Len(toSend) = Cardinality(Wallets)
        /\ Cardinality(Wallets) \in Nat /\ Cardinality(Workers) \in Nat
    BY SnapshotAssumption, SetToSeqOnce, FS_CardinalityType DEF SnapshotInit
  <1>2. /\ walletCh = <<>> /\ resultCh = <<>>
        /\ walletCh \in Seq(Wallets) /\ resultCh \in Seq(Wallets \X SUBSET Assets)
        /\ Len(walletCh) = 0 /\ Len(resultCh) = 0
    BY DEF SnapshotInit
  <1>3. SnapshotTypeOK
    <2>1. /\ worker \in [Workers -> {"receive", "process", "send", "done"}]
          /\ wallet \in [Workers -> Wallets \cup {Nil}]
          /\ result \in [Workers -> SUBSET Assets]
      BY DEF SnapshotInit
    <2>2. /\ stage = "start" /\ expired = FALSE /\ row = "none" /\ answer = Nil
          /\ stored = {} /\ collected = {} /\ errors = {} /\ items = {}
      BY DEF SnapshotInit
    <2>3. /\ Len(walletCh) <= Cardinality(Wallets)
          /\ Len(resultCh) <= Cardinality(Workers)
      BY <1>1, <1>2
    <2> QED
      BY <1>1, <1>2, <2>1, <2>2, <2>3 DEF SnapshotTypeOK
  <1>4. Capacity /\ BusyHasWallet
    BY <1>1, <1>2 DEF SnapshotInit, Capacity, BusyHasWallet, Busy
  <1> QED
    BY <1>3, <1>4

LEMMA SnapshotTypeStep ==
  /\ SnapshotTypeOK /\ Capacity /\ BusyHasWallet
  /\ StageOrder /\ [SnapshotNext]_snapshotVars
  => SnapshotTypeOK' /\ Capacity' /\ BusyHasWallet'
  <1> SUFFICES ASSUME SnapshotTypeOK, Capacity, BusyHasWallet, StageOrder,
                      [SnapshotNext]_snapshotVars
               PROVE  SnapshotTypeOK' /\ Capacity' /\ BusyHasWallet'
    OBVIOUS
  <1> USE DEF SnapshotTypeOK, Capacity, BusyHasWallet, Busy
  <1>1. /\ Cardinality(Wallets) \in Nat /\ Cardinality(Workers) \in Nat
        /\ Len(toSend) \in Nat /\ Len(walletCh) \in Nat /\ Len(resultCh) \in Nat
    BY SnapshotAssumption, FS_CardinalityType
  <1>2. CASE Expire
    BY <1>2 DEF Expire, database, channels, workerVars, collector
  <1>3. CASE Create
    BY <1>3 DEF Create, database, channels, workerVars, collector
  <1>4. CASE CreateFails
    BY <1>4 DEF CreateFails, database, channels, workerVars, collector
  <1>5. CASE Generate
    <2>1. /\ toSend' \in Seq(Wallets) /\ Len(toSend') = Len(toSend) - 1
          /\ Head(toSend) \in Wallets
      BY <1>5 DEF Generate
    <2>2. /\ walletCh' \in Seq(Wallets) /\ Len(walletCh') = Len(walletCh) + 1
      BY <1>5, <2>1 DEF Generate
    <2>3. Len(toSend') + Len(walletCh') <= Cardinality(Wallets)
      BY <1>1, <2>1, <2>2
    <2>4. Len(toSend') \in Nat
      BY <2>1
    <2> QED
      BY <1>1, <1>5, <2>1, <2>2, <2>3, <2>4
         DEF Generate, database, workerVars, collector
  <1>6. CASE GenerateEnds
    BY <1>6 DEF GenerateEnds, database, workerVars, collector
  <1>7. ASSUME NEW k \in Workers, Receive(k)
        PROVE  SnapshotTypeOK' /\ Capacity' /\ BusyHasWallet'
    <2>1. /\ walletCh' \in Seq(Wallets) /\ Len(walletCh') = Len(walletCh) - 1
          /\ Head(walletCh) \in Wallets
      BY <1>7 DEF Receive
    <2>2. /\ Len(walletCh') <= Cardinality(Wallets)
          /\ Len(toSend) + Len(walletCh') <= Cardinality(Wallets)
      BY <1>1, <2>1
    <2>3. /\ worker' \in [Workers -> {"receive", "process", "send", "done"}]
          /\ wallet' \in [Workers -> Wallets \cup {Nil}]
          /\ \A j \in Workers :
                worker'[j] \in {"process", "send"} => wallet'[j] \in Wallets
      BY <1>7, <2>1 DEF Receive
    <2> QED
      BY <1>7, <2>1, <2>2, <2>3 DEF Receive, database, collector
  <1>8. ASSUME NEW k \in Workers, ProcessWallet(k)
        PROVE  SnapshotTypeOK' /\ Capacity' /\ BusyHasWallet'
    <2>1. /\ result' \in [Workers -> SUBSET Assets]
          /\ worker' \in [Workers -> {"receive", "process", "send", "done"}]
          /\ \A j \in Workers :
                worker'[j] \in {"process", "send"} => wallet[j] \in Wallets
      BY <1>8 DEF ProcessWallet, Assets
    <2> QED
      BY <1>8, <2>1 DEF ProcessWallet, database, channels, collector
  <1>9. ASSUME NEW k \in Workers, Send(k)
        PROVE  SnapshotTypeOK' /\ Capacity' /\ BusyHasWallet'
    <2>1. <<wallet[k], result[k]>> \in Wallets \X SUBSET Assets
      BY <1>9 DEF Send
    <2>2. /\ resultCh' \in Seq(Wallets \X SUBSET Assets)
          /\ Len(resultCh') = Len(resultCh) + 1
      BY <1>9, <2>1 DEF Send
    <2>3. Len(resultCh') <= Cardinality(Workers)
      BY <1>1, <1>9, <2>2 DEF Send
    <2>4. worker' \in [Workers -> {"receive", "process", "send", "done"}]
      BY <1>9 DEF Send
    <2>5. \A j \in Workers :
             worker'[j] \in {"process", "send"} => wallet[j] \in Wallets
      BY <1>9 DEF Send
    <2> QED
      BY <1>9, <2>2, <2>3, <2>4, <2>5 DEF Send, database, collector
  <1>10. ASSUME NEW k \in Workers, WorkerEnds(k)
         PROVE  SnapshotTypeOK' /\ Capacity' /\ BusyHasWallet'
    <2>1. /\ worker' \in [Workers -> {"receive", "process", "send", "done"}]
          /\ \A j \in Workers :
                worker'[j] \in {"process", "send"} => wallet[j] \in Wallets
      BY <1>10 DEF WorkerEnds
    <2> QED
      BY <1>10, <2>1 DEF WorkerEnds, database, channels, collector
  <1>11. CASE Collect
    <2> DEFINE w == Head(resultCh)[1]
               found == Head(resultCh)[2]
    <2>1. Head(resultCh) \in Wallets \X SUBSET Assets
      BY <1>11 DEF Collect
    <2>2. w \in Wallets /\ found \subseteq Assets
      BY <2>1
    <2>3. resultCh' \in Seq(Wallets \X SUBSET Assets)
          /\ Len(resultCh') = Len(resultCh) - 1
      BY <1>11 DEF Collect
    <2>4. Len(resultCh') <= Cardinality(Workers)
      BY <1>1, <2>3
    <2>5. /\ collected' = collected \cup {w}
          /\ errors' = IF found = {} THEN errors \cup {w} ELSE errors
          /\ items' = items \cup ({w} \X found)
      BY <1>11 DEF Collect
    <2> HIDE DEF w, found
    <2>6. /\ collected' \subseteq Wallets /\ errors' \subseteq collected'
          /\ items' \subseteq Wallets \X Assets
      BY <2>2, <2>5
    <2> QED
      BY <1>11, <2>3, <2>4, <2>6 DEF Collect, database, workerVars
  <1>12. CASE CollectEnds
    BY <1>12 DEF CollectEnds, database, channels, workerVars, collector
  <1>13. ASSUME NEW x \in items, StoreItem(x)
         PROVE  SnapshotTypeOK' /\ Capacity' /\ BusyHasWallet'
    BY <1>13 DEF StoreItem, channels, workerVars
  <1>14. CASE UpdateStatus
    BY <1>14 DEF UpdateStatus, channels, workerVars, collector, StageOrder
  <1>15. CASE UNCHANGED snapshotVars
    BY <1>15 DEF snapshotVars, database, channels, workerVars, collector
  <1> QED
    BY <1>2, <1>3, <1>4, <1>5, <1>6, <1>7, <1>8, <1>9, <1>10, <1>11, <1>12,
       <1>13, <1>14, <1>15 DEF SnapshotNext

LEMMA ClosedStep ==
  SnapshotTypeOK /\ ClosedInOrder /\ [SnapshotNext]_snapshotVars
  => ClosedInOrder'
  <1> SUFFICES ASSUME SnapshotTypeOK, ClosedInOrder,
                      [SnapshotNext]_snapshotVars, ~expired'
               PROVE  /\ generator' = "done" => toSend' = <<>>
                      /\ \A k \in Workers : worker'[k] = "done" =>
                            generator' = "done" /\ walletCh' = <<>>
    BY DEF ClosedInOrder
  <1> USE DEF ClosedInOrder, database, channels, workerVars, collector
  <1>1. CASE Expire
    BY <1>1 DEF Expire
  <1>2. CASE Create \/ CreateFails \/ Collect \/ CollectEnds \/ UpdateStatus
             \/ (\E x \in items : StoreItem(x)) \/ UNCHANGED snapshotVars
    BY <1>2 DEF Create, CreateFails, Collect, CollectEnds, UpdateStatus,
                StoreItem, snapshotVars
  <1>3. CASE Generate
    BY <1>3 DEF Generate
  <1>4. CASE GenerateEnds
    BY <1>4 DEF GenerateEnds
  <1>5. ASSUME NEW j \in Workers,
               Receive(j) \/ ProcessWallet(j) \/ Send(j) \/ WorkerEnds(j)
        PROVE  /\ toSend' = toSend /\ generator' = generator /\ expired' = expired
               /\ \A k \in Workers : worker'[k] = "done" =>
                     generator = "done" /\ walletCh' = <<>>
    <2>1. CASE Receive(j)
      BY <1>5, <2>1 DEF Receive, SnapshotTypeOK
    <2>2. CASE ProcessWallet(j)
      BY <1>5, <2>2 DEF ProcessWallet, SnapshotTypeOK
    <2>3. CASE Send(j)
      BY <1>5, <2>3 DEF Send, SnapshotTypeOK
    <2>4. CASE WorkerEnds(j)
      BY <1>5, <2>4 DEF WorkerEnds, SnapshotTypeOK
    <2> QED
      BY <1>5, <2>1, <2>2, <2>3, <2>4
  <1>6. CASE \E j \in Workers :
               Receive(j) \/ ProcessWallet(j) \/ Send(j) \/ WorkerEnds(j)
    BY <1>5, <1>6
  <1> QED
    BY <1>1, <1>2, <1>3, <1>4, <1>6 DEF SnapshotNext

-----------------------------------------------------------------------------
(* Where a wallet is.                                                       *)

Results == Wallets \X SUBSET Assets

LEMMA ResultsType ==
  /\ \A p \in Results : p[1] \in Wallets
  /\ SnapshotTypeOK =>
        resultCh \in Seq(Results) /\ Firsts(resultCh) \in Seq(Wallets)
  <1>1. \A p \in Results : p[1] \in Wallets
    BY DEF Results
  <1>2. SnapshotTypeOK => resultCh \in Seq(Results)
    BY DEF SnapshotTypeOK, Results
  <1> QED
    BY <1>1, <1>2, FirstsType

Parts(w) ==
    /\ Copies(w) = Unsent(w) + Queued(w) + Working(w) + Found(w) + Read(w)
    /\ Unsent(w) \in Nat /\ Queued(w) \in Nat /\ Working(w) \in Nat
    /\ Found(w) \in Nat /\ Read(w) \in Nat
    /\ IsFiniteSet(HeldBy(w))
    /\ Read(w) = IF w \in collected THEN 1 ELSE 0

AllParts == \A w \in Wallets : Parts(w)

LEMMA CopiesParts == SnapshotTypeOK => AllParts
  <1> SUFFICES ASSUME SnapshotTypeOK, NEW w \in Wallets PROVE Parts(w)
    BY DEF AllParts
  <1> USE DEF SnapshotTypeOK
  <1>1. Unsent(w) \in Nat /\ Queued(w) \in Nat
    BY PositionsType DEF Unsent, Queued
  <1>2. IsFiniteSet(HeldBy(w)) /\ Working(w) \in Nat
    <2>1. HeldBy(w) \subseteq Workers
      BY DEF HeldBy
    <2>2. IsFiniteSet(HeldBy(w))
      BY <2>1, SnapshotAssumption, FS_Subset
    <2> QED
      BY <2>2, FS_CardinalityType DEF Working
  <1>3. Found(w) \in Nat
    <2>1. Firsts(resultCh) \in Seq(Wallets)
      BY ResultsType
    <2> QED
      BY <2>1, PositionsType DEF Found
  <1>4. Read(w) = IF w \in collected THEN 1 ELSE 0
    <2>1. CASE w \in collected
      <3>1. collected \cap {w} = {w}
        BY <2>1
      <3> QED
        BY <2>1, <3>1, FS_Singleton DEF Read
    <2>2. CASE w \notin collected
      <3>1. collected \cap {w} = {}
        BY <2>2
      <3> QED
        BY <2>2, <3>1, FS_EmptySet DEF Read
    <2> QED
      BY <2>1, <2>2
  <1>5. Copies(w) = Unsent(w) + Queued(w) + Working(w) + Found(w) + Read(w)
    <2>1. {i \in DOMAIN resultCh : resultCh[i][1] = w}
            = Positions(Firsts(resultCh), w)
      BY DEF Positions, Firsts
    <2> QED
      BY <2>1 DEF Copies, Unsent, Queued, Working, Found, Read, Positions,
                  HeldBy, Busy
  <1> QED
    BY <1>1, <1>2, <1>3, <1>4, <1>5 DEF Parts

(* One worker starts or stops holding a wallet.                             *)
LEMMA WorkingStep ==
  ASSUME SnapshotTypeOK, NEW w \in Wallets, NEW k \in Workers
  PROVE  /\ HeldBy(w)' = HeldBy(w) \cup {k} /\ k \notin HeldBy(w)
            => Working(w)' = Working(w) + 1
         /\ HeldBy(w)' = HeldBy(w) \ {k} /\ k \in HeldBy(w)
            => Working(w)' = Working(w) - 1
         /\ HeldBy(w)' = HeldBy(w) => Working(w)' = Working(w)
  <1>1. IsFiniteSet(HeldBy(w))
    BY CopiesParts DEF AllParts, Parts
  <1>2. /\ k \notin HeldBy(w)
           => Cardinality(HeldBy(w) \cup {k}) = Cardinality(HeldBy(w)) + 1
        /\ k \in HeldBy(w)
           => Cardinality(HeldBy(w) \ {k}) = Cardinality(HeldBy(w)) - 1
    BY <1>1, FS_AddElement, FS_RemoveElement
  <1> QED
    BY <1>2 DEF Working

LEMMA CopiesInit ==
  SnapshotInit => \A w \in Wallets : Copies(w) = 1
  <1> SUFFICES ASSUME SnapshotInit, NEW w \in Wallets PROVE Copies(w) = 1
    OBVIOUS
  <1>1. /\ SnapshotTypeOK
        /\ toSend = SetToSeq(Wallets) /\ walletCh = <<>> /\ resultCh = <<>>
        /\ collected = {} /\ \A k \in Workers : worker[k] = "receive"
    BY SnapshotTypeInit DEF SnapshotInit
  <1>2. Unsent(w) = 1
    BY <1>1, SnapshotAssumption, SetToSeqOnce DEF Unsent
  <1>3. Queued(w) = 0
    BY <1>1, PositionsEmpty DEF Queued
  <1>4. Found(w) = 0
    <2>1. Firsts(resultCh) = <<>>
      BY <1>1 DEF Firsts
    <2> QED
      BY <2>1, PositionsEmpty DEF Found
  <1>5. Working(w) = 0
    <2>1. HeldBy(w) = {}
      BY <1>1 DEF HeldBy, Busy
    <2> QED
      BY <2>1, FS_EmptySet DEF Working
  <1> QED
    BY <1>1, <1>2, <1>3, <1>4, <1>5, CopiesParts DEF AllParts, Parts

(* A result that waits in the channel is the first of its wallet.           *)
LEMMA HeadUnread ==
  SnapshotTypeOK /\ EveryWalletOnce /\ resultCh # <<>>
  => Head(resultCh)[1] \in Wallets \ collected
  <1> SUFFICES ASSUME SnapshotTypeOK, EveryWalletOnce, resultCh # <<>>
               PROVE  Head(resultCh)[1] \in Wallets \ collected
    OBVIOUS
  <1> DEFINE v == Head(resultCh)[1]
  <1>1. resultCh \in Seq(Results) /\ Firsts(resultCh) \in Seq(Wallets)
    BY ResultsType
  <1>2. Head(Firsts(resultCh)) = v /\ Firsts(resultCh) # <<>>
    BY <1>1, ResultsType, FirstsTail
  <1> HIDE DEF v
  <1>3. v \in Wallets
    BY <1>1, <1>2
  <1>4. Found(v) >= 1
    BY <1>1, <1>2, PositionsHead DEF Found
  <1>5. Parts(v) /\ Copies(v) <= 1
    BY <1>3, CopiesParts DEF AllParts, Parts, EveryWalletOnce
  <1> QED
    BY <1>3, <1>4, <1>5 DEF Parts, v

(* A step that leaves alone the channels, the workers and what is read.     *)
LEMMA CopiesSame ==
  ASSUME UNCHANGED <<channels, worker, wallet, collected>>, NEW w
  PROVE  Copies(w)' = Copies(w)
  BY DEF channels, Copies

LEMMA CopiesStep ==
  /\ SnapshotTypeOK /\ Capacity /\ BusyHasWallet
  /\ StageOrder /\ EveryWalletOnce /\ [SnapshotNext]_snapshotVars
  => \A w \in Wallets :
        \/ Copies(w)' = Copies(w)
        \/ expired /\ Copies(w)' <= Copies(w)
  <1> SUFFICES ASSUME SnapshotTypeOK, Capacity, BusyHasWallet, StageOrder,
                      EveryWalletOnce, [SnapshotNext]_snapshotVars,
                      NEW w \in Wallets
               PROVE  \/ Copies(w)' = Copies(w)
                      \/ expired /\ Copies(w)' <= Copies(w)
    OBVIOUS
  <1>1. Parts(w)
    BY CopiesParts DEF AllParts
  <1>2. Parts(w)'
    <2>1. SnapshotTypeOK'
      BY SnapshotTypeStep
    <2>2. AllParts'
      BY <2>1, CopiesParts, PTL
    <2> QED
      BY <2>2 DEF AllParts
  <1>3. Firsts(resultCh) \in Seq(Wallets)
    BY ResultsType
  <1>4. CASE Expire \/ Create \/ CreateFails \/ CollectEnds \/ UpdateStatus
             \/ (\E x \in items : StoreItem(x))
             \/ UNCHANGED snapshotVars
    <2>1. UNCHANGED <<channels, worker, wallet, collected>>
      BY <1>4
         DEF Expire, Create, CreateFails, CollectEnds, UpdateStatus, StoreItem,
             snapshotVars, channels, workerVars, collector
    <2> QED
      BY <2>1, CopiesSame
  <1>11. CASE GenerateEnds
    BY <1>11 DEF GenerateEnds, workerVars, collector, Copies
  <1>5. CASE Generate
    <2>1. /\ toSend \in Seq(Wallets) /\ toSend # <<>> /\ Head(toSend) \in Wallets
          /\ walletCh \in Seq(Wallets)
          /\ toSend' = Tail(toSend) /\ walletCh' = Append(walletCh, Head(toSend))
      BY <1>5 DEF Generate, SnapshotTypeOK
    <2>2. Unsent(w)' = Unsent(w) - (IF Head(toSend) = w THEN 1 ELSE 0)
      BY <2>1, PositionsTail DEF Unsent
    <2>3. Queued(w)' = Queued(w) + (IF Head(toSend) = w THEN 1 ELSE 0)
      BY <2>1, PositionsAppend DEF Queued
    <2>4. /\ Working(w)' = Working(w) /\ Found(w)' = Found(w)
          /\ Read(w)' = Read(w)
      BY <1>5 DEF Generate, workerVars, collector, Working, HeldBy, Found, Read
    <2> QED
      BY <1>1, <1>2, <2>2, <2>3, <2>4 DEF Parts
  <1>6. ASSUME NEW k \in Workers, Receive(k)
        PROVE  \/ Copies(w)' = Copies(w)
               \/ expired /\ Copies(w)' <= Copies(w)
    <2>1. /\ walletCh \in Seq(Wallets) /\ walletCh # <<>>
          /\ walletCh' = Tail(walletCh)
      BY <1>6 DEF Receive, SnapshotTypeOK
    <2>2. Queued(w)' = Queued(w) - (IF Head(walletCh) = w THEN 1 ELSE 0)
      BY <2>1, PositionsTail DEF Queued
    <2>3. /\ Unsent(w)' = Unsent(w) /\ Found(w)' = Found(w)
          /\ Read(w)' = Read(w)
      BY <1>6 DEF Receive, collector, Unsent, Found, Read
    <2>4. CASE expired
      <3>1. HeldBy(w)' = HeldBy(w)
        BY <1>6, <2>4 DEF Receive, HeldBy, Busy, SnapshotTypeOK
      <3>2. Working(w)' = Working(w)
        BY <3>1, WorkingStep
      <3> QED
        BY <1>1, <1>2, <2>2, <2>3, <2>4, <3>2 DEF Parts
    <2>5. CASE ~expired
      <3>1. /\ k \notin HeldBy(w)
            /\ HeldBy(w)' = IF Head(walletCh) = w THEN HeldBy(w) \cup {k}
                            ELSE HeldBy(w)
        BY <1>6, <2>5 DEF Receive, HeldBy, Busy, SnapshotTypeOK
      <3>2. Working(w)' = Working(w) + (IF Head(walletCh) = w THEN 1 ELSE 0)
        BY <1>1, <3>1, WorkingStep DEF Parts
      <3> QED
        BY <1>1, <1>2, <2>2, <2>3, <3>2 DEF Parts
    <2> QED
      BY <2>4, <2>5
  <1>7. ASSUME NEW k \in Workers, ProcessWallet(k)
        PROVE  Copies(w)' = Copies(w)
    <2>1. HeldBy(w)' = HeldBy(w)
      BY <1>7 DEF ProcessWallet, HeldBy, Busy, SnapshotTypeOK
    <2>2. Working(w)' = Working(w)
      BY <1>7, <2>1, WorkingStep
    <2>3. /\ Unsent(w)' = Unsent(w) /\ Queued(w)' = Queued(w)
          /\ Found(w)' = Found(w) /\ Read(w)' = Read(w)
      BY <1>7 DEF ProcessWallet, channels, collector, Unsent, Queued, Found, Read
    <2> QED
      BY <1>1, <1>2, <2>2, <2>3 DEF Parts
  <1>8. ASSUME NEW k \in Workers, Send(k)
        PROVE  Copies(w)' = Copies(w)
    <2>1. /\ resultCh \in Seq(Results)
          /\ <<wallet[k], result[k]>> \in Wallets \X SUBSET Assets
          /\ resultCh' = Append(resultCh, <<wallet[k], result[k]>>)
          /\ wallet[k] \in Wallets
      BY <1>8, ResultsType DEF Send, SnapshotTypeOK, BusyHasWallet, Busy
    <2>2. Firsts(resultCh') = Append(Firsts(resultCh), wallet[k])
      <3> DEFINE x == <<wallet[k], result[k]>>
      <3>1. x \in Results /\ x[1] = wallet[k] /\ resultCh' = Append(resultCh, x)
        BY <2>1 DEF Results
      <3> HIDE DEF x
      <3>2. Firsts(Append(resultCh, x)) = Append(Firsts(resultCh), x[1])
        BY <3>1, ResultsType, FirstsAppend
      <3> QED
        BY <3>1, <3>2
    <2>3. Found(w)' = Found(w) + (IF wallet[k] = w THEN 1 ELSE 0)
      <3>1. Cardinality(Positions(Append(Firsts(resultCh), wallet[k]), w))
              = Cardinality(Positions(Firsts(resultCh), w))
                + (IF wallet[k] = w THEN 1 ELSE 0)
        BY <1>3, <2>1, PositionsAppend
      <3> QED
        BY <2>2, <3>1 DEF Found
    <2>4. /\ HeldBy(w)' = IF wallet[k] = w THEN HeldBy(w) \ {k} ELSE HeldBy(w)
          /\ wallet[k] = w => k \in HeldBy(w)
      BY <1>8 DEF Send, HeldBy, Busy, SnapshotTypeOK
    <2>5. Working(w)' = Working(w) - (IF wallet[k] = w THEN 1 ELSE 0)
      BY <1>1, <2>4, WorkingStep DEF Parts
    <2>6. /\ Unsent(w)' = Unsent(w) /\ Queued(w)' = Queued(w)
          /\ Read(w)' = Read(w)
      BY <1>8 DEF Send, collector, Unsent, Queued, Read
    <2> QED
      BY <1>1, <1>2, <2>3, <2>5, <2>6 DEF Parts
  <1>9. ASSUME NEW k \in Workers, WorkerEnds(k)
        PROVE  \/ Copies(w)' = Copies(w)
               \/ expired /\ Copies(w)' <= Copies(w)
    <2>1. /\ Unsent(w)' = Unsent(w) /\ Queued(w)' = Queued(w)
          /\ Found(w)' = Found(w) /\ Read(w)' = Read(w)
      BY <1>9 DEF WorkerEnds, channels, collector, Unsent, Queued, Found, Read
    <2>2. CASE k \notin HeldBy(w)
      <3>1. HeldBy(w)' = HeldBy(w)
        BY <1>9, <2>2 DEF WorkerEnds, HeldBy, Busy, SnapshotTypeOK
      <3>2. Working(w)' = Working(w)
        BY <3>1, WorkingStep
      <3> QED
        BY <1>1, <1>2, <2>1, <3>2 DEF Parts
    <2>3. CASE k \in HeldBy(w)
      <3>1. expired /\ HeldBy(w)' = HeldBy(w) \ {k}
        BY <1>9, <2>3 DEF WorkerEnds, HeldBy, Busy, SnapshotTypeOK
      <3>2. Working(w)' = Working(w) - 1
        BY <2>3, <3>1, WorkingStep
      <3> QED
        BY <1>1, <1>2, <2>1, <3>1, <3>2 DEF Parts
    <2> QED
      BY <2>2, <2>3
  <1>10. CASE Collect
    <2> DEFINE v == Head(resultCh)[1]
    <2>1. /\ resultCh \in Seq(Results) /\ resultCh # <<>>
          /\ resultCh' = Tail(resultCh) /\ collected' = collected \cup {v}
      BY <1>10, ResultsType DEF Collect
    <2>2. /\ Firsts(resultCh)' = Tail(Firsts(resultCh))
          /\ Head(Firsts(resultCh)) = v /\ Firsts(resultCh) # <<>>
      BY <2>1, ResultsType, FirstsTail
    <2> HIDE DEF v
    <2>3. Found(w)' = Found(w) - (IF v = w THEN 1 ELSE 0)
      BY <1>3, <2>2, PositionsTail DEF Found
    <2>4. v = w => w \notin collected
      BY <2>1, HeadUnread DEF v
    <2>5. Read(w)' = Read(w) + (IF v = w THEN 1 ELSE 0)
      <3>1. /\ Read(w) = IF w \in collected THEN 1 ELSE 0
            /\ Read(w)' = IF w \in collected' THEN 1 ELSE 0
        BY <1>1, <1>2 DEF Parts
      <3>2. collected' = collected \cup {v}
        BY <2>1
      <3> QED
        BY <2>4, <3>1, <3>2
    <2>6. /\ Unsent(w)' = Unsent(w) /\ Queued(w)' = Queued(w)
          /\ Working(w)' = Working(w)
      BY <1>10 DEF Collect, workerVars, Unsent, Queued, Working, HeldBy
    <2> QED
      BY <1>1, <1>2, <2>3, <2>5, <2>6 DEF Parts
  <1> QED
    BY <1>4, <1>5, <1>6, <1>7, <1>8, <1>9, <1>10, <1>11 DEF SnapshotNext

LEMMA CountStep == SnapshotInv /\ [SnapshotNext]_snapshotVars => EveryWalletOnce'
  <1> SUFFICES ASSUME SnapshotInv, [SnapshotNext]_snapshotVars,
                      NEW w \in Wallets
               PROVE  IF expired' THEN Copies(w)' <= 1 ELSE Copies(w)' = 1
    BY DEF EveryWalletOnce
  <1>1. \/ Copies(w)' = Copies(w)
        \/ expired /\ Copies(w)' <= Copies(w)
    BY CopiesStep DEF SnapshotInv
  <1>2. IF expired THEN Copies(w) <= 1 ELSE Copies(w) = 1
    BY DEF SnapshotInv, EveryWalletOnce
  <1>3. expired => expired'
    BY DEF SnapshotNext, Expire, Create, CreateFails, Generate, GenerateEnds,
           Receive, ProcessWallet, Send, WorkerEnds, Collect, CollectEnds,
           StoreItem, UpdateStatus, snapshotVars
  <1>4. Copies(w) \in Nat /\ Copies(w)' \in Nat
    <2>1. AllParts
      BY CopiesParts DEF SnapshotInv
    <2>2. SnapshotTypeOK'
      BY SnapshotTypeStep DEF SnapshotInv
    <2>3. AllParts'
      BY <2>2, CopiesParts, PTL
    <2> QED
      BY <2>1, <2>3 DEF AllParts, Parts
  <1>5. expired \in BOOLEAN
    BY DEF SnapshotInv, SnapshotTypeOK
  <1> QED
    BY <1>1, <1>2, <1>3, <1>4, <1>5

-----------------------------------------------------------------------------
(* The status of the snapshot.                                              *)

(* When the context lives on, every wallet has been read before the status  *)
(* is written.                                                              *)
LEMMA AllRead ==
  SnapshotInv /\ ~expired /\ stage = "persist" => collected = Wallets
  <1> SUFFICES ASSUME SnapshotInv, ~expired, stage = "persist",
                      NEW w \in Wallets
               PROVE  w \in collected
    BY DEF SnapshotInv, SnapshotTypeOK
  <1>1. /\ \A k \in Workers : worker[k] = "done"
        /\ resultCh = <<>>
    BY DEF SnapshotInv, StageOrder
  <1>2. PICK k \in Workers : worker[k] = "done"
    BY <1>1, SnapshotAssumption
  <1>3. walletCh = <<>> /\ toSend = <<>>
    BY <1>2 DEF SnapshotInv, ClosedInOrder
  <1>4. Unsent(w) = 0 /\ Queued(w) = 0
    BY <1>3, PositionsEmpty DEF Unsent, Queued
  <1>5. Found(w) = 0
    <2>1. Firsts(resultCh) = <<>>
      BY <1>1 DEF Firsts
    <2> QED
      BY <2>1, PositionsEmpty DEF Found
  <1>6. Working(w) = 0
    <2>1. HeldBy(w) = {}
      BY <1>1 DEF HeldBy, Busy
    <2> QED
      BY <2>1, FS_EmptySet DEF Working
  <1>7. Parts(w) /\ Copies(w) = 1
    BY CopiesParts DEF SnapshotInv, AllParts, EveryWalletOnce
  <1> QED
    BY <1>4, <1>5, <1>6, <1>7 DEF Parts

LEMMA StageStep == SnapshotInv /\ [SnapshotNext]_snapshotVars => StageOrder'
  <1> SUFFICES ASSUME SnapshotInv, [SnapshotNext]_snapshotVars
               PROVE  StageOrder'
    OBVIOUS
  <1> USE DEF SnapshotInv, StageOrder, SnapshotTypeOK, database, channels,
              workerVars, collector
  <1>1. CASE Expire
    BY <1>1 DEF Expire
  <1>2. CASE Create \/ CreateFails
    BY <1>2 DEF Create, CreateFails
  <1>3. CASE Generate \/ GenerateEnds
    BY <1>3 DEF Generate, GenerateEnds
  <1>4. ASSUME NEW k \in Workers,
               Receive(k) \/ ProcessWallet(k) \/ Send(k) \/ WorkerEnds(k)
        PROVE  StageOrder'
    <2>1. stage # "persist"
      BY <1>4 DEF Receive, ProcessWallet, Send, WorkerEnds
    <2>2. UNCHANGED <<stage, row, stored, answer, collected>>
      BY <1>4 DEF Receive, ProcessWallet, Send, WorkerEnds
    <2> QED
      BY <2>1, <2>2
  <1>5. CASE Collect
    BY <1>5 DEF Collect
  <1>6. CASE CollectEnds
    BY <1>6 DEF CollectEnds
  <1>7. ASSUME NEW x \in items, StoreItem(x) PROVE StageOrder'
    BY <1>7 DEF StoreItem
  <1>8. CASE UpdateStatus
    <2>1. ~expired => collected = Wallets
      BY <1>8, AllRead DEF UpdateStatus
    <2> QED
      BY <1>8, <2>1 DEF UpdateStatus
  <1>9. CASE UNCHANGED snapshotVars
    BY <1>9 DEF snapshotVars
  <1> QED
    BY <1>1, <1>2, <1>3, <1>4, <1>5, <1>6, <1>7, <1>8, <1>9 DEF SnapshotNext

LEMMA AnswerStep == SnapshotInv /\ [SnapshotNext]_snapshotVars => AnswerIsTrue'
  <1> SUFFICES ASSUME SnapshotInv, [SnapshotNext]_snapshotVars
               PROVE  AnswerIsTrue'
    OBVIOUS
  <1> USE DEF SnapshotInv, AnswerIsTrue, StageOrder, database, channels,
              workerVars, collector
  <1>1. CASE Expire \/ Create \/ CreateFails \/ Generate \/ GenerateEnds
             \/ UNCHANGED snapshotVars
    BY <1>1 DEF Expire, Create, CreateFails, Generate, GenerateEnds,
                snapshotVars
  <1>2. ASSUME NEW k \in Workers,
               Receive(k) \/ ProcessWallet(k) \/ Send(k) \/ WorkerEnds(k)
        PROVE  AnswerIsTrue'
    BY <1>2 DEF Receive, ProcessWallet, Send, WorkerEnds
  <1>3. CASE Collect
    <2> DEFINE v == Head(resultCh)[1]
               found == Head(resultCh)[2]
    <2>1. v \in Wallets \ collected
      BY <1>3, HeadUnread DEF Collect
    <2>2. /\ stage' = "collect" /\ stored' = stored
          /\ collected' = collected \cup {v}
          /\ errors' = IF found = {} THEN errors \cup {v} ELSE errors
          /\ items' = items \cup ({v} \X found)
      BY <1>3 DEF Collect
    <2> HIDE DEF v, found
    <2>3. errors \subseteq collected
      BY DEF SnapshotTypeOK
    <2>4. ASSUME NEW x \in items' \cup stored'
          PROVE  x[1] \in collected' \ errors'
      <3>1. CASE x \in items \cup stored
        BY <2>1, <2>2, <3>1
      <3>2. CASE x \in {v} \X found
        BY <2>1, <2>2, <2>3, <3>2
      <3> QED
        BY <2>2, <2>4, <3>1, <3>2
    <2> QED
      BY <2>2, <2>4
  <1>4. CASE CollectEnds
    <2>1. /\ answer' = IF errors # {} /\ items = {} THEN "failed" ELSE "completed"
          /\ stage = "collect" /\ stored = {}
          /\ UNCHANGED <<collected, errors, items, stored>>
      BY <1>4 DEF CollectEnds
    <2>2. errors = {} => errors # Wallets
      BY SnapshotAssumption
    <2>3. items # {} => errors # Wallets
      BY DEF SnapshotTypeOK
    <2> QED
      BY <2>1, <2>2, <2>3
  <1>5. ASSUME NEW x \in items, StoreItem(x) PROVE AnswerIsTrue'
    BY <1>5 DEF StoreItem
  <1>6. CASE UpdateStatus
    BY <1>6 DEF UpdateStatus
  <1> QED
    BY <1>1, <1>2, <1>3, <1>4, <1>5, <1>6 DEF SnapshotNext

(* The invariant holds in every run of snapshot-runner, for any wallets,    *)
(* any pool of workers and any tokens.                                      *)
THEOREM SnapshotInvariance == SnapshotSpec => []SnapshotInv
  <1>1. SnapshotInit => SnapshotInv
    <2> SUFFICES ASSUME SnapshotInit PROVE SnapshotInv
      OBVIOUS
    <2>1. SnapshotTypeOK /\ Capacity /\ BusyHasWallet
      BY SnapshotTypeInit
    <2>2. EveryWalletOnce
      BY CopiesInit DEF EveryWalletOnce, SnapshotInit
    <2>3. ClosedInOrder /\ StageOrder /\ AnswerIsTrue
      BY DEF SnapshotInit, ClosedInOrder, StageOrder, AnswerIsTrue
    <2> QED
      BY <2>1, <2>2, <2>3 DEF SnapshotInv
  <1>2. SnapshotInv /\ [SnapshotNext]_snapshotVars => SnapshotInv'
    <2> SUFFICES ASSUME SnapshotInv, [SnapshotNext]_snapshotVars
                 PROVE  SnapshotInv'
      OBVIOUS
    <2>1. SnapshotTypeOK' /\ Capacity' /\ BusyHasWallet'
      BY SnapshotTypeStep DEF SnapshotInv
    <2>2. EveryWalletOnce'
      BY CountStep
    <2>3. ClosedInOrder'
      BY ClosedStep DEF SnapshotInv
    <2>4. StageOrder' /\ AnswerIsTrue'
      BY StageStep, AnswerStep
    <2> QED
      BY <2>1, <2>2, <2>3, <2>4 DEF SnapshotInv
  <1> QED
    BY <1>1, <1>2, PTL DEF SnapshotSpec

(* Everything has its type, and no channel holds more than its capacity:    *)
(* all wallets, and one result per worker.                                  *)
THEOREM SnapshotTypeCorrect == SnapshotSpec => []SnapshotTypeOK
  <1>1. SnapshotInv => SnapshotTypeOK
    BY DEF SnapshotInv
  <1> QED
    BY <1>1, SnapshotInvariance, PTL

(* Workers that share one channel neither lose a wallet nor process it      *)
(* twice (Generate, RunWorkerPool and the collector of Run).                *)
THEOREM WalletsCounted == SnapshotSpec => []EveryWalletOnce
  <1>1. SnapshotInv => EveryWalletOnce
    BY DEF SnapshotInv
  <1> QED
    BY <1>1, SnapshotInvariance, PTL

(* A completed snapshot has read every wallet and not only errors; a failed *)
(* one has no items (Run and UpdateSnapshotStatus).                         *)
THEOREM StatusTold == SnapshotSpec => []StatusIsTrue
  <1>1. SnapshotInv => StatusIsTrue
    BY DEF SnapshotInv, StageOrder, AnswerIsTrue, StatusIsTrue
  <1> QED
    BY <1>1, SnapshotInvariance, PTL
=============================================================================
