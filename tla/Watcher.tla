------------------------------- MODULE Watcher -------------------------------
(***************************************************************************)
(* event-watcher (internal/watcher/watcher.go): a poller, a normalizing     *)
(* stage and a publish stage, three goroutines joined by two channels, that *)
(* carry the Transfer logs of the tracked addresses from an Ethereum node   *)
(* to the Kafka topic.                                                      *)
(*                                                                         *)
(* A block holds at most one transfer of a tracked address, so a log and    *)
(* the event made from it are known by their block number. lastBlock = 0    *)
(* stands for "nothing seen yet", as in the code; blocks are numbered from  *)
(* 1. Decoding of hexadecimal numbers, token symbols and amounts does not   *)
(* influence which events are published, and is left out.                   *)
(***************************************************************************)
EXTENDS Naturals, Sequences, FiniteSets, SequencesExt, FiniteSetsExt

CONSTANTS Addresses,    \* the accounts that transfer tokens
          Tracked,      \* the addresses of the wallets in the database
          NULL,         \* a block without a transfer of a tracked address
          Buffer,       \* capacity of the rawLogs channel
          MaxBlock,     \* bound on the chain
          MaxPolls,     \* bound on successful polls
          MaxStops,     \* bound on crashes and shutdowns
          MaxLostAcks   \* bound on publishes that are applied and fail

ASSUME WatcherAssumption ==
    /\ Tracked \subseteq Addresses
    /\ Buffer \in Nat \ {0}
    /\ {MaxBlock, MaxPolls, MaxStops, MaxLostAcks} \subseteq Nat

VARIABLES
    chain,       \* the transfer in each block
    run,         \* Run: "off", "running", "stopping" (context cancelled)
    (* the poller *)
    poller,      \* "select", "incoming" (second request), "send", "done"
    lastBlock,
    batch,       \* the fetched logs not yet sent
    newBlock,    \* the highest block among those of this poll
    rawLogs,     \* the channel to the normalizer, closed when poller is done
    (* the normalizer and the publish stage: the item in hand, or 0 *)
    normalizing,
    normalizer,  \* "running" or "done"
    normalized,  \* the channel to the publish stage, closed at "done"
    publishing,
    publisher,   \* "running" or "done"
    (* the world *)
    topic,       \* the published events
    fetched,     \* history: every log a poll has returned
    (* history of this run, for what it may skip *)
    asked,       \* the latest block when the first request of a poll was answered
    since,       \* the lowest block of the first poll that fetched any...
    until,       \* ... and its highest
    between,     \* the blocks mined between the two requests of a poll, before
                 \* the highest it fetched
    polls, stops, lostAcks

chainVars   == <<chain, topic, fetched>>
skipVars    == <<asked, since, until, between>>
pollerVars  == <<poller, lastBlock, batch, newBlock, skipVars, polls>>
stageVars   == <<normalizing, normalizer>>
publishVars == <<publishing, publisher>>
vars == <<chainVars, run, pollerVars, rawLogs, stageVars, normalized,
          publishVars, stops, lostAcks>>

Transfers == {t \in [from : Addresses, to : Addresses] :
                 t.from \in Tracked \/ t.to \in Tracked}

Latest == Len(chain)

(* NormalizeTransferLog looks at the sender first: a transfer between two   *)
(* tracked addresses is the sender's.                                       *)
Outgoing(b) == chain[b].from \in Tracked
Wallet(b)   == IF Outgoing(b) THEN chain[b].from ELSE chain[b].to

(* What one eth_getLogs request returns: the blocks from a given one to the *)
(* latest whose transfer matches the topic filter. Without a starting block *)
(* only the latest block is asked for.                                      *)
Logs(from, filter) ==
    LET start == IF from = 0 THEN Latest ELSE from
    IN  {b \in 1 .. Latest : b >= start /\ chain[b] \in filter}

OutgoingLogs(from) == Logs(from, {t \in Transfers : t.from \in Tracked})
IncomingLogs(from) == Logs(from, {t \in Transfers : t.to \in Tracked})

(* The node returns logs in the order of the chain.                         *)
Ascending(S) ==
    {s \in [1 .. Cardinality(S) -> S] :
        /\ ToSet(s) = S
        /\ \A i, j \in DOMAIN s : i < j => s[i] < s[j]}

Fresh ==
    /\ lastBlock' = 0
    /\ asked' = 0 /\ since' = 0 /\ until' = 0 /\ between' = {}
    /\ batch' = <<>> /\ newBlock' = 0
    /\ rawLogs' = <<>> /\ normalized' = <<>>
    /\ normalizing' = 0 /\ publishing' = 0
    /\ poller' = "select" /\ normalizer' = "running" /\ publisher' = "running"

Init ==
    /\ chain = <<>> /\ topic = <<>> /\ fetched = {}
    /\ run = "off"
    /\ poller = "select" /\ lastBlock = 0 /\ batch = <<>> /\ newBlock = 0
    /\ rawLogs = <<>> /\ normalized = <<>>
    /\ normalizing = 0 /\ normalizer = "running"
    /\ publishing = 0 /\ publisher = "running"
    /\ asked = 0 /\ since = 0 /\ until = 0 /\ between = {}
    /\ polls = 0 /\ stops = 0 /\ lostAcks = 0

Mine(t) ==
    /\ Latest < MaxBlock
    /\ chain' = Append(chain, t)
    /\ UNCHANGED <<topic, fetched, run, pollerVars, rawLogs, stageVars,
                   normalized, publishVars, stops, lostAcks>>

(* The process starts; nothing of an earlier run is left but the topic.     *)
Start ==
    /\ run = "off"
    /\ run' = "running"
    /\ UNCHANGED <<chainVars, pollerVars, rawLogs, stageVars, normalized,
                   publishVars, stops, lostAcks>>

(* The ticker fires and the first request of FetchLogs is answered.         *)
FetchOutgoing ==
    /\ run = "running" /\ poller = "select"
    /\ Latest > 0 /\ polls < MaxPolls
    /\ polls' = polls + 1
    /\ batch' \in Ascending(OutgoingLogs(lastBlock))
    /\ poller' = "incoming"
    /\ asked' = Latest
    /\ UNCHANGED <<chainVars, run, lastBlock, newBlock, since, until, between,
                   rawLogs, stageVars, normalized, publishVars, stops, lostAcks>>

(* The second request is answered; blocks may have been mined in between.   *)
FetchIncoming ==
    /\ run = "running" /\ poller = "incoming"
    /\ \E incoming \in Ascending(IncomingLogs(lastBlock)) :
          batch' = batch \o incoming
    /\ newBlock' = Max({0} \cup ToSet(batch'))
    /\ fetched' = fetched \cup ToSet(batch')
    /\ between' = between \cup (asked + 1 .. newBlock' - 1)
    /\ IF since = 0 /\ batch' # <<>>
       THEN since' = Min(ToSet(batch')) /\ until' = newBlock'
       ELSE UNCHANGED <<since, until>>
    /\ asked' = 0
    /\ poller' = "send"
    /\ UNCHANGED <<chain, topic, run, lastBlock, polls, rawLogs, stageVars,
                   normalized, publishVars, stops, lostAcks>>

(* Either request fails: the poll is abandoned until the next tick.         *)
FetchFails ==
    /\ poller = "incoming"
    /\ poller' = "select"
    /\ batch' = <<>>
    /\ asked' = 0
    /\ UNCHANGED <<chainVars, run, lastBlock, newBlock, since, until, between,
                   polls, rawLogs, stageVars, normalized, publishVars, stops,
                   lostAcks>>

(* Variant: the poller does not wait for room in the channel.               *)
PollerSendUnbounded ==
    /\ run # "off" /\ poller = "send"
    /\ batch # <<>>
    /\ rawLogs' = Append(rawLogs, Head(batch))
    /\ batch' = Tail(batch)
    /\ UNCHANGED <<chainVars, run, poller, lastBlock, newBlock, skipVars, polls,
                   stageVars, normalized, publishVars, stops, lostAcks>>

(* rawLogs <- rl, which waits while the channel is full.                    *)
PollerSend ==
    /\ run # "off" /\ poller = "send"
    /\ batch # <<>>
    /\ Len(rawLogs) < Buffer
    /\ rawLogs' = Append(rawLogs, Head(batch))
    /\ batch' = Tail(batch)
    /\ UNCHANGED <<chainVars, run, poller, lastBlock, newBlock, skipVars, polls,
                   stageVars, normalized, publishVars, stops, lostAcks>>

(* Variant: lastBlock moves to the latest block of the chain.               *)
AdvanceToLatest ==
    /\ run # "off" /\ poller = "send"
    /\ batch = <<>>
    /\ lastBlock' = Latest
    /\ newBlock' = 0
    /\ poller' = "select"
    /\ UNCHANGED <<chainVars, run, batch, skipVars, polls, rawLogs, stageVars,
                   normalized, publishVars, stops, lostAcks>>

(* The batch is sent: lastBlock moves to the highest block seen, which the  *)
(* next poll asks for once more.                                            *)
Advance ==
    /\ run # "off" /\ poller = "send"
    /\ batch = <<>>
    /\ lastBlock' = IF newBlock > lastBlock THEN newBlock ELSE lastBlock
    /\ newBlock' = 0
    /\ poller' = "select"
    /\ UNCHANGED <<chainVars, run, batch, skipVars, polls, rawLogs, stageVars,
                   normalized, publishVars, stops, lostAcks>>

(* Variant: the poller returns without closing rawLogs.                     *)
PollerLeaves ==
    /\ run = "stopping"
    /\ poller \in {"select", "send"}
    /\ UNCHANGED vars

(* ctx.Done(): the poller returns, what it had not sent is dropped.         *)
PollerStops ==
    /\ run = "stopping"
    /\ \/ poller = "select"
       \/ poller = "send" /\ batch # <<>>
    /\ poller' = "done"
    /\ batch' = <<>>
    /\ UNCHANGED <<chainVars, run, lastBlock, newBlock, skipVars, polls, rawLogs,
                   stageVars, normalized, publishVars, stops, lostAcks>>

(* Stage receives an item; when the context is cancelled it returns and the *)
(* item is dropped.                                                         *)
StageReceive ==
    /\ run # "off" /\ normalizer = "running"
    /\ normalizing = 0
    /\ rawLogs # <<>>
    /\ rawLogs' = Tail(rawLogs)
    /\ IF run = "running"
       THEN normalizing' = Head(rawLogs) /\ UNCHANGED normalizer
       ELSE normalizer' = "done" /\ UNCHANGED normalizing
    /\ UNCHANGED <<chainVars, run, pollerVars, normalized, publishVars, stops,
                   lostAcks>>

StageSend ==
    /\ run # "off" /\ normalizing # 0
    /\ normalized = <<>>
    /\ normalized' = <<normalizing>>
    /\ normalizing' = 0
    /\ UNCHANGED <<chainVars, run, pollerVars, rawLogs, normalizer,
                   publishVars, stops, lostAcks>>

(* Stage returns: its input is closed and drained, or the context is        *)
(* cancelled while its output is full.                                      *)
StageStops ==
    /\ run = "stopping" /\ normalizer = "running"
    /\ \/ normalizing # 0
       \/ normalizing = 0 /\ rawLogs = <<>> /\ poller = "done"
    /\ normalizer' = "done"
    /\ normalizing' = 0
    /\ UNCHANGED <<chainVars, run, pollerVars, rawLogs, normalized,
                   publishVars, stops, lostAcks>>

PublishReceive ==
    /\ run # "off" /\ publisher = "running"
    /\ publishing = 0
    /\ normalized # <<>>
    /\ publishing' = Head(normalized)
    /\ normalized' = Tail(normalized)
    /\ UNCHANGED <<chainVars, run, pollerVars, rawLogs, stageVars, publisher,
                   stops, lostAcks>>

Publish ==
    /\ run # "off" /\ publishing # 0
    /\ topic' = Append(topic, publishing)
    /\ publishing' = 0
    /\ UNCHANGED <<chain, fetched, run, pollerVars, rawLogs, stageVars,
                   normalized, publisher, stops, lostAcks>>

(* The write is applied or not.                                             *)
Written ==
    \/ UNCHANGED <<topic, lostAcks>>
    \/ /\ lostAcks < MaxLostAcks
       /\ lostAcks' = lostAcks + 1
       /\ topic' = Append(topic, publishing)

(* Variant: a failed event is skipped.                                      *)
PublishSkips ==
    /\ run # "off" /\ publishing # 0
    /\ Written
    /\ publishing' = 0
    /\ IF run = "running"
       THEN UNCHANGED publisher
       ELSE publisher' = "done"
    /\ UNCHANGED <<chain, fetched, run, pollerVars, rawLogs, stageVars,
                   normalized, stops>>

(* Variant: a failed event goes to the back of the queue.                   *)
PublishRequeues ==
    /\ run # "off" /\ publishing # 0
    /\ Written
    /\ normalized' = Append(normalized, publishing)
    /\ publishing' = 0
    /\ UNCHANGED <<chain, fetched, run, pollerVars, rawLogs, stageVars,
                   publisher, stops>>

(* Publish reports an error: it is tried again with the same event for as   *)
(* long as the context lives, then the publish stage returns.               *)
PublishFails ==
    /\ run # "off" /\ publishing # 0
    /\ Written
    /\ IF run = "running"
       THEN UNCHANGED publishVars
       ELSE publisher' = "done" /\ publishing' = 0
    /\ UNCHANGED <<chain, fetched, run, pollerVars, rawLogs, stageVars,
                   normalized, stops>>

(* The channel from the normalizer is closed and drained.                   *)
PublisherStops ==
    /\ publisher = "running" /\ publishing = 0
    /\ normalized = <<>> /\ normalizer = "done"
    /\ publisher' = "done"
    /\ UNCHANGED <<chainVars, run, pollerVars, rawLogs, stageVars, normalized,
                   publishing, stops, lostAcks>>

Stopped ==
    /\ run # "off" /\ stops < MaxStops
    /\ stops' = stops + 1

(* SIGINT or SIGTERM cancels the context.                                   *)
Cancel ==
    /\ Stopped
    /\ run = "running"
    /\ run' = "stopping"
    /\ UNCHANGED <<chainVars, pollerVars, rawLogs, stageVars, normalized,
                   publishVars, lostAcks>>

(* Run waits for the publish stage only; with the process the others end.   *)
Return ==
    /\ run = "stopping" /\ publisher = "done"
    /\ run' = "off"
    /\ Fresh
    /\ UNCHANGED <<chainVars, polls, stops, lostAcks>>

Crash ==
    /\ Stopped
    /\ run' = "off"
    /\ Fresh
    /\ UNCHANGED <<chainVars, polls, lostAcks>>

Next ==
    \/ \E t \in Transfers \cup {NULL} : Mine(t)
    \/ Start \/ Cancel \/ Return \/ Crash
    \/ FetchOutgoing \/ FetchIncoming \/ FetchFails
    \/ PollerSend \/ Advance \/ PollerStops
    \/ StageReceive \/ StageSend \/ StageStops
    \/ PublishReceive \/ Publish \/ PublishFails \/ PublisherStops

Spec == Init /\ [][Next]_vars

(* The goroutines are scheduled, a request to the node ends once its        *)
(* context is cancelled, and Kafka accepts a publish that is repeated long  *)
(* enough. The node's client has no timeout: while the watcher runs, a      *)
(* request may hang. Nothing is assumed of the chain, of crashes and of who *)
(* stops or starts the process.                                             *)
Fairness ==
    /\ WF_vars(run = "stopping" /\ (FetchIncoming \/ FetchFails))
    /\ WF_vars(PollerSend) /\ WF_vars(Advance) /\ WF_vars(PollerStops)
    /\ WF_vars(StageReceive) /\ WF_vars(StageSend) /\ WF_vars(StageStops)
    /\ WF_vars(PublishReceive) /\ WF_vars(Publish) /\ WF_vars(PublisherStops)
    /\ WF_vars(Return)

FairSpec == Spec /\ Fairness

-----------------------------------------------------------------------------
Blocks == 1 .. Len(chain)

(* Channels hold logs of the chain within their capacity, and a goroutine   *)
(* that has returned holds nothing: however slow Kafka is, the watcher      *)
(* never has more than Buffer + 3 logs outside the batch it is sending.     *)
TypeOK ==
    /\ chain \in Seq(Transfers \cup {NULL})
    /\ run \in {"off", "running", "stopping"}
    /\ poller \in {"select", "incoming", "send", "done"}
    /\ {lastBlock, newBlock, normalizing, publishing} \subseteq Blocks \cup {0}
    /\ {asked, since, until} \subseteq Blocks \cup {0} /\ between \subseteq Blocks
    /\ batch \in Seq(Blocks) /\ rawLogs \in Seq(Blocks)
    /\ normalized \in Seq(Blocks) /\ topic \in Seq(Blocks)
    /\ Len(rawLogs) <= Buffer /\ Len(normalized) <= 1
    /\ fetched \subseteq Blocks
    /\ normalizer = "done" => normalizing = 0
    /\ publisher = "done" => publishing = 0

(* Where a log is that a complete poll has returned and that is not yet     *)
(* published.                                                               *)
InFlight(b) ==
    \/ poller = "send" /\ b \in ToSet(batch)
    \/ b \in ToSet(rawLogs) \cup ToSet(normalized)
    \/ b \in {normalizing, publishing}

Published(b) == b \in ToSet(topic)

(* A transfer that two requests with one starting block can miss between    *)
(* them: it was mined after the first was answered, and before the highest  *)
(* block of the poll. The second request returns it if it is incoming, but  *)
(* not in the first productive poll of a run, whose two requests each ask   *)
(* for the latest block only.                                               *)
Raced(b) == b \in between /\ (Outgoing(b) \/ b < until)

(* From the first block it has fetched on, a running watcher loses a        *)
(* transfer to nothing but that race: every other one up to lastBlock is    *)
(* published or on its way to the topic, whatever was mined while a batch   *)
(* was handed on, polls and publishes failed and channels filled up.        *)
OnlyRacedSkipped ==
    run = "running" /\ since > 0 =>
        \A b \in since .. lastBlock :
            chain[b] # NULL => InFlight(b) \/ Published(b) \/ Raced(b)

(* The first publication of the events of one wallet and one direction is   *)
(* in the order of the chain, across polls, repeated blocks, repeated       *)
(* publishes and restarts.                                                  *)
InOrderPerDirection ==
    \A i, j \in DOMAIN topic :
        \/ j <= i
        \/ topic[i] <= topic[j]
        \/ Wallet(topic[i]) # Wallet(topic[j])
        \/ Outgoing(topic[i]) # Outgoing(topic[j])
        \/ \E k \in 1 .. i : topic[k] = topic[j]

(* A shutdown comes to its end wherever the three goroutines are: in a      *)
(* request, on a full or an empty channel, or in a failing publish.         *)
ShutdownCompletes == run = "stopping" ~> run = "off"

(* A log that was fetched is published, unless the watcher is stopped       *)
(* first: no publish error drops it.                                        *)
FetchedIsPublished ==
    \A b \in 1 .. MaxBlock :
        InFlight(b) ~> Published(b) \/ run # "running"

(* "In-flight events at shutdown are NOT acknowledged - the watcher         *)
(* refetches them from the chain on the next start" (watcher.go): a log     *)
(* that was fetched and that the next poll will not ask for again is        *)
(* published or on its way.                                                 *)
RefetchedAfterRestart ==
    run = "running" =>
        \A b \in fetched : b < lastBlock => InFlight(b) \/ Published(b)
=============================================================================
