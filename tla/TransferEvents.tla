---------------------------- MODULE TransferEvents ----------------------------
(***************************************************************************)
(* What a transfer becomes on its way through the event pipeline: the log   *)
(* of an Ethereum node, the watcher's event, the envelope on Kafka, the row *)
(* of wallet_events, the routing key on RabbitMQ and the bucket of the      *)
(* analytics. These are pure functions of the code; the modules of the      *)
(* processes say when they are applied.                                     *)
(*                                                                         *)
(* A text that is compared after lowering is a pair of what it spells and   *)
(* how, so that an address in checksum spelling differs from the same one   *)
(* in lower case. A hexadecimal number is the number, or Malformed. Amounts *)
(* are in millionths, the six decimals "%.6f" keeps, and exact: that        *)
(* NormalizeTransferLog computes them in a float64 is left out.             *)
(***************************************************************************)
EXTENDS Integers, Sequences, FiniteSets

CONSTANTS Malformed,    \* a text that is no hexadecimal number
          Garbage,      \* bytes on the topic that are no envelope in JSON
          None,         \* nil
          Logs,         \* the logs the node may return
          Wallets,      \* the rows the wallets table may ever have
          Times         \* when the watcher may publish, in minutes

Lower == "lower"
Mixed == "mixed"

Texts == STRING \X {Lower, Mixed}

lower(text) == <<text[1], Lower>>
Spelled(s)  == <<s, Lower>>

-----------------------------------------------------------------------------
(* The log of a node and the watcher's event.                               *)

TransferTopic == Spelled("Transfer")

(* Topics shorter than an address, which topicToAddress turns into "".      *)
ShortTopic == Spelled("")

(* The values of RawLog: topics is the signature and the indexed arguments. *)
RawLogs ==
    [txHash : STRING, logIndex : Nat, blockNumber : Nat \cup {Malformed},
     address : Texts, topics : Seq(Texts), data : Nat \cup {Malformed},
     removed : BOOLEAN]

knownTokens ==
    [c \in {Spelled("usdc"), Spelled("usdt")} |->
        [symbol |-> IF c = Spelled("usdc") THEN "USDC" ELSE "USDT", decimals |-> 6]]

(* FindByBlockchain has no ORDER BY: which wallet is last, and kept, when   *)
(* several have one address, is open.                                       *)
TrackedAddresses(wallets) ==
    {tracked \in [{lower(w.address) : w \in wallets} -> {w.id : w \in wallets}] :
        \A a \in DOMAIN tracked :
            \E w \in wallets : lower(w.address) = a /\ w.id = tracked[a]}

(* Run loads the map once, from the wallets there are then: every run of    *)
(* the watcher may have another.                                            *)
TrackedMaps == UNION {TrackedAddresses(wallets) : wallets \in SUBSET Wallets}

topicToAddress(topic) == lower(topic)

parseTransferAmount(data) == IF data = Malformed THEN 0 ELSE data

Amount(raw) ==
    LET units == parseTransferAmount(raw.data)
        c     == lower(raw.address)
    IN  IF c \in DOMAIN knownTokens
        THEN units * 10 ^ (6 - knownTokens[c].decimals)
        ELSE units * 10 ^ 6

(* Variant: a contract that is not known has no symbol.                     *)
NoSymbol(raw) ==
    LET c == lower(raw.address)
    IN  IF c \in DOMAIN knownTokens THEN knownTokens[c].symbol ELSE ""

TokenSymbol(raw) ==
    LET c == lower(raw.address)
    IN  IF c \in DOMAIN knownTokens THEN knownTokens[c].symbol ELSE "UNKNOWN"

(* A token transfer that touches a tracked address. Three topics or more:   *)
(* a transfer of an NFT, with four, passes too.                             *)
Relevant(raw, tracked) ==
    /\ ~raw.removed
    /\ Len(raw.topics) >= 3
    /\ lower(raw.topics[1]) = TransferTopic
    /\ {topicToAddress(raw.topics[2]), topicToAddress(raw.topics[3])}
            \cap DOMAIN tracked # {}

(* The event of a log, or None: the log is skipped. The sender is looked up *)
(* first, a transfer between two tracked addresses is the sender's.         *)
NormalizeTransferLog(raw, tracked) ==
    LET from     == topicToAddress(raw.topics[2])
        to       == topicToAddress(raw.topics[3])
        outgoing == from \in DOMAIN tracked
    IN  IF ~Relevant(raw, tracked) \/ raw.blockNumber = Malformed
        THEN None
        ELSE [walletID        |-> tracked[IF outgoing THEN from ELSE to],
              direction       |-> IF outgoing THEN "outgoing" ELSE "incoming",
              txHash          |-> raw.txHash,
              logIndex        |-> raw.logIndex,
              blockNumber     |-> raw.blockNumber,
              contractAddress |-> lower(raw.address),
              eventType       |-> "transfer",
              amount          |-> Amount(raw),
              tokenSymbol     |-> TokenSymbol(raw)]

(* The values of WalletEvent for these logs and wallets.                    *)
WalletEvents ==
    [walletID        : {w.id : w \in Wallets},
     direction       : {"incoming", "outgoing"},
     txHash          : {r.txHash : r \in Logs},
     logIndex        : Nat,
     blockNumber     : Nat,
     contractAddress : {lower(r.address) : r \in Logs},
     eventType       : {"transfer"},
     amount          : Nat,
     tokenSymbol     : {"USDC", "USDT", "UNKNOWN"}]

-----------------------------------------------------------------------------
(* The envelope on the topic.                                               *)

SchemaCurrent == 1

(* Variant: the log's index is not part of the id, as the comments of the   *)
(* persister and of EventRepository.Create describe it.                     *)
makeEventIDOfTx(network, e) ==
    <<network, e.txHash, e.walletID, e.direction>>

(* The first 64 bits of a SHA-256; collisions of the hash are left out.     *)
makeEventID(network, e) ==
    <<network, e.txHash, e.logIndex, e.walletID, e.direction>>

(* The log's index and the raw payload stay behind.                         *)
eventToEnvelope(e, now) ==
    [eventID         |-> makeEventID("ethereum", e),
     schemaVersion   |-> SchemaCurrent,
     network         |-> "ethereum",
     eventType       |-> e.eventType,
     direction       |-> e.direction,
     walletID        |-> e.walletID,
     tokenSymbol     |-> e.tokenSymbol,
     contractAddress |-> e.contractAddress,
     amount          |-> e.amount,
     txHash          |-> e.txHash,
     blockNumber     |-> e.blockNumber,
     emittedAt       |-> now]

(* The values of EventEnvelope the watcher makes.                           *)
EventEnvelopes ==
    [eventID : {"ethereum"} \X {r.txHash : r \in Logs} \X Nat
                   \X {w.id : w \in Wallets} \X {"incoming", "outgoing"},
     schemaVersion : {SchemaCurrent}, network : {"ethereum"},
     eventType : {"transfer"}, direction : {"incoming", "outgoing"},
     walletID : {w.id : w \in Wallets}, tokenSymbol : {"USDC", "USDT", "UNKNOWN"},
     contractAddress : {lower(r.address) : r \in Logs}, amount : Nat,
     txHash : {r.txHash : r \in Logs}, blockNumber : Nat, emittedAt : Times]

KafkaMessages == [key : {w.id : w \in Wallets}, value : EventEnvelopes]

(* A node names the transaction and the contract of a log, and the table    *)
(* has an id for every wallet. nil is no value of another type.             *)
ASSUME TransferAssumption ==
    /\ Logs \subseteq RawLogs
    /\ \A r \in Logs : r.txHash # "" /\ lower(r.address) # Spelled("")
    /\ \A w \in Wallets : w.address \in Texts /\ w.id # ""
    /\ Times \subseteq Nat
    /\ None \notin Nat \cup WalletEvents \cup EventEnvelopes \cup KafkaMessages
    /\ Garbage \notin EventEnvelopes

Validate(env) ==
    /\ env.schemaVersion = SchemaCurrent
    /\ env.eventID # <<>>
    /\ env.network # "" /\ env.walletID # "" /\ env.txHash # ""
    /\ env.contractAddress # Spelled("")

(* Marshal refuses what Unmarshal would; the envelope's fields all have a   *)
(* JSON form that is read back as it was.                                   *)
Marshal(env) == IF Validate(env) THEN env ELSE None

(* What the watcher writes for a log: the message's key and value, or None. *)
Published(raw, tracked, now) ==
    LET e   == NormalizeTransferLog(raw, tracked)
        env == eventToEnvelope(e, now)
    IN  IF e = None \/ Marshal(env) = None
        THEN None
        ELSE [key |-> env.walletID, value |-> Marshal(env)]

(* The envelope of a message's value, or None.                              *)
Unmarshal(value) ==
    IF value = Garbage \/ ~Validate(value) THEN None ELSE value

-----------------------------------------------------------------------------
(* What the consumers make of an envelope.                                  *)

validateForPersist(env) ==
    /\ env.direction \in {"incoming", "outgoing"}
    /\ env.eventType # "" /\ env.tokenSymbol # "" /\ env.amount # None

(* The row; the table's primary key is id.                                  *)
envelopeToDomain(env) ==
    [id |-> env.eventID, walletID |-> env.walletID, txHash |-> env.txHash,
     blockNumber |-> env.blockNumber, contractAddress |-> env.contractAddress,
     eventType |-> env.eventType, direction |-> env.direction,
     amount |-> env.amount, tokenSymbol |-> env.tokenSymbol]

LowerSymbol ==
    [USDC |-> "usdc", USDT |-> "usdt", UNKNOWN |-> "unknown"]

RoutingKey(env) == <<env.network, env.direction, LowerSymbol[env.tokenSymbol]>>

(* A topic exchange: "*" is one word, "#" at the end of a pattern the rest. *)
Matches(pattern, key) ==
    LET rest == Len(pattern) > 0 /\ pattern[Len(pattern)] = "#"
        n    == IF rest THEN Len(pattern) - 1 ELSE Len(pattern)
    IN  /\ IF rest THEN Len(key) >= n ELSE Len(key) = n
        /\ \A i \in 1 .. n : pattern[i] \in {"*", key[i]}

(* NOTIFIER_BINDING_KEY's default, and the doc's example of a wider one.    *)
DefaultBinding == <<"*", "incoming", "*">>
AllOfEthereum  == <<"ethereum", "#">>

(* Minutes; an hour has 60. What the watcher emits is never the zero time.  *)
hourBucket(t) == t - (t % 60)

BucketKey(env) ==
    [network |-> env.network, direction |-> env.direction,
     token |-> env.tokenSymbol, hour |-> hourBucket(env.emittedAt)]

-----------------------------------------------------------------------------
(* A place in the chain, a transaction and an index, has one log, which the *)
(* node may spell differently from call to call.                            *)
OneLog(r, s) ==
    /\ r.txHash = s.txHash /\ r.logIndex = s.logIndex
    /\ lower(r.address) = lower(s.address)
    /\ Len(r.topics) = Len(s.topics)
    /\ \A i \in DOMAIN r.topics : lower(r.topics[i]) = lower(s.topics[i])
    /\ <<r.blockNumber, r.data>> = <<s.blockNumber, s.data>>

SamePlace(r, s) == r.txHash = s.txHash /\ r.logIndex = s.logIndex

(* Both maps say the same of the two addresses of a log.                    *)
SameHolders(r, tracked, tracked2) ==
    \A a \in {topicToAddress(r.topics[2]), topicToAddress(r.topics[3])} :
        /\ a \in DOMAIN tracked <=> a \in DOMAIN tracked2
        /\ a \in DOMAIN tracked => tracked[a] = tracked2[a]

(* The identity of an event over the whole pipeline, for two publications   *)
(* that may be of two runs with two maps. They have one id exactly when     *)
(* they are of one log, for one wallet and in one direction, however the    *)
(* node and the database spell addresses and whenever they are made; then   *)
(* key and row are the same, and the insert of the second may be ignored.   *)
(* Logs of a transaction that touch one wallet in one direction keep ids of *)
(* their own. And one log has one id as long as the watcher's maps agree on *)
(* its two addresses: within a run always, and over a restart unless a      *)
(* wallet came or went, or the query returned two wallets of one address in *)
(* another order. Otherwise one log may get a second id, key and row.       *)
IdentityHolds(tracked, tracked2, now, later) ==
    LET Written(t, time) == {r \in Logs : Published(r, t, time) # None}
        second           == Written(tracked2, later)
    IN  \A r \in Written(tracked, now), s \in second :
            (SamePlace(r, s) => OneLog(r, s)) =>
            LET p == Published(r, tracked, now)
                q == Published(s, tracked2, later)
            IN  /\ p.value.eventID = q.value.eventID <=>
                       /\ OneLog(r, s)
                       /\ <<p.value.walletID, p.value.direction>>
                             = <<q.value.walletID, q.value.direction>>
                /\ p.value.eventID = q.value.eventID =>
                       /\ p.key = q.key
                       /\ envelopeToDomain(p.value) = envelopeToDomain(q.value)
                /\ OneLog(r, s) /\ SameHolders(r, tracked, tracked2) =>
                       p.value.eventID = q.value.eventID

(* What the watcher writes no consumer turns down: it is decoded, persisted *)
(* and routed, and it reaches the notifier's default binding exactly when   *)
(* a tracked wallet received the tokens and their sender is not tracked.    *)
(* And what it passes over touches no tracked address, but for logs the     *)
(* chain has taken back, other events and blocks without a number.          *)
AcceptedDownstream(tracked, now) ==
    \A r \in Logs :
        LET p == Published(r, tracked, now)
        IN  IF p = None
            THEN \/ r.removed \/ Len(r.topics) < 3 \/ r.blockNumber = Malformed
                 \/ lower(r.topics[1]) # TransferTopic
                 \/ \A i \in 2 .. 3 : lower(r.topics[i]) \notin DOMAIN tracked
            ELSE /\ Unmarshal(p.value) # None
                 /\ validateForPersist(p.value)
                 /\ Matches(AllOfEthereum, RoutingKey(p.value))
                 /\ Matches(DefaultBinding, RoutingKey(p.value))
                        <=> lower(r.topics[2]) \notin DOMAIN tracked
=============================================================================
