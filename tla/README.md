# A verification development for portfolio-api

portfolio-api is a Go teaching project around crypto wallets: an HTTP/gRPC API
with JWT access tokens and rotating refresh tokens over PostgreSQL, a batch job
that takes portfolio snapshots, and an event pipeline
(Ethereum watcher -> Kafka -> persister, analytics, router -> RabbitMQ ->
notifier). This directory holds TLA+ models of its concurrent and
failure-prone parts, the TLC configurations that check them on small instances,
and proofs of the properties that matter most. Paths below are relative to the
repository.

## 1. Inventory

| Component | Code | State it keeps | Operations | What is hard about it |
|---|---|---|---|---|
| Refresh sessions | `internal/service/auth_service.go`, `internal/repository/postgres/refresh_token_repository.go` | table `refresh_tokens` | Login (issue), Refresh (lookup, Rotate, RevokeFamily), Logout | concurrent requests on one chain of tokens, row locks, statement snapshots, lost answers, expiry |
| Accounts | `auth_service.go`, `user_repository.go`, `internal/auth/argon2.go` | table `users` | Register, Login | duplicate registration races, case-insensitive uniqueness |
| Access tokens, authorisation | `internal/auth/jwt.go`, `internal/middleware/jwt.go`, `internal/grpcapi/auth_interceptor.go` | none | Issue, Verify, requireSelf | expiry boundary, two transports that must agree |
| Portfolio | `internal/service/portfolio_service.go` | table `wallets` | GetPortfolio, GetWallets, AddWallet | partial failure of providers |
| Providers | `internal/provider/**` | none | balances, prices, logs | remote calls that fail, break off, or never answer: their clients have no timeout |
| Kafka consumer | `internal/broker/kafka/consumer.go` | committed offset, reader position | Run, retries, commits, Close | rebalances, crashes, redelivery, poison pills |
| Persister | `internal/persister`, `event_repository.go` | table `wallet_events` | handler | idempotence, order, lost replies |
| Router | `internal/router`, `internal/broker/rabbitmq/publisher.go` | AMQP connection | handler, Publish with confirms | confirm timeouts, connection loss, unroutable messages |
| Notifier | `internal/notifier`, `internal/broker/rabbitmq/consumer.go` | queue, unacknowledged deliveries | Run, ack/nack | redelivery, prefetch, competing consumers |
| Analytics | `internal/analytics`, `cmd/event-analytics` | in-memory buckets | Apply, Snapshot, Dump | replay from the start, duplicates |
| Watcher | `internal/watcher`, `internal/provider/blockchain/ethereum_logs.go`, `internal/concurrent/pipeline.go` | `lastBlock`, channels | poll, normalise, publish with retry | two queries per poll, backpressure, restart |
| Snapshot runner | `internal/snapshot/runner.go` | tables `wallet_snapshots`, `wallet_snapshot_items` | Run, processWallet | a pool of workers, cancellation, status |
| Concurrency helpers | `internal/concurrent` | channels | Stage, Generate, RunWorkerPool, FanOut, Merge | closing and cancelling channels |
| Event identity and encoding | `internal/broker/event.go`, `topics.go`, `internal/watcher/normalizer.go` | none | log to event, envelope, id, key, row, routing key, bucket | one identity of an event over five programs and two spellings of an address |
| Transport | `internal/httpapi`, `internal/grpcapi` | none | decode, check, map errors | the same policy and the same error classes twice |
| API process | `cmd/api/main.go`, `internal/middleware` | two listeners, requests in flight | start, serve, recover, log, drain | two servers drained one after the other, clients that give up, hanging providers |
| Configuration | `internal/config/config.go` | none | Load | values that are missing, malformed, blank or out of range, and constructors that panic on them |
| Domain types | `internal/domain`, `internal/contracts` | none | errors, interfaces, records | nothing of their own: each is modelled where it is used |

How they interact: the API's handlers call the services, the services the
repositories and the providers; PostgreSQL is the only state requests share. The
watcher reads the wallets once, polls an Ethereum node and publishes to the Kafka
topic `wallet.events.v1`, keyed by wallet. Persister, router and analytics are
consumer groups of that topic, each built on the same `Consumer.Run`; the router
republishes to RabbitMQ, whose queue the notifier reads. The snapshot runner is a
job of its own over wallets, providers and two tables. Every program reads the
same configuration, and the API serves both transports from one process.

## 2. Modules

Dependencies point upwards; the `MC` modules add symmetry and constants:
`MCEventAnalytics` the logs, wallets and times over which two facts of
`TransferEvents` are evaluated, `MCApiProcess` the numbers and lists an operator
may have put into the environment.

```
RefreshSessions (abstract)
  ^ refined by RefreshTokens <- RefreshTokensProofs, MCRefreshTokens
KafkaConsumer <- KafkaConsumerProofs (lemmas of the group)
  ^ extended by EventPersister <- EventPersisterProofs, MCEventPersister
  ^ extended, with TransferEvents, by EventAnalytics <- EventAnalyticsProofs,
                                                        MCEventAnalytics
  ^ extended by EventRouter
                 ^ NotificationPath = EventRouter + (Queue == INSTANCE EventNotifier)
                     <- NotificationPathProofs (of the router, then of the path,
                                                with INSTANCE EventNotifierProofs),
                        MCNotificationPath
EventNotifier <- EventNotifierProofs, MCEventNotifier
Api <- ApiProofs, MCApi
Providers
  ^ extended, with Config, by ApiProcess <- ApiProofs, MCApiProcess
  ^ extended by SnapshotRunner <- PipelineProofs
Watcher <- PipelineProofs
```

| Module | State and its counterpart | Actions and their counterpart |
|---|---|---|
| `RefreshSessions` | `used`, `active`: which tokens exist, the one usable token of each login | what a login, a refresh, a logout or a replay may do; nothing of tables or requests |
| `RefreshTokens` | `issued`, `expiresAt`, `revokedAt`, `replacedBy` are the columns, `lock` the row locks of open transactions, `pc`, `tok`, `at`, `family`, `want` a request's local variables (`want` is the row its UPDATE has come to); `root`, `delivered` are history | one action per SQL statement: `FindByHash`, `SELECT ... FOR UPDATE`, the insert and update of `Rotate` with its COMMIT, the recursive UPDATE of `RevokeFamily` as its snapshot, its row locks taken one by one and kept, and its end, `Revoke`; failures and lost replies beside each |
| `KafkaConsumer` | `log` (one partition), `committed`, `owner`, and per process `pc`, `position`, `current`, `attempt` for the loop of `Consumer.Run` | `Fetch`, `Succeeded`/`Failed` (one attempt of `invokeWithRetry`), `Commit`, `CommitFails`, `Exit`; `Assign` is the group's side |
| `EventPersister` | `rows` (`wallet_events`), `gaveUp` | the handler: drop, insert, insert that reports an error |
| `TransferEvents` | none: functions | `NormalizeTransferLog`, `eventToEnvelope`, `makeEventID`, `Validate`, `Marshal`, `Unmarshal`, `validateForPersist`, `envelopeToDomain`, `RoutingKey`, `BucketKey`, the matching of binding keys |
| `EventAnalytics` | `counts` of the running aggregator; `main`, `dumper`, `copy` are where main and the dumper goroutine stand, `dumped` what was printed last | `Apply`, `Snapshot` and `Dump` of the dumper, `Signal`, `RunReturns`, `FinalDump` of main's end, `Die` without a dump, a start with empty buckets |
| `EventRouter` | `up` (RabbitMQ), `conn` (the publisher's connection), `published` (the queue) | a publish with its confirm, without one, and on a closed channel |
| `EventNotifier` | `ready`, `unacked` (the broker), `pc`, `inHand`, `attempt` (the consumer's loop), `alerted`, `discarded` | `Deliver`, `Receive`, one attempt of the handler, `Ack`, the nack that discards, lost connections, exits |
| `NotificationPath` | both of the above | the router's publish makes a message ready; RabbitMQ going down disconnects both sides in one step |
| `Watcher` | the chain, `lastBlock`, the poller's batch, both channels, the item each stage holds, the topic | each request of a poll, each channel operation, each publish, cancellation, the close cascade, crash and restart |
| `Providers` | none: functions | what each provider makes of each way a call can end |
| `SnapshotRunner` | both channels, each worker, the collector, the two tables | each channel operation, the processing of a wallet with its provider calls, each statement |
| `Config` | none: functions | `Load` and what the constructors require |
| `ApiProcess` | `phase` of main, the two servers, and per request its step in middleware and handler, its status, what was logged, whether its client is gone and its deadline over | start in the order of main, accept, handler, provider calls, recovery, logging, the answer; signal, the drain of HTTP with its deadline, `GracefulStop` |
| `Api` | `users`, `wallets`, the issued access tokens, a clock, and per request its input, step and answer; `wrote`, `known` are history | one action per SQL statement and provider call of Register, Login, GetPortfolio, GetWallets, AddWallet; the checks of each REST handler and each RPC, in their order, before the first of them; what the middleware, the interceptor and `requireSelf` refuse is one action, `Deny` |

Definitions commented "Variant" are plausible mistakes in the code that a
specification here does not use. Each property of each run below has one that
breaks it, recorded in `PROJECT.json`.

## 3. Runs

| Run | Question | Bounds, and why they are enough |
|---|---|---|
| `refresh_tokens` | Does one login ever have two usable tokens, does an ended session come back, is a revocation ever undone, do the two recursive queries of `RevokeFamily` see the whole chain, can any requests but replays wait for each other's rows in a circle, do the tables implement `RefreshSessions`? | 3 tokens, 2 requests, a clock that passes the lifetime: a rotation and a replay or a logout meet on one chain. The proofs below remove every bound. |
| `refresh_tokens_replay` | (violated) Does an answered replay leave no usable token in its chain? | 3 tokens: the chain, its rotation, and the token that escapes. |
| `event_persister` | At-least-once, order per partition, everything settled in the end. | 2 processes, 2 messages (or one twice), 2 attempts, 3 faults: a takeover, a late commit of the previous owner and another takeover. The proofs remove the bound for safety. |
| `event_notifier` | Is a message ever lost between queue, process and ack; does each one end? | 2 competing processes, prefetch 2, 3 messages, 2 lost connections or exits. |
| `notification_path` | End to end from the partition to the alert, with RabbitMQ restarting. | 2 routers, 1 notifier, 2 messages, 1 fault of any kind; every message is routable and decodable here, the other kinds are covered by the runs of the parts. |
| `event_router_outage` | (violated) Does the router drop nothing while RabbitMQ is down? | as above; one message is enough. |
| `watcher` | Is a transfer skipped other than by being mined between the two requests of one poll, is a fetched log dropped, the order per wallet and direction broken, a shutdown stuck? | Every chain of 3 blocks over a tracked and an untracked address, 2 polls, channel capacity 1, 1 stop, 1 publish that is applied and reported as failed: the channels fill, a poll overlaps the last block of the one before. |
| `watcher_restart` | (violated) Are the logs in flight at a stop fetched again? | 3 polls, 1 stop. |
| `snapshot_runner` | Is each wallet processed once, is a stored status true, does Run return? | 3 wallets, 2 workers: more wallets than workers and than room in the output channel. A deadline at any moment. |
| `event_analytics` | Are the counts rebuilt after a restart and exact while the partition stays assigned? Does a shutdown print the last numbers, is every event counted in the end? Is an event's id one log's, and does any consumer turn down what the watcher writes? | 1 process, as every process is a group of its own; 3 messages, which are the log of one transfer published twice around a full hour and an envelope of a later schema; 2 faults or shutdowns. The identity functions are evaluated over some hundred logs, pair by pair, and over every pair of maps that two runs of the watcher may have loaded from any of three wallets with two addresses. |
| `api` | One account per mailbox; nobody reads or writes another's wallets over either transport; answers tell what was stored, and alike over both transports; a portfolio misses no wallet; every stored wallet can be served. | 2 concurrent requests, 3 ids for users, 2 wallets, 2 mailboxes (one spelled in two ways, the other one with an account that has no hash or one of earlier parameters), a registered and an unknown network, valid and malformed wallet addresses, a token that expires: every property relates at most two requests or two rows. |
| `api_process` | Does every environment boot? Does a shutdown lose a request it should not, does it end, does the log agree with the answers, can a waiting client read that a provider timed out? | 1 REST request and 1 RPC, at any moment of the process; every combination of the configured values. Each server drains on its own and requests do not interact here, so one of each shows every order of a request and the shutdown. |

Every module states a type invariant. It was checked for all of them; the runs
keep it where it says more than types (the prefetch of the notifier, the bounds
of the watcher's pipeline), and for every module with a state of its own it is
proved. The inductive
invariants of section 5 were each checked on the instances of these runs before
they were proved, the watcher's also with a channel capacity of 2 and with two
tracked addresses.

Runs over systems that may really stop (every process down, the API exited,
bounds used up) switch the deadlock check off; the requests of `Api` and the
refresh tokens always have a step left and are checked for deadlock.

### What the violated runs show

* **A replay can leave a usable token.** `auth_service.go:34` says a replay
  revokes the whole chain. `RevokeFamily` (`refresh_token_repository.go:187`) is
  one UPDATE: it selects the chain in its snapshot, waits for the rotation that
  holds the newest row, and updates what it selected. The token that rotation
  inserts is not among them.
* **An outage of RabbitMQ drops events.** `router.go:27` says the router catches
  up from its committed offset. The consumer gives an event up after three
  attempts and commits it (`kafka/consumer.go:207-218`), one after the other.
* **Logs in flight are not refetched.** `watcher.go:225` says they are.
  `lastBlock` starts at 0 in each run and 0 means "latest block only".

Other differences and surprises met while reading, not given a run:

* Watcher: a transfer mined between the two requests of a poll can be skipped for
  good. An outgoing one is when a later block moves `lastBlock` past it. An incoming
  one is only in the first poll of a run that fetches anything, in which both
  requests ask for `latest`, each at its own time (`ethereum_logs.go:54-56`).
  `OnlyRacedSkipped` states that nothing else is skipped.
* Watcher: events of a wallet keep the chain's order only per direction, as a poll lists outgoing logs
  first (`kafka/publisher.go:100` speaks of the wallet's order); a transfer
  between two tracked wallets yields the sender's event only (`event.go:62`); of
  wallets with one address `loadTrackedAddresses` keeps one; a
  `WATCHER_POLL_INTERVAL` of zero or less parses and makes `time.NewTicker` panic
  (`Config.PollerAccepts` states what it would take).
* Event ids across restarts: each run of the watcher loads the tracked addresses
  anew (`watcher.go:411-423`) with a query that has no `ORDER BY`
  (`wallet_repository.go:65`). When two wallets have one address, or wallets are
  added between two runs, a log published in both can come out for another wallet or
  in the other direction, with another id, key and row. `EventIdentity` says when it
  does not.
* Event ids in the comments: `persister.go:12-13`, `event_repository.go:29-31` and
  `README.pt-BR.md:2323` derive the id from network, transaction, wallet and
  direction. The code also takes the index of the log (`watcher.go:275-284`). With
  the id the comments describe, two transfers of one transaction would share a row;
  the variant `makeEventIDOfTx` of `TransferEvents` is that id.
* Replays: two replays of one chain can deadlock, as an UPDATE locks its rows one
  after the other in no stated order. PostgreSQL fails one of them, and its request
  is answered with an internal error (`auth_service.go:271-273`, `287-289`) having
  revoked nothing. `OnlyReplaysDeadlock` states that nothing else can.
* Analytics: a reassignment without a restart makes it count again.
* Snapshots: after its deadline a row stays `pending` while `Run` returns a
  status; a price that cannot be had is stored as zero.
* RabbitMQ: a message no queue is bound for is returned and confirmed, and
  `Publish` succeeds, as its comment says it shall. The notifier declares and binds
  the queue (`rabbitmq/consumer.go:113-131`), so what the router publishes before a
  notifier has ever started is lost in this way.
* API: the gRPC `AddWallet` refuses a network name in mixed case that REST lowers
  and accepts; when the HTTP port is taken, the error is logged and the process
  goes on serving gRPC only; RPCs have no recovery interceptor, and
  `GracefulStop` has no deadline.
* Providers: their clients have no timeout and the context of a request ends only
  with its client, so a holding's timeout is never read by a client that waits
  (`NoTimeoutAnswered`); a body that breaks off because the context ended is an
  untyped error, although `ethereum.go:61` speaks of `ErrUpstreamTimeout` for
  timeouts.

## 4. Fairness

Safety runs assume none. The fair specifications (`FairSpec`, and `FairProcess` and
`FairSnapshot` of the API's process and the snapshot runner) assume weak fairness of the steps a running
goroutine or process takes on its own: the Go scheduler runs it, timers fire and
statements of the database return. In particular:

* Consumer groups: processes are started again. The code does not do that
  itself; whoever operates it does. The group assigns an unowned partition to a
  running member. Producing and faults are not fair; faults are bounded, as no
  retry loop can promise anything under endless ones.
* Notifier: RabbitMQ delivers what is ready to a connected consumer with room in
  its prefetch.
* Analytics: strong fairness of the dumper's return. After the context is cancelled
  its `select` may still take the ticker, which Go chooses at random, but not for
  ever; everything else is weak, and neither the ticker nor signals are fair.
* Watcher: Kafka accepts a publish that is repeated for ever, which
  `publishWithRetry` does. A request to the node ends once its context is
  cancelled; before that it may hang. The ticker, polls and stops are not fair.
* Snapshot runner: a wallet's provider calls end, at the latest with the job's
  deadline of five minutes; the deadline need not pass.
* API process: a provider owes an answer only to a call whose context has ended;
  requests, signals and clients owe nothing. `ShutdownEnds` therefore asks that no
  RPC hangs for ever, and asks nothing of HTTP requests.

No liveness is stated of the refresh tokens. `OnlyReplaysDeadlock` says instead that
whoever is waited for is in the middle of a statement or transaction of its own, and
that a circle of waiting requests has only replays in it, which PostgreSQL breaks by
failing one.

## 5. Proofs

**`RefreshTokensProofs`**: for every set of tokens and requests, every lifetime, and
any length of chain. The inductive invariant `IInv` is the type invariant, the
discipline of the row locks (a rotation between its lock and its commit holds its
row, which is unrevoked and unlinked; an UPDATE of `RevokeFamily` holds the selected
rows it has passed, in the end all of them), the shape of the table (a link stays
within its login, a token with a successor is revoked, a token without a row carries
nothing) and at most one unrevoked token per chain. None of the parts is inductive
alone: that `Rotate` keeps a single usable token needs that the row it burns is its
chain's only unrevoked one, which needs that nobody revoked or replaced it since it
was locked. From it follow `SingleActive`, `FamilyIsChain`, `EndedStaysEnded`,
`RevocationPermanent`, `OnlyReplaysDeadlock` (theorem `LocksEnd`: a rotation locks
one row and then waits for none, and a logout holds none while it waits, so neither
is in a circle), and `ImplementsSessions`: every step maps to a step of
`RefreshSessions` or to a stutter.

**`KafkaConsumerProofs`** holds what both consumer groups need, as lemmas over any
set of finished indexes of the log. `Vouched(S)` says that a process
vouches for what precedes its work: all messages before the one it handles, up to
the one it commits, and up to where its assignment reads, are finished. If nothing
finished is ever undone and a handler call that ends has finished its message, each
step of `Consumer.Run` and of the group keeps every vouch: a
commit, even one of a process that lost the partition long ago and even one that
moves the position backwards, moves it to a vouched point, and a takeover starts
from the committed position. `OwnerRuns` is needed because a starting process
keeps no vouch and therefore must own nothing. `InOrder(S, V)` adds that what took
effect has only finished messages before its first occurrence.

**`EventPersisterProofs`** and the first part of **`NotificationPathProofs`**, about
the router, instantiate them for every set of processes and messages, every number
of attempts, faults and messages: finished is what has a row, or was published,
dropped or reported. `AtLeastOnce` and `OrderedTable`, and `AtLeastOnce` and
`OrderedHandoff`, follow. The router's handler may publish and not learn of it, on
either side of a lost connection, so finished can only mean that a message is in the
queue at least once.

**`EventNotifierProofs`**: for every number of processes at the queue, every
prefetch and any number of messages and faults. `NoMessageLost` and the types are
not inductive: an acknowledgement removes the first delivery of a process, so
`ProcessOK` says that this is the one in its hand while its connection lives, that
a process about to acknowledge has alerted it, and that a lost connection leaves it
nothing to acknowledge. For one process alone `InQueueOrder` says that its
deliveries ascend, precede what is ready, and that everything before the message in
its hand is finished. A lost connection puts deliveries back at their places, so
the order survives redelivery (`OrderAlone`); with two processes it does not, and
nothing of the kind is claimed.

**`NotificationPathProofs`** then composes router and queue. Its invariant is the
conjunction of both, the queue's through an `INSTANCE` of its proofs, and of
`PublishedAfter`: when a message entered the queue, everything before its first
occurrence in the partition had been given up or was in the queue before it. Each
step of the path is a step of one part and a stuttering of the other up to what they
share, the published messages and the faults; RabbitMQ going down is a step of both.
`PathEndToEnd` and `PathOrder` join an order over the log with one over the queue
through `PublishedAfter`.

**`EventAnalyticsProofs`**: for every topic and any number of crashes, shutdowns and
reassignments. A count is compared with a tally, the number of countable messages up
to a point of the log, and the invariant ties that point to the reader: while the
process holds the partition it works on the message before its position, or it was
sent back to the first message and counts again what it counted before, which is why
its counts can only be too high and are exact as long as that has not happened.
`TallyNext` (one more message adds one to its own bucket or nothing) and `TallyKept`
(what arrives later changes no earlier tally) carry it over each step. `LastDump`:
main prints last, because the dumper is gone by then. The two facts about
`TransferEvents` are proved for all logs, wallets and times. Two publications, under
any two maps of tracked addresses, have one id exactly if they are of one log, for
one wallet and in one direction, and then have one key and one row; one log has one
id if both maps agree on its two addresses (`EventIdentified`, given that a node
reports one place of the chain in one way). And every consumer accepts what the
watcher publishes (`Accepted`).

**`PipelineProofs`**, the watcher: for every set of addresses, every channel
capacity, any number of blocks, polls and stops. The order of the topic depends on
everything that may still reach it, so the invariant is stated of one sequence,
`Stream`: the topic, what the publisher holds, the channel before it, what the
normalizer holds, the channel before that, and the poller's batch. Moving an item
from one place to the next leaves `Stream` as it is, a stop cuts off its end, a
publish reported as failed repeats its first item; only a poll extends it.
`BehindMark` says that nothing in it is later than where the next poll starts,
`FirstHalf` that the outgoing logs of a half-done poll ascend and have no gap, and
`BehindNext` that the poll will move the mark past all of it. Completeness
(`NothingSkipped`) goes through the two halves of a poll: `AskedCovered` says that the
first answer has every outgoing transfer up to what was the latest block then,
`PollCovers` that with the second one nothing up to the mark is missing but what was
mined between the two, `between`, and is outgoing or below the second `latest` of the
first productive poll (`Raced`). It is stated from the first block a run has fetched,
as the first poll asks for no earlier one. In this model a log is its block, as there
is one transfer per block.

**`PipelineProofs`**, the snapshot runner: for any wallets, any pool of workers and
any tokens. `Copies` of a wallet is a sum over five places, and a step moves a wallet
from one to the next; the lemmas on positions say what a send and a receive do to
the number of times a wallet occurs in a channel, and `SetToSeqOnce` that it starts in
one place. `StatusIsTrue` needs `EveryWalletOnce`: were a wallet read twice it could
be an error and have items. It also needs the order in which things close
(`ClosedInOrder`: while the context lives the generator ends after its last wallet,
and a worker when the channel is empty and closed), from which all five places but
the last are empty when the status is written. A deadline drops wallets, but then
the status cannot be written either.

**`ApiProofs`**, the requests: for any number of users, wallets and concurrent
requests. The tables only grow (`Grows`), so what a request read stays true while
others write; `RequestInv` says of each step what a request has established when it
is there: that it works for the subject of an issued token, that its wallets are
this subject's, that a password was verified, that the network and the address it is
about to store were accepted. `OneAccountPerMailbox` rests on the unique index and
on nothing before it, since the insert is the only check. From the invariant follow
`MailboxesUnique`, `OwnData`, `Truthful` (both transports, with their two tables of
status codes), `Complete` and `Servable`.

**`ApiProofs`**, the process: for any number of requests on both servers and any
numbers and lists in the environment. `MainOK` says which configuration main
holds and which requests may be in flight where it is: none before the servers
serve, RPCs until `GracefulStop` has waited for them, an HTTP request that outlived
the ten seconds of the drain until the process ends. `CallOK` says of each request
that it was lost only over HTTP and only by a deadline, that its log and its answer
agree, and that a timeout was read only after its client had gone. `Drained`,
`Logged` and `Untimed` follow; `Boots` needs that what `Load` returns satisfies every
constructor, for every environment.

The assumptions are the `ASSUME`s of the modules. Most say that the constants have
their types, that `NULL` (`Nil`, `None`) is none of the values it stands beside, and that a
prefetch, a lifetime, a capacity and a number of attempts are positive, as the defaults
of the configuration are. The others:

* `SnapshotAssumption`: there is a wallet and a worker. `Run` returns an error without
  wallets, and `NewRunner` takes three workers for a number that is not positive.
* `AnalyticsAssumption`: one process, since each is a consumer group of its own.
* `TransferAssumption`: a node names the transaction and the contract of a log, and a
  wallet has an id; an encoded envelope is not the garbage a decoder refuses.
* `ConfigAssumption`: an unset variable and a blank list entry are not values.

Each `ASSUME` is evaluated by the runs, on the constants they give.

## 6. Only model-checked

Every safety property that a run checks, invariants and action properties and the
refinement of `RefreshSessions`, is also a theorem. What remains with TLC:

* Liveness under fairness (`EverythingSettled` of persister and path,
  `EveryMessageEnds`, `EverythingCounted`, `FetchedIsPublished`,
  `ShutdownCompletes`, `RunReturns`, `ShutdownEnds`): fairness and `ENABLED` are out of
  the reach of the proof system's temporal backend.
* The three violated properties of section 3, which are statements of the code's
  comments and have counterexamples.
* That an action can happen at all: the runs show that every one does.

## 7. What stands outside

Modelled from how the code uses them, and marked external: Kafka's group protocol (a
member commits in whatever generation it is in, so a late commit can rewind the
position), RabbitMQ (a connection that ends makes what it had not acknowledged ready
again, at its place; the client library drops deliveries it had buffered; the queue
is bound before the router's first message, see `Connect`), PostgreSQL's row locks
and statement snapshots (it ends a deadlock by failing a request, which is
`RequestFails`; that those who wait for one row form a queue is left out), the
Ethereum node (without reorganisations), and the clients and servers of HTTP and
gRPC (when the context of a request ends, what a drain waits for).

Not modelled:

* Signatures of JWTs (a token stands for its claims), the key derivation of
  argon2id (a hash is its parameters and the password), collisions of the
  truncated SHA-256 that makes an event's id.
* The arithmetic of amounts, prices and totals in `float64`: properties over
  rounding need numbers TLC does not have.
* The text of JSON, protobuf and logs; ports, request ids and the peer's address.
* The seed rows, beyond accounts without a hash. Nothing in the repository
  deletes users or wallets, and neither does `Api`. A login's refresh token is
  inserted in `RefreshTokens`; `Api` keeps that insert as a statement that may fail.
* `FanOut` and `Merge`, which no program uses; the generated code of protobuf; the
  example clients; the test helpers.
* A SIGKILL of the API: it ends every request at once and leaves the tables as the
  last committed statement did, which `Api` and `RefreshTokens` cover as a failing
  or unanswered request.

## 8. Plan

Done, in the order of importance: refresh tokens with their proofs; the Kafka
consumer and the persister with their proofs; router, notifier and their
composition; watcher; snapshot runner; analytics; the API; the identity and
encoding of events; configuration, providers and the API's process; the proofs of
every safety property the runs check.

Left:

1. Models of several partitions per consumer process. The lemmas of
   `KafkaConsumerProofs` are about one partition; with more, `committed` and
   `position` become functions of the partition and `current` stays one message.
2. A chain with reorganisations for the watcher, once the code says what it does
   with an event that was published and then taken back.
