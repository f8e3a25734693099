---------------------------- MODULE SnapshotRunner ----------------------------
(***************************************************************************)
(* One run of snapshot-runner (internal/snapshot/runner.go): the wallets    *)
(* flow through a generator, a pool of workers and a collector, joined by   *)
(* channels (internal/concurrent/pipeline.go, workerpool.go); the collector *)
(* then stores the items and the status of the snapshot. The context ends   *)
(* when its deadline passes, at any moment.                                 *)
(*                                                                         *)
(* An item is a pair of a wallet and an asset. Amounts and prices are left  *)
(* out: a price that cannot be had is stored as zero.                       *)
(***************************************************************************)
EXTENDS Naturals, Sequences, FiniteSets, SequencesExt, Providers

CONSTANTS Wallets,   \* the Ethereum wallets in the database
          Workers,   \* the goroutines of the pool
          Native,    \* the asset GetBalance returns
          Tokens,    \* defaultTokens
          Nil

ASSUME SnapshotAssumption ==
    /\ IsFiniteSet(Wallets) /\ Wallets # {}
    /\ IsFiniteSet(Workers) /\ Workers # {}
    /\ Native \notin Tokens
    /\ Nil \notin Wallets

VARIABLES
    stage,      \* "start", "collect", "persist" or "returned"
    expired,    \* whether the context's deadline has passed
    row,        \* wallet_snapshots.status, "none" without a row
    stored,     \* wallet_snapshot_items
    answer,     \* the status Run returns, "error" with an error
    (* the generator *)
    toSend,     \* the wallets not yet in walletCh
    generator,  \* "running", or "done" when walletCh is closed
    walletCh,
    (* the pool *)
    worker,     \* per worker "receive", "process", "send" or "done"
    wallet,     \* the wallet it works on
    result,     \* the assets it found, {} for an error
    resultCh,   \* pairs of a wallet and its assets; closed when all are done
    (* the collector *)
    collected,  \* the wallets whose result has been read
    errors,     \* those among them with an error
    items       \* allItems, less those tried to store

channels   == <<toSend, generator, walletCh, resultCh>>
workerVars == <<worker, wallet, result>>
collector  == <<collected, errors, items>>
database   == <<row, stored>>
snapshotVars ==
    <<stage, expired, answer, database, channels, workerVars, collector>>

SnapshotInit ==
    /\ stage = "start" /\ expired = FALSE
    /\ row = "none" /\ stored = {} /\ answer = Nil
    /\ toSend = SetToSeq(Wallets)
    /\ generator = "running" /\ walletCh = <<>> /\ resultCh = <<>>
    /\ worker = [k \in Workers |-> "receive"]
    /\ wallet = [k \in Workers |-> Nil]
    /\ result = [k \in Workers |-> {}]
    /\ collected = {} /\ errors = {} /\ items = {}

(* The five minutes of the context are over.                                *)
Expire ==
    /\ ~expired
    /\ expired' = TRUE
    /\ UNCHANGED <<stage, answer, database, channels, workerVars, collector>>

(* CreateSnapshot inserts the row and the goroutines are started.           *)
Create ==
    /\ stage = "start" /\ ~expired
    /\ row' = "pending"
    /\ stage' = "collect"
    /\ UNCHANGED <<expired, stored, answer, channels, workerVars, collector>>

(* The wallets cannot be read, or CreateSnapshot reports an error, applied  *)
(* or not: Run returns it.                                                  *)
CreateFails ==
    /\ stage = "start"
    /\ row' \in {row} \cup (IF expired THEN {} ELSE {"pending"})
    /\ stage' = "returned" /\ answer' = "error"
    /\ UNCHANGED <<expired, stored, channels, workerVars, collector>>

(* Generate: the channel has room for all wallets. Once the context is done *)
(* either case of the select may be taken.                                  *)
Generate ==
    /\ stage = "collect" /\ generator = "running"
    /\ toSend # <<>>
    /\ walletCh' = Append(walletCh, Head(toSend))
    /\ toSend' = Tail(toSend)
    /\ UNCHANGED <<stage, expired, answer, database, generator, workerVars,
                   resultCh, collector>>

(* Generate has sent every wallet, or returns early: the channel is closed. *)
GenerateEnds ==
    /\ stage = "collect" /\ generator = "running"
    /\ toSend = <<>> \/ expired
    /\ generator' = "done"
    /\ UNCHANGED <<stage, expired, answer, database, toSend, walletCh,
                   workerVars, resultCh, collector>>

(* Any idle worker may receive the next wallet; if the context is done it   *)
(* drops the wallet and returns.                                            *)
Receive(k) ==
    /\ stage = "collect" /\ worker[k] = "receive"
    /\ walletCh # <<>>
    /\ walletCh' = Tail(walletCh)
    /\ IF expired
       THEN worker' = [worker EXCEPT ![k] = "done"] /\ UNCHANGED wallet
       ELSE /\ worker' = [worker EXCEPT ![k] = "process"]
            /\ wallet' = [wallet EXCEPT ![k] = Head(walletCh)]
    /\ UNCHANGED <<stage, expired, answer, database, toSend, generator, result,
                   resultCh, collector>>

(* processWallet: without the native balance the wallet is an error; a      *)
(* token whose balance is zero or cannot be fetched is left out.            *)
ProcessWallet(k) ==
    /\ worker[k] = "process"
    /\ \E native \in Possible(expired), token \in [Tokens -> Possible(expired)] :
          result' = [result EXCEPT ![k] =
              IF GetBalance("ethereum", native, expired) # "ok" THEN {}
              ELSE {Native} \cup
                   {t \in Tokens : GetTokenBalance(token[t], expired) = "ok"}]
    /\ worker' = [worker EXCEPT ![k] = "send"]
    /\ UNCHANGED <<stage, expired, answer, database, channels, wallet, collector>>

(* Variant: a full channel makes the worker drop its result.                *)
SendOrDrop(k) ==
    /\ worker[k] = "send"
    /\ resultCh' = IF Len(resultCh) < Cardinality(Workers)
                   THEN Append(resultCh, <<wallet[k], result[k]>>)
                   ELSE resultCh
    /\ worker' = [worker EXCEPT ![k] = "receive"]
    /\ UNCHANGED <<stage, expired, answer, database, toSend, generator, walletCh,
                   wallet, result, collector>>

(* output <- result, with room for one result per worker.                   *)
Send(k) ==
    /\ worker[k] = "send"
    /\ Len(resultCh) < Cardinality(Workers)
    /\ resultCh' = Append(resultCh, <<wallet[k], result[k]>>)
    /\ worker' = [worker EXCEPT ![k] = "receive"]
    /\ UNCHANGED <<stage, expired, answer, database, toSend, generator, walletCh,
                   wallet, result, collector>>

(* Variant: a worker that returns early does not call wg.Done.              *)
WorkerGone(k) ==
    /\ \/ worker[k] = "receive" /\ walletCh = <<>> /\ generator = "done"
       \/ worker[k] = "send" /\ expired
    /\ worker' = [worker EXCEPT ![k] =
                     IF worker[k] = "send" THEN "gone" ELSE "done"]
    /\ UNCHANGED <<stage, expired, answer, database, channels, wallet, result,
                   collector>>

(* The input is closed and empty, or the context is done and the result is  *)
(* dropped: the worker returns.                                             *)
WorkerEnds(k) ==
    /\ \/ worker[k] = "receive" /\ walletCh = <<>> /\ generator = "done"
       \/ worker[k] = "send" /\ expired
    /\ worker' = [worker EXCEPT ![k] = "done"]
    /\ UNCHANGED <<stage, expired, answer, database, channels, wallet, result,
                   collector>>

(* The collector reads a result.                                            *)
Collect ==
    /\ stage = "collect"
    /\ resultCh # <<>>
    /\ LET w == Head(resultCh)[1]
           found == Head(resultCh)[2]
       IN  /\ collected' = collected \cup {w}
           /\ errors' = IF found = {} THEN errors \cup {w} ELSE errors
           /\ items' = items \cup ({w} \X found)
    /\ resultCh' = Tail(resultCh)
    /\ UNCHANGED <<stage, expired, answer, database, toSend, generator, walletCh,
                   workerVars>>

(* The closer has closed resultCh after the last worker, and it is drained. *)
CollectEnds ==
    /\ stage = "collect"
    /\ resultCh = <<>>
    /\ \A k \in Workers : worker[k] = "done"
    /\ stage' = "persist"
    /\ answer' = IF errors # {} /\ items = {} THEN "failed" ELSE "completed"
    /\ UNCHANGED <<expired, database, channels, workerVars, collector>>

(* CreateSnapshotItem for one item. An error, the end of the context among  *)
(* them, is logged and the next item tried.                                 *)
StoreItem(x) ==
    /\ stage = "persist"
    /\ items' = items \ {x}
    /\ \/ ~expired /\ stored' = stored \cup {x}
       \/ UNCHANGED stored
    /\ UNCHANGED <<stage, expired, row, answer, channels, workerVars, collected,
                   errors>>

(* Variant: the status is written outside the context of the run.           *)
UpdateStatusAlways ==
    /\ stage = "persist" /\ items = {}
    /\ row' = answer
    /\ stage' = "returned"
    /\ UNCHANGED <<expired, stored, answer, channels, workerVars, collector>>

(* UpdateSnapshotStatus; its error is logged and Run returns nil.           *)
UpdateStatus ==
    /\ stage = "persist" /\ items = {}
    /\ row' \in {row} \cup (IF expired THEN {} ELSE {answer})
    /\ stage' = "returned"
    /\ UNCHANGED <<expired, stored, answer, channels, workerVars, collector>>

SnapshotNext ==
    \/ Expire
    \/ Create \/ CreateFails
    \/ Generate \/ GenerateEnds
    \/ \E k \in Workers :
          Receive(k) \/ ProcessWallet(k) \/ Send(k) \/ WorkerEnds(k)
    \/ Collect \/ CollectEnds
    \/ \E x \in items : StoreItem(x)
    \/ UpdateStatus

SnapshotSpec == SnapshotInit /\ [][SnapshotNext]_snapshotVars

(* The goroutines are scheduled and remote calls return. The deadline of    *)
(* the context need not pass.                                               *)
SnapshotFairness ==
    /\ WF_snapshotVars(Create \/ CreateFails)
    /\ WF_snapshotVars(Generate) /\ WF_snapshotVars(GenerateEnds)
    /\ \A k \in Workers :
          /\ WF_snapshotVars(Receive(k)) /\ WF_snapshotVars(ProcessWallet(k))
          /\ WF_snapshotVars(Send(k)) /\ WF_snapshotVars(WorkerEnds(k))
    /\ WF_snapshotVars(Collect) /\ WF_snapshotVars(CollectEnds)
    /\ WF_snapshotVars(\E x \in items : StoreItem(x))
    /\ WF_snapshotVars(UpdateStatus)

FairSnapshot == SnapshotSpec /\ SnapshotFairness

-----------------------------------------------------------------------------
Assets == Tokens \cup {Native}

(* Everything has its type, and the channels respect their capacities.      *)
SnapshotTypeOK ==
    /\ stage \in {"start", "collect", "persist", "returned"}
    /\ expired \in BOOLEAN
    /\ row \in {"none", "pending", "completed", "failed"}
    /\ answer \in {Nil, "error", "completed", "failed"}
    /\ stored \subseteq Wallets \X Assets
    /\ toSend \in Seq(Wallets) /\ walletCh \in Seq(Wallets)
    /\ resultCh \in Seq(Wallets \X SUBSET Assets)
    /\ Len(walletCh) <= Cardinality(Wallets)
    /\ Len(resultCh) <= Cardinality(Workers)
    /\ worker \in [Workers -> {"receive", "process", "send", "done"}]
    /\ wallet \in [Workers -> Wallets \cup {Nil}]
    /\ result \in [Workers -> SUBSET Assets]
    /\ errors \subseteq collected /\ collected \subseteq Wallets
    /\ items \subseteq Wallets \X Assets

(* How often a wallet is somewhere in the pipeline.                         *)
Copies(w) ==
    Cardinality({i \in DOMAIN toSend : toSend[i] = w})
    + Cardinality({i \in DOMAIN walletCh : walletCh[i] = w})
    + Cardinality({k \in Workers :
                      worker[k] \in {"process", "send"} /\ wallet[k] = w})
    + Cardinality({i \in DOMAIN resultCh : resultCh[i][1] = w})
    + Cardinality(collected \cap {w})

(* Workers that share one channel neither lose a wallet nor process it      *)
(* twice; only the end of the context makes them drop one.                  *)
EveryWalletOnce ==
    \A w \in Wallets : IF expired THEN Copies(w) <= 1 ELSE Copies(w) = 1

(* A stored status tells the truth: a completed snapshot has read the       *)
(* result of every wallet, none was dropped because the context ended       *)
(* halfway; a failed one has no items and at least one error.               *)
StatusIsTrue ==
    /\ row = "completed" => collected = Wallets /\ errors # Wallets
    /\ row = "failed" => stored = {} /\ errors # {}

(* Run returns: no goroutine waits for ever for a channel, wherever the     *)
(* deadline finds them.                                                     *)
RunReturns == stage = "collect" ~> stage = "returned"
=============================================================================
