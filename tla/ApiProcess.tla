------------------------------ MODULE ApiProcess ------------------------------
(***************************************************************************)
(* The life of one process of the API (cmd/api/main.go): it starts from the *)
(* environment, serves REST requests and RPCs from two servers, and drains  *)
(* them one after the other when a signal comes. What requests do to the    *)
(* tables is in Api; here a request is a path through the middleware and,   *)
(* for a portfolio of one wallet, the two calls of the providers.           *)
(*                                                                         *)
(* Database statements return. A provider may never answer. Answers are     *)
(* small enough to stay in the server's buffer until the handler returns.   *)
(* A second signal is swallowed, as NotifyContext stays registered; a kill  *)
(* that cannot be handled ends everything at once and is left out.          *)
(***************************************************************************)
EXTENDS Config, Providers

CONSTANTS HttpRequests, Rpcs,  \* each is served at most once
          Nil

ASSUME ApiProcessAssumption ==
    /\ HttpRequests \cap Rpcs = {}
    /\ Nil \notin {"ok", "timeout", "panic"}

Calls == HttpRequests \cup Rpcs

VARIABLES
    phase,    \* where main is
    cfg,      \* the configuration, until everything is built from it
    pricing,  \* the price provider that was chosen
    http,     \* the HTTP server
    grpc,     \* the gRPC server
    overdue,  \* whether the ten seconds of the HTTP shutdown are over
    (* the requests *)
    state,    \* how far a request has come
    network,  \* of the wallet whose holding is fetched
    holding,  \* what the holding says: Nil, "ok" or why it has no value
    status,   \* the status written: Nil, "ok", or "panic" for Recovery's 500
    logged,   \* the status Logging logged
    gone,     \* whether the client has given up, which ends the context
    late      \* whether the fifteen seconds to write the answer are over

servers == <<http, grpc>>
boot    == <<phase, cfg, pricing>>
callVars == <<state, network, holding, status, logged, gone, late>>
processVars    == <<boot, servers, overdue, callVars>>

Busy     == {"handling", "balance", "price", "returned", "logged"}
Ended    == {"answered", "abandoned", "lost"}
HoldingNetworks == {"ethereum", "klever"}

InFlight(r) == state[r] \in Busy
Draining    == phase \in {"httpDrain", "grpcDrain"}

ProcessInit ==
    /\ phase = "off" /\ cfg = Nil /\ pricing = Nil
    /\ http = "none" /\ grpc = "none" /\ overdue = FALSE
    /\ state = [r \in Calls |-> "idle"]
    /\ network = [r \in Calls |-> Nil]
    /\ holding = [r \in Calls |-> Nil]
    /\ status = [r \in Calls |-> Nil]
    /\ logged = [r \in Calls |-> Nil]
    /\ gone = [r \in Calls |-> FALSE]
    /\ late = [r \in HttpRequests |-> FALSE]

-----------------------------------------------------------------------------
(* The start.                                                               *)

LoadConfig ==
    /\ phase = "off"
    /\ \E env \in Environments :
          /\ cfg' = Load(env)
          /\ phase' = IF Loaded(cfg') THEN "loaded" ELSE "failed"
    /\ UNCHANGED <<pricing, servers, overdue, callVars>>

(* sql.Open connects to nothing; Ping does, and its error is fatal.         *)
PingDatabase ==
    /\ phase = "loaded"
    /\ phase' \in {"connected", "failed"}
    /\ UNCHANGED <<cfg, pricing, servers, overdue, callVars>>

(* The providers, the token issuer and the verifier, of which each panics   *)
(* on a configuration it does not accept.                                   *)
Build ==
    /\ phase = "connected"
    /\ phase' = IF ApiAccepts(cfg) THEN "built" ELSE "panicked"
    /\ pricing' = PriceProvider(cfg)
    /\ cfg' = Nil
    /\ UNCHANGED <<servers, overdue, callVars>>

(* The gRPC port is bound in main, and a port that is taken is fatal; then  *)
(* both servers get their goroutine.                                        *)
ListenGrpc ==
    /\ phase = "built"
    /\ \/ phase' = "serving" /\ http' = "starting" /\ grpc' = "open"
       \/ phase' = "failed" /\ UNCHANGED servers
    /\ UNCHANGED <<cfg, pricing, overdue, callVars>>

(* The HTTP port is bound in the goroutine: an error is logged, and the     *)
(* process goes on without it.                                              *)
ListenHttp ==
    /\ http = "starting"
    /\ http' \in {"open", "failed"}
    /\ UNCHANGED <<boot, grpc, overdue, callVars>>

-----------------------------------------------------------------------------
(* The requests.                                                            *)

Step(r, from, to) == state[r] = from /\ state' = [state EXCEPT ![r] = to]

(* A connection that was accepted before the listener was closed may still  *)
(* bring its request.                                                       *)
Accepted(r) ==
    IF r \in HttpRequests THEN http \in {"open", "draining"} ELSE grpc = "open"

AcceptCall(r) ==
    /\ Accepted(r)
    /\ Step(r, "idle", "handling")
    /\ UNCHANGED <<boot, servers, overdue, network, holding, status, logged,
                   gone, late>>

(* The handler needs no provider, or turns the request away.                *)
HandlerReturns(r) ==
    /\ Step(r, "handling", "returned")
    /\ status' = [status EXCEPT ![r] = "ok"]
    /\ UNCHANGED <<boot, servers, overdue, network, holding, logged, gone, late>>

(* Variant: Logging is inside of Recovery, and the panic passes it by.      *)
HandlerPanicsUnlogged(r) ==
    /\ r \in HttpRequests
    /\ Step(r, "handling", "logged")
    /\ status' = [status EXCEPT ![r] = "panic"]
    /\ UNCHANGED <<boot, servers, overdue, network, holding, logged, gone, late>>

(* Recovery, the innermost of the middleware, writes a 500.                 *)
Recovered(r) == status' = [status EXCEPT ![r] = "panic"]

(* The debugging handlers panic at once. The RPCs have no such interceptor, *)
(* and no handler of theirs panics.                                         *)
HandlerPanics(r) ==
    /\ r \in HttpRequests
    /\ Step(r, "handling", "returned")
    /\ Recovered(r)
    /\ UNCHANGED <<boot, servers, overdue, network, holding, logged, gone, late>>

(* GetPortfolio reaches the fetchHolding of its wallet.                     *)
CallProvider(r) ==
    /\ Step(r, "handling", "balance")
    /\ \E n \in HoldingNetworks : network' = [network EXCEPT ![r] = n]
    /\ UNCHANGED <<boot, servers, overdue, holding, status, logged, gone, late>>

(* The holding is done, and with it the portfolio.                          *)
Fetched(r, outcome) ==
    /\ holding' = [holding EXCEPT ![r] = outcome]
    /\ network' = [network EXCEPT ![r] = Nil]
    /\ status' = [status EXCEPT ![r] = "ok"]

BalanceArrives(r) ==
    /\ state[r] = "balance"
    /\ \E reply \in Possible(gone[r]) :
          LET outcome == GetBalance(network[r], reply, gone[r])
          IN  IF outcome = "ok"
              THEN Step(r, "balance", "price") /\ UNCHANGED <<network, holding, status>>
              ELSE Step(r, "balance", "returned") /\ Fetched(r, outcome)
    /\ UNCHANGED <<boot, servers, overdue, logged, gone, late>>

PriceArrives(r) ==
    /\ Step(r, "price", "returned")
    /\ \E reply \in Possible(gone[r]) :
          Fetched(r, GetPriceUSD(pricing, Asset(network[r]), reply, gone[r]))
    /\ UNCHANGED <<boot, servers, overdue, logged, gone, late>>

(* Logging logs the status that went through its writer.                    *)
Log(r) ==
    /\ r \in HttpRequests
    /\ Step(r, "returned", "logged")
    /\ logged' = [logged EXCEPT ![r] = status[r]]
    /\ UNCHANGED <<boot, servers, overdue, network, holding, status, gone, late>>

(* The answer is sent. Past its deadline it cannot be written any more, and *)
(* the connection is closed.                                                *)
Send(r) ==
    /\ state[r] = IF r \in HttpRequests THEN "logged" ELSE "returned"
    /\ state' = [state EXCEPT ![r] =
          IF gone[r] THEN "abandoned"
          ELSE IF r \in HttpRequests /\ late[r] THEN "lost"
          ELSE "answered"]
    /\ UNCHANGED <<boot, servers, overdue, network, holding, status, logged,
                   gone, late>>

(* The client closes its connection, cancels its RPC or has its deadline    *)
(* pass: the context of the request ends.                                   *)
GiveUp(r) ==
    /\ InFlight(r) /\ ~gone[r]
    /\ gone' = [gone EXCEPT ![r] = TRUE]
    /\ UNCHANGED <<boot, servers, overdue, state, network, holding, status,
                   logged, late>>

(* WriteTimeout. It does not end the handler.                               *)
WriteDeadline(r) ==
    /\ r \in HttpRequests
    /\ InFlight(r) /\ ~late[r]
    /\ late' = [late EXCEPT ![r] = TRUE]
    /\ UNCHANGED <<boot, servers, overdue, state, network, holding, status,
                   logged, gone>>

-----------------------------------------------------------------------------
(* The end.                                                                 *)

(* SIGINT or SIGTERM: Shutdown closes the HTTP listener, or keeps a server  *)
(* that is still starting from opening it. RPCs are accepted as before.     *)
Signal ==
    /\ phase = "serving"
    /\ phase' = "httpDrain"
    /\ http' = IF http = "open" THEN "draining" ELSE "closed"
    /\ UNCHANGED <<cfg, pricing, grpc, overdue, callVars>>

DrainDeadline ==
    /\ phase = "httpDrain" /\ ~overdue
    /\ overdue' = TRUE
    /\ UNCHANGED <<boot, servers, callVars>>

(* Variant: Shutdown with a context that has no deadline.                   *)
ShutdownReturnsDrained ==
    /\ phase = "httpDrain"
    /\ \A r \in HttpRequests : ~InFlight(r)
    /\ phase' = "grpcDrain"
    /\ http' = "closed" /\ grpc' = "closed"
    /\ UNCHANGED <<cfg, pricing, overdue, callVars>>

(* Shutdown returns when no request is in flight, or with an error at the   *)
(* deadline, which is logged. GracefulStop then refuses further RPCs.       *)
ShutdownReturns ==
    /\ phase = "httpDrain"
    /\ overdue \/ \A r \in HttpRequests : ~InFlight(r)
    /\ phase' = "grpcDrain"
    /\ http' = "closed" /\ grpc' = "closed"
    /\ UNCHANGED <<cfg, pricing, overdue, callVars>>

(* main returns, and what is still in flight ends with the process.         *)
Exit ==
    /\ phase' = "exited"
    /\ state' = [r \in Calls |-> IF InFlight(r) THEN "lost" ELSE state[r]]
    /\ UNCHANGED <<cfg, pricing, servers, overdue, network, holding, status,
                   logged, gone, late>>

(* Variant: Stop instead of GracefulStop.                                   *)
StopReturns == phase = "grpcDrain" /\ Exit

(* GracefulStop has no deadline: it waits for every RPC.                    *)
GracefulStopReturns ==
    /\ phase = "grpcDrain"
    /\ \A r \in Rpcs : ~InFlight(r)
    /\ Exit

ProcessNext ==
    \/ LoadConfig \/ PingDatabase \/ Build \/ ListenGrpc \/ ListenHttp
    \/ Signal \/ DrainDeadline \/ ShutdownReturns \/ GracefulStopReturns
    \/ \E r \in Calls :
          \/ AcceptCall(r) \/ HandlerReturns(r) \/ HandlerPanics(r) \/ CallProvider(r)
          \/ BalanceArrives(r) \/ PriceArrives(r) \/ Log(r) \/ Send(r)
          \/ GiveUp(r)
    \/ \E r \in HttpRequests : WriteDeadline(r)

ProcessSpec == ProcessInit /\ [][ProcessNext]_processVars

(* Goroutines run and timers fire. A provider owes an answer only to a call *)
(* whose context has ended; requests, signals and clients owe nothing.      *)
ProcessFairness ==
    /\ WF_processVars(DrainDeadline)
    /\ WF_processVars(ShutdownReturns) /\ WF_processVars(GracefulStopReturns)
    /\ \A r \in Calls :
          /\ WF_processVars(HandlerReturns(r) \/ HandlerPanics(r) \/ CallProvider(r))
          /\ WF_processVars(gone[r] /\ (BalanceArrives(r) \/ PriceArrives(r)))
          /\ WF_processVars(Log(r)) /\ WF_processVars(Send(r))

FairProcess == ProcessSpec /\ ProcessFairness

-----------------------------------------------------------------------------
(* Every variable has its type.                                             *)
ProcessTypeOK ==
    /\ phase \in {"off", "loaded", "connected", "built", "serving", "httpDrain",
                  "grpcDrain", "exited", "failed", "panicked"}
    /\ cfg = Nil \/ \E env \in Environments : cfg = Load(env)
    /\ pricing \in {Nil, "CoinGecko", "Mock"}
    /\ http \in {"none", "starting", "open", "failed", "draining", "closed"}
    /\ grpc \in {"none", "open", "closed"}
    /\ overdue \in BOOLEAN
    /\ state \in [Calls -> {"idle"} \cup Busy \cup Ended]
    /\ network \in [Calls -> HoldingNetworks \cup {Nil}]
    /\ holding \in [Calls -> {Nil, "ok", "timeout", "unavailable", "untyped"}]
    /\ status \in [Calls -> {Nil, "ok", "panic"}]
    /\ logged \in [Calls -> {Nil, "ok", "panic"}]
    /\ gone \in [Calls -> BOOLEAN]
    /\ late \in [HttpRequests -> BOOLEAN]

(* Whatever the environment holds, no constructor of any process panics on  *)
(* or refuses the configuration Load makes of it. Only the watcher's poll   *)
(* interval is not covered: PollerAccepts does not hold for one of zero.    *)
EveryProcessBoots ==
    /\ phase # "panicked"
    /\ phase = "loaded" => WorkersAccept(cfg)

(* A request that was accepted is answered as long as its client waits,     *)
(* whatever the shutdown does meanwhile. Only an HTTP request can be lost,  *)
(* and only past the deadline of its answer or of the drain.                *)
AcceptedAnswered ==
    \A r \in Calls :
        /\ state[r] = "lost" => r \in HttpRequests /\ (late[r] \/ overdue)
        /\ phase = "exited" => ~InFlight(r)

(* Every HTTP request that got an answer, the ones whose handler panicked   *)
(* included, is in the log with the status its client has seen.             *)
AnsweredAsLogged ==
    \A r \in HttpRequests : state[r] = "answered" => logged[r] = status[r]

(* A client that is still there never reads that a provider timed out: the  *)
(* context of a request ends only with its client, so a call that nobody    *)
(* answers holds the request, and a connection that fails is no timeout.    *)
NoTimeoutAnswered ==
    \A r \in Calls : state[r] = "answered" => holding[r] # "timeout"

(* A shutdown ends, however long HTTP requests hang in a provider, provided *)
(* that no RPC hangs for ever.                                              *)
ShutdownEnds ==
    (\A r \in Rpcs : []<>~InFlight(r)) => (Draining ~> phase = "exited")
=============================================================================
