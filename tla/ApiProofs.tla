------------------------------ MODULE ApiProofs ------------------------------
(***************************************************************************)
(* Proofs about the API: first what requests do to its tables (Api), for    *)
(* any number of users, wallets and requests served at the same time, then  *)
(* the life of its process (ApiProcess), for any number of requests on both *)
(* servers and any numbers in the environment.                              *)
(*                                                                         *)
(* The tables only grow (Grows), so what a request has read of them stays   *)
(* true while others write. The invariant says of every request what it has *)
(* established at the step it is at: that it works for the subject of a     *)
(* token, that its wallets are this subject's, that the network and the     *)
(* address it is about to store were accepted.                              *)
(*                                                                         *)
(* Of the process it says which requests may be in flight at each point of  *)
(* the shutdown, and that a timeout was read only by a request whose client *)
(* has gone.                                                                *)
(***************************************************************************)
EXTENDS Api, ApiProcess, TLAPS

-----------------------------------------------------------------------------
(* The inductive invariant.                                                 *)

Steps == {"idle", "insertUser", "verify", "issue", "findUser", "readWallets",
          "fetch", "checkWallet", "insertWallet", "reply"}

(* The tables and the tokens that were issued.                              *)
TablesOK ==
    /\ users \in [UserIds -> User \cup {NULL}]
    /\ wallets \subseteq Wallet
    /\ \A w \in wallets : users[w.user] # NULL
    /\ \A v, w \in wallets : v.id = w.id => v = w
    /\ \A t \in tokens : t \in Token /\ users[t.sub] # NULL
    /\ clock \in Nat

RequestsOK ==
    /\ pc \in [Requests -> Steps]
    /\ in \in [Requests -> Input]
    /\ holdings = [r \in Requests |-> holdings[r]]
    /\ out \in [Requests -> Codes \cup {NULL}]
    /\ wrote \in [Requests -> BOOLEAN]
    /\ known \in [Requests -> SUBSET Wallet]

Issued(u) == \E t \in tokens : t.sub = u

(* Every wallet has an owner who has logged in.                             *)
WalletsOwned == \A w \in wallets : Issued(w.user)

(* What a request holds belongs to its subject.                             *)
HoldingsOK(r) ==
    /\ holdings[r] = [w \in DOMAIN holdings[r] |-> holdings[r][w]]
    /\ \A w \in DOMAIN holdings[r] :
          /\ w \in wallets /\ w.user = in[r].user
          /\ holdings[r][w] \in Holding

(* A protected request has passed the authorization.                        *)
Authorized(r) ==
    in[r].op \in Protected =>
        /\ in[r].user \in UserIds
        /\ in[r].user = in[r].subject
        /\ Issued(in[r].user)
        /\ in[r].op = "addWallet" => in[r].network \in Names

PasswordProven(r) ==
    /\ in[r].op = "login"
    /\ in[r].user \in UserIds
    /\ users[in[r].user] # NULL
    /\ Verify(users[in[r].user].hash, in[r].password)

(* What a request has established at its step.                              *)
AtStep(r) ==
    /\ pc[r] = "idle" => in[r] = Blank
    /\ pc[r] = "insertUser" =>
          /\ in[r].op = "register"
          /\ in[r].email \in Emails /\ in[r].password \in Passwords
    /\ pc[r] = "verify" =>
          /\ in[r].op = "login" /\ in[r].user = NULL
          /\ in[r].email \in Emails /\ in[r].password \in Guesses
    /\ pc[r] = "issue" => PasswordProven(r)
    /\ pc[r] = "findUser" => in[r].op \in Protected
    /\ pc[r] = "readWallets" => in[r].op \in {"portfolio", "wallets"}
    /\ pc[r] = "fetch" => in[r].op = "portfolio"
    /\ pc[r] \in {"checkWallet", "insertWallet"} => in[r].op = "addWallet"
    /\ pc[r] = "insertWallet" =>
          /\ Registered(in[r].network)
          /\ ValidateAddress(in[r].network, in[r].address)

(* The wallets a reading request answers for are this user's, and once the  *)
(* table was read they are among its holdings.                              *)
KnownOK(r) ==
    /\ known[r] \subseteq {w \in wallets : w.user = in[r].user}
    /\ pc[r] = "fetch" => known[r] \subseteq DOMAIN holdings[r]

(* What an answer says.                                                     *)
AnswerOK(r) ==
    /\ pc[r] = "reply" <=> out[r] # NULL
    /\ pc[r] # "reply" => ~wrote[r]
    /\ pc[r] = "reply" =>
          /\ HttpClientError(out[r]) => ~wrote[r]
          /\ out[r] = "created" => wrote[r]
          /\ out[r] = "conflict" => Account(in[r].email) # {}
          /\ in[r].op = "login" /\ out[r] = "ok" => PasswordProven(r)
          /\ in[r].op = "login" /\ out[r] = "unauthenticated" =>
                \A u \in Account(in[r].email) :
                    ~Verify(users[u].hash, in[r].password) \/ users[u].hash.params = Current
          /\ out[r] = "ok" /\ in[r].op \in {"portfolio", "wallets"} =>
                /\ known[r] \subseteq DOMAIN holdings[r]
                /\ in[r].op = "portfolio" => Todo(r) = {}

RequestInv(r) ==
    /\ HoldingsOK(r) /\ Authorized(r) /\ AtStep(r) /\ KnownOK(r) /\ AnswerOK(r)

IInv ==
    /\ TablesOK /\ RequestsOK
    /\ WalletsOwned /\ OneAccountPerMailbox /\ EveryWalletServable
    /\ \A r \in Requests : RequestInv(r)
-----------------------------------------------------------------------------
(* Rows are never changed or removed, an account that appears has a hash of *)
(* the current parameters, and an issued token stays issued.                *)
Grows ==
    /\ \A u \in UserIds :
          \/ users'[u] = users[u]
          \/ users[u] = NULL /\ users'[u].hash.params = Current
    /\ wallets \subseteq wallets'
    /\ tokens \subseteq tokens'

SameRequest(q) ==
    UNCHANGED <<pc[q], in[q], holdings[q], out[q], wrote[q], known[q]>>

(* Over the two transports an answer is the client's mistake or is not,     *)
(* whatever its code.                                                       *)
LEMMA ClassesAgree == \A c \in Codes : HttpClientError(c) <=> GrpcClientError(c)
BY DEF Codes, HttpStatus, GrpcCode, HttpClientError, GrpcClientError

(* What a request has established survives the steps of others.             *)
LEMMA OtherRequest ==
    ASSUME TablesOK, NEW q \in Requests, RequestInv(q), Grows, SameRequest(q)
    PROVE  RequestInv(q)'
<1>1. HoldingsOK(q)'
  BY DEF RequestInv, HoldingsOK, Grows, SameRequest
<1>2. Authorized(q)'
  BY DEF RequestInv, Authorized, Issued, Grows, SameRequest
<1>3. PasswordProven(q) => PasswordProven(q)'
  BY DEF PasswordProven, Grows, SameRequest
<1>4. AtStep(q)'
  BY <1>3 DEF RequestInv, AtStep, SameRequest
<1>5. KnownOK(q)'
  BY DEF RequestInv, KnownOK, Grows, SameRequest
<1>6. Account(in[q].email) \subseteq Account(in[q].email)'
  BY DEF Account, Grows, SameRequest
<1>7. ASSUME NEW u \in Account(in[q].email)'
      PROVE  \/ u \in Account(in[q].email) /\ users'[u] = users[u]
             \/ users'[u].hash.params = Current
  BY <1>7 DEF Account, Grows, SameRequest
<1>8. Todo(q)' = Todo(q)
  BY DEF Todo, SameRequest
<1>9. AnswerOK(q)'
  BY <1>3, <1>6, <1>7, <1>8 DEF RequestInv, AnswerOK, SameRequest
<1> QED
  BY <1>1, <1>2, <1>4, <1>5, <1>9 DEF RequestInv

(* The rest of a step: what it must do to its own request and the tables.   *)
LEMMA OneRequest ==
    ASSUME IInv, NEW r \in Requests, Grows,
           \A q \in Requests \ {r} : SameRequest(q),
           RequestInv(r)'
    PROVE  \A q \in Requests : RequestInv(q)'
BY OtherRequest DEF IInv

(* A step that leaves the tables, the tokens and the clock alone.           *)
LEMMA TablesSame ==
    ASSUME IInv, UNCHANGED <<tables, tokens>>, clock' \in Nat
    PROVE  /\ TablesOK' /\ WalletsOwned' /\ OneAccountPerMailbox'
           /\ EveryWalletServable' /\ Grows
BY DEF IInv, tables, TablesOK, WalletsOwned, Issued, OneAccountPerMailbox,
       EveryWalletServable, Grows

(* The two ways a step keeps the invariant: it writes to the tables, or     *)
(* only its own request moves on.                                           *)
LEMMA WriteStep ==
    ASSUME IInv, NEW r \in Requests,
           TablesOK', WalletsOwned', OneAccountPerMailbox', EveryWalletServable', Grows,
           RequestsOK', \A q \in Requests \ {r} : SameRequest(q), RequestInv(r)'
    PROVE  IInv'
<1>1. \A q \in Requests : RequestInv(q)'
  BY OneRequest
<1> QED
  BY <1>1 DEF IInv

LEMMA MoveOn ==
    ASSUME IInv, NEW r \in Requests, UNCHANGED <<tables, tokens, clock>>,
           RequestsOK', \A q \in Requests \ {r} : SameRequest(q), RequestInv(r)'
    PROVE  IInv'
<1>1. clock' \in Nat
  BY DEF IInv, TablesOK
<1> QED
  BY <1>1, TablesSame, WriteStep

-----------------------------------------------------------------------------
(* An error leaves nothing of the request but the answer.                   *)
LEMMA Failed ==
    ASSUME RequestsOK, NEW r \in Requests,
           NEW code \in {"not_found", "validation_error", "unsupported_network",
                         "internal_error"},
           Fail(r, code),
           wrote' \in [Requests -> BOOLEAN], wrote'[r] => code = "internal_error"
    PROVE  RequestInv(r)'
<1>1. /\ pc'[r] = "reply" /\ out'[r] = code /\ in'[r] = Blank
      /\ holdings'[r] = <<>> /\ known'[r] = {}
  BY DEF Fail, Answer, Comes, RequestsOK
<1>2. /\ code # NULL
      /\ ~HttpClientError("internal_error")
  BY NullAssumption DEF Codes, HttpStatus, HttpClientError
<1>3. Blank.op = "none"
  BY DEF Blank
<1> QED
  BY <1>1, <1>2, <1>3
     DEF RequestInv, HoldingsOK, Authorized, AtStep, KnownOK, AnswerOK, Protected

(* An answer and an error have their types.                                 *)
LEMMA AnswerType ==
    ASSUME RequestsOK, NEW r \in Requests, NEW code \in Codes, Answer(r, code)
    PROVE  /\ pc' \in [Requests -> Steps] /\ out' \in [Requests -> Codes \cup {NULL}]
           /\ pc'[r] = "reply" /\ out'[r] = code
           /\ \A q \in Requests \ {r} : UNCHANGED <<pc[q], out[q]>>
BY DEF Answer, RequestsOK, Steps

LEMMA FailType ==
    ASSUME RequestsOK, NEW r \in Requests, NEW code \in Codes, Fail(r, code)
    PROVE  /\ pc' \in [Requests -> Steps] /\ out' \in [Requests -> Codes \cup {NULL}]
           /\ in' \in [Requests -> Input]
           /\ holdings' = [q \in Requests |-> holdings'[q]]
           /\ known' \in [Requests -> SUBSET Wallet]
           /\ \A q \in Requests \ {r} :
                 UNCHANGED <<pc[q], out[q], in[q], holdings[q], known[q]>>
<1>1. Blank \in Input
  BY DEF Blank, Input, Addresses
<1> QED
  BY <1>1, AnswerType DEF Fail, Comes, RequestsOK

(* A read fails: the answer is an internal error.                           *)
LEMMA FailStep ==
    ASSUME IInv, NEW r \in Requests, pc[r] # "reply",
           NEW code \in {"not_found", "validation_error", "unsupported_network",
                         "internal_error"},
           Fail(r, code), UNCHANGED <<tables, tokens, clock, wrote>>
    PROVE  IInv'
<1>1. /\ RequestsOK /\ wrote \in [Requests -> BOOLEAN] /\ ~wrote[r]
      /\ code \in Codes
  BY DEF IInv, RequestInv, AnswerOK, RequestsOK, Codes, HttpStatus
<1>2. RequestInv(r)'
  BY <1>1, Failed
<1>3. RequestsOK' /\ \A q \in Requests \ {r} : SameRequest(q)
  BY <1>1, FailType DEF RequestsOK, SameRequest
<1> QED
  BY <1>2, <1>3, MoveOn

(* A request that is refused keeps what it had: nothing.                    *)
LEMMA RefuseStep ==
    ASSUME IInv, NEW r \in Requests, pc[r] = "idle",
           NEW code \in {"validation_error", "unauthenticated", "invalid_input",
                         "forbidden"},
           Refuse(r, code), UNCHANGED <<tables, tokens, clock, holdings, wrote>>
    PROVE  IInv'
<1>1. /\ RequestsOK /\ RequestInv(r) /\ ~wrote[r] /\ in[r] = Blank
      /\ code \in Codes
  BY DEF IInv, RequestInv, AtStep, AnswerOK, RequestsOK, Codes, HttpStatus
<1>2. /\ pc'[r] = "reply" /\ out'[r] = code
      /\ RequestsOK' /\ \A q \in Requests \ {r} : SameRequest(q)
  BY <1>1, AnswerType DEF Refuse, RequestsOK, SameRequest
<1>3. Blank.op = "none" /\ code # NULL
  BY <1>1, NullAssumption DEF Blank
<1>4. RequestInv(r)'
  BY <1>1, <1>2, <1>3
     DEF Refuse, RequestInv, HoldingsOK, Authorized, AtStep, KnownOK, AnswerOK, Protected,
         tables
<1> QED
  BY <1>2, <1>4, MoveOn DEF Refuse

-----------------------------------------------------------------------------
(* The steps of a request, one by one.                                      *)

(* A request that works for nobody yet has nothing.                         *)
LEMMA Empty ==
    ASSUME IInv, NEW r \in Requests, in[r].user = NULL
    PROVE  DOMAIN holdings[r] = {} /\ known[r] = {}
<1>1. \A w \in wallets : w.user # in[r].user
  BY ApiAssumption DEF IInv, TablesOK, Wallet
<1>2. \A w \in DOMAIN holdings[r] : FALSE
  BY <1>1 DEF IInv, RequestInv, HoldingsOK
<1>3. \A w \in known[r] : FALSE
  BY <1>1 DEF IInv, RequestInv, KnownOK
<1> QED
  BY <1>2, <1>3

LEMMA IdleEmpty ==
    ASSUME IInv, NEW r \in Requests, pc[r] = "idle"
    PROVE  DOMAIN holdings[r] = {} /\ known[r] = {} /\ known = [known EXCEPT ![r] = {}]
<1>1. Blank.user = NULL
  BY DEF Blank
<1>2. in[r] = Blank /\ known \in [Requests -> SUBSET Wallet]
  BY DEF IInv, RequestInv, AtStep, RequestsOK
<1>3. DOMAIN holdings[r] = {} /\ known[r] = {}
  BY <1>1, <1>2, Empty
<1> QED
  BY <1>2, <1>3

(* A request is let in, knowing the wallets K.                              *)
LEMMA Accept ==
    ASSUME IInv, NEW r \in Requests, pc[r] = "idle", NEW input \in Input,
           NEW step \in {"insertUser", "verify", "findUser"},
           NEW K \in SUBSET {w \in wallets : w.user = input.user},
           Comes(r, input), Goto(r, step), known' = [known EXCEPT ![r] = K],
           UNCHANGED <<tables, tokens, clock, holdings, wrote>>,
           step = "insertUser" => /\ input.op = "register" /\ input.email \in Emails
                                  /\ input.password \in Passwords,
           step = "verify" => /\ input.op = "login" /\ input.email \in Emails
                              /\ input.password \in Guesses /\ input.user = NULL,
           step = "findUser" => input.op \in Protected,
           input.op \in Protected => /\ input.user \in UserIds
                                     /\ input.user = input.subject
                                     /\ Issued(input.user)
                                     /\ input.op = "addWallet" => input.network \in Names
    PROVE  IInv'
<1>1. /\ RequestsOK /\ RequestInv(r) /\ TablesOK
      /\ DOMAIN holdings[r] = {} /\ out[r] = NULL /\ wrote[r] = FALSE
  BY IdleEmpty DEF IInv, RequestInv, AnswerOK, RequestsOK
<1>2. /\ in'[r] = input /\ pc'[r] = step /\ known'[r] = K /\ out'[r] = NULL
      /\ holdings'[r] = holdings[r] /\ wrote'[r] = FALSE /\ wallets' = wallets
      /\ tokens' = tokens
  BY <1>1 DEF RequestsOK, Comes, Goto, tables
<1>3. RequestsOK' /\ \A q \in Requests \ {r} : SameRequest(q)
  <2>1. K \in SUBSET Wallet
    BY <1>1 DEF TablesOK
  <2> QED
    BY <1>1, <2>1 DEF RequestsOK, SameRequest, Steps, Comes, Goto
<1>4. HoldingsOK(r)'
  BY <1>1, <1>2 DEF RequestInv, HoldingsOK
<1>5. Authorized(r)'
  BY <1>2 DEF Authorized, Issued
<1>6. AtStep(r)'
  BY <1>2 DEF AtStep
<1>7. KnownOK(r)' /\ AnswerOK(r)'
  BY <1>2 DEF KnownOK, AnswerOK
<1> QED
  BY <1>3, <1>4, <1>5, <1>6, <1>7, MoveOn DEF RequestInv

LEMMA RegisterStep ==
    ASSUME IInv, NEW r \in Requests, pc[r] = "idle",
           NEW e \in Emails \cup {NULL}, NEW p \in Passwords \cup {NULL},
           Register(r, e, p)
    PROVE  IInv'
<1>1. CASE Refuse(r, "validation_error")
  BY <1>1, RefuseStep DEF Register
<1>2. CASE /\ e # NULL /\ p # NULL /\ Goto(r, "insertUser") /\ UNCHANGED known
           /\ Comes(r, [Blank EXCEPT !.op = "register", !.email = e, !.password = p])
  <2> DEFINE input == [Blank EXCEPT !.op = "register", !.email = e, !.password = p]
  <2>1. /\ Comes(r, input) /\ e \in Emails /\ p \in Passwords /\ p \in Guesses
        /\ UNCHANGED <<tables, tokens, clock, holdings, wrote>>
    BY <1>2, ApiAssumption DEF Register
  <2>2. /\ input \in Input /\ input.op = "register"
        /\ input.email = e /\ input.password = p
    BY <2>1 DEF Blank, Input, Addresses
  <2>3. known[r] = {} /\ known' = [known EXCEPT ![r] = {}]
    BY <1>2, IdleEmpty
  <2> HIDE DEF input
  <2> QED
    BY <1>2, <2>1, <2>2, <2>3, Accept DEF Protected
<1> QED
  BY <1>1, <1>2 DEF Register

LEMMA LoginStep ==
    ASSUME IInv, NEW r \in Requests, pc[r] = "idle",
           NEW e \in Emails \cup {NULL}, NEW p \in Guesses \cup {NULL},
           Login(r, e, p)
    PROVE  IInv'
<1>1. CASE Refuse(r, "unauthenticated")
  BY <1>1, RefuseStep DEF Login
<1>2. CASE /\ e # NULL /\ p # NULL /\ Goto(r, "verify") /\ UNCHANGED known
           /\ Comes(r, [Blank EXCEPT !.op = "login", !.email = e, !.password = p])
  <2> DEFINE input == [Blank EXCEPT !.op = "login", !.email = e, !.password = p]
  <2>1. /\ Comes(r, input) /\ e \in Emails /\ p \in Guesses
        /\ UNCHANGED <<tables, tokens, clock, holdings, wrote>>
    BY <1>2 DEF Login
  <2>2. /\ input \in Input /\ input.op = "login"
        /\ input.email = e /\ input.password = p /\ input.user = NULL
    BY <2>1 DEF Blank, Input, Addresses
  <2>3. known[r] = {} /\ known' = [known EXCEPT ![r] = {}]
    BY <1>2, IdleEmpty
  <2> HIDE DEF input
  <2> QED
    BY <1>2, <2>1, <2>2, <2>3, Accept DEF Protected
<1> QED
  BY <1>1, <1>2 DEF Login

LEMMA DenyStep ==
    ASSUME IInv, NEW r \in Requests, pc[r] = "idle", NEW u, NEW t, Deny(r, u, t)
    PROVE  IInv'
BY RefuseStep DEF Deny

LEMMA AdmitStep ==
    ASSUME IInv, NEW r \in Requests, pc[r] = "idle",
           NEW op \in Protected, NEW u \in UserIds \cup {NULL},
           NEW t \in tokens \cup {NULL}, NEW name \in Names \cup {NULL},
           NEW address \in Addresses,
           op = "addWallet" => name \in Names, Admit(r, op, u, t, name, address)
    PROVE  IInv'
<1> DEFINE input == [Blank EXCEPT !.op = op, !.user = u, !.subject = t.sub,
                                  !.network = name, !.address = address]
           K == IF op = "addWallet" THEN {} ELSE WalletsOf(u)
<1>1. /\ t \in tokens /\ t.sub = u /\ u \in UserIds /\ Issued(u)
      /\ Comes(r, input) /\ Goto(r, "findUser")
      /\ known' = [known EXCEPT ![r] = K]
      /\ UNCHANGED <<tables, tokens, clock, holdings, wrote>>
  BY DEF Admit, Authenticated, Self, Issued
<1>2. /\ input \in Input /\ input.op = op /\ input.user = u /\ input.subject = u
      /\ input.network = name
  BY <1>1 DEF Blank, Input, Addresses
<1>3. K \in SUBSET {w \in wallets : w.user = input.user}
  BY <1>2 DEF WalletsOf
<1> HIDE DEF input, K
<1> QED
  BY <1>1, <1>2, <1>3, Accept

LEMMA AddWalletStep ==
    ASSUME IInv, NEW r \in Requests, pc[r] = "idle",
           NEW u \in UserIds \cup {NULL}, NEW t \in tokens \cup {NULL},
           NEW name \in Names, NEW address \in Addresses,
           HandleAddWallet(r, u, t, name, address) \/ AddWallet(r, u, t, name, address)
    PROVE  IInv'
<1>1. CASE /\ Refuse(r, "validation_error")
           /\ UNCHANGED <<tables, tokens, clock, holdings, wrote>>
  BY <1>1, RefuseStep
<1>2. CASE Admit(r, "addWallet", u, t, Lowered(name), address)
  <2>1. Lowered(name) \in Names
    BY DEF Lowered, Names, Spellings
  <2> QED
    BY <1>2, <2>1, AdmitStep DEF Protected
<1>3. CASE Admit(r, "addWallet", u, t, name, address)
  BY <1>3, AdmitStep DEF Protected
<1> QED
  BY <1>1, <1>2, <1>3 DEF HandleAddWallet, AddWallet

LEMMA ArriveStep ==
    ASSUME IInv, NEW r \in Requests, Arrive(r)
    PROVE  IInv'
<1>1. pc[r] = "idle"
  BY DEF Arrive
<1>2. ASSUME NEW e \in Emails \cup {NULL}, NEW p \in Passwords \cup {NULL},
             HandleRegister(r, e, p) \/ RegisterRpc(r, e, p)
      PROVE  IInv'
  BY <1>1, <1>2, RegisterStep DEF HandleRegister, RegisterRpc
<1>3. ASSUME NEW e \in Emails \cup {NULL}, NEW p \in Guesses \cup {NULL},
             HandleLogin(r, e, p) \/ LoginRpc(r, e, p)
      PROVE  IInv'
  BY <1>1, <1>3, LoginStep DEF HandleLogin, LoginRpc
<1>4. ASSUME NEW u \in UserIds \cup {NULL}, NEW t \in tokens \cup {NULL},
             \/ Deny(r, u, t)
             \/ HandleGetPortfolio(r, u, t) \/ GetPortfolio(r, u, t)
             \/ HandleGetWallets(r, u, t) \/ ListWallets(r, u, t)
      PROVE  IInv'
  <2>1. CASE Deny(r, u, t)
    BY <1>1, <2>1, DenyStep
  <2>2. ASSUME NEW op \in {"portfolio", "wallets"}, Admit(r, op, u, t, NULL, "")
        PROVE  IInv'
    BY <1>1, <2>2, AdmitStep DEF Protected, Addresses
  <2> QED
    BY <1>4, <2>1, <2>2
       DEF HandleGetPortfolio, GetPortfolio, HandleGetWallets, ListWallets
<1>5. ASSUME NEW u \in UserIds \cup {NULL}, NEW t \in tokens \cup {NULL},
             NEW name \in Names, NEW address \in Addresses,
             HandleAddWallet(r, u, t, name, address) \/ AddWallet(r, u, t, name, address)
      PROVE  IInv'
  BY <1>1, <1>5, AddWalletStep
<1> QED
  BY <1>2, <1>3, <1>4, <1>5 DEF Arrive

(* An account is added: under a mailbox nobody has yet, with a hash of the  *)
(* current parameters.                                                      *)
LEMMA AddUserTables ==
    ASSUME IInv, NEW r \in Requests, pc[r] = "insertUser", AddUser(r),
           UNCHANGED <<wallets, tokens, clock>>
    PROVE  /\ TablesOK' /\ WalletsOwned' /\ OneAccountPerMailbox'
           /\ EveryWalletServable' /\ Grows
           /\ wrote' = [wrote EXCEPT ![r] = TRUE]
<1>1. /\ TablesOK /\ in[r].email \in Emails /\ in[r].password \in Passwords
      /\ wrote' = [wrote EXCEPT ![r] = TRUE]
  BY DEF IInv, RequestInv, AtStep, AddUser
<1>2. PICK u \in UserIds :
         /\ users[u] = NULL
         /\ users' = [users EXCEPT ![u] = [email |-> in[r].email,
                                           hash |-> Hash(in[r].password)]]
  BY DEF AddUser
<1> DEFINE row == [email |-> in[r].email, hash |-> Hash(in[r].password)]
<1>3. row \in User /\ row.email = in[r].email /\ row.hash.params = Current
  BY <1>1 DEF User, Hash, Hashes, PHC, IDKey
<1>4. users' = [users EXCEPT ![u] = row]
  BY <1>2
<1> HIDE DEF row
<1>5. /\ users' \in [UserIds -> User \cup {NULL}] /\ users'[u] = row
      /\ \A v \in UserIds \ {u} : users'[v] = users[v]
  BY <1>1, <1>3, <1>4 DEF TablesOK
<1>6. row # NULL
  BY <1>3, NullAssumption
<1>7. TablesOK'
  BY <1>1, <1>5, <1>6 DEF TablesOK, Wallet, Token
<1>8. WalletsOwned' /\ EveryWalletServable'
  BY DEF IInv, WalletsOwned, EveryWalletServable, Issued
<1>9. OneAccountPerMailbox'
  <2>1. ASSUME NEW v \in UserIds, v # u, users[v] # NULL,
               users[v].email[1] = row.email[1]
        PROVE  FALSE
    BY <1>3, <2>1 DEF AddUser, Account, SameMailbox
  <2> QED
    BY <1>5, <2>1 DEF IInv, OneAccountPerMailbox
<1>10. Grows
  BY <1>2, <1>3, <1>5 DEF Grows
<1> QED
  BY <1>1, <1>7, <1>8, <1>9, <1>10

LEMMA InsertUserStep ==
    ASSUME IInv, NEW r \in Requests, InsertUser(r)
    PROVE  IInv'
<1>1. /\ RequestsOK /\ RequestInv(r) /\ pc[r] = "insertUser" /\ in[r].op = "register"
      /\ UNCHANGED <<wallets, tokens, clock, in, holdings, known>>
      /\ "conflict" \in Codes /\ "created" \in Codes
  BY DEF IInv, RequestInv, AtStep, InsertUser, Codes, HttpStatus
<1>2. ASSUME NEW code \in {"conflict", "created"}, Answer(r, code),
             Grows, wrote' \in [Requests -> BOOLEAN],
             code = "conflict" => Account(in[r].email) # {} /\ UNCHANGED <<users, wrote>>,
             code = "created" => wrote' = [wrote EXCEPT ![r] = TRUE]
      PROVE  RequestInv(r)' /\ RequestsOK' /\ \A q \in Requests \ {r} : SameRequest(q)
  <2>1. /\ pc'[r] = "reply" /\ out'[r] = code /\ ~wrote[r] /\ code # NULL
        /\ RequestsOK' /\ \A q \in Requests \ {r} : SameRequest(q)
    BY <1>1, <1>2, AnswerType, NullAssumption
       DEF RequestsOK, SameRequest, RequestInv, AnswerOK
  <2>2. ~HttpClientError("created")
    BY DEF HttpClientError, HttpStatus
  <2>3. AnswerOK(r)'
    BY <1>1, <1>2, <2>1, <2>2 DEF AnswerOK, Account, RequestsOK
  <2>4. HoldingsOK(r)' /\ Authorized(r)' /\ AtStep(r)' /\ KnownOK(r)'
    BY <1>1, <1>2, <2>1
       DEF RequestInv, HoldingsOK, Authorized, Issued, AtStep, KnownOK, Grows
  <2> QED
    BY <2>1, <2>3, <2>4 DEF RequestInv
<1>3. CASE /\ Account(in[r].email) # {} /\ Answer(r, "conflict")
           /\ UNCHANGED <<users, wrote>>
  <2>1. Grows /\ wrote' \in [Requests -> BOOLEAN]
    BY <1>1, <1>3 DEF Grows, RequestsOK
  <2> QED
    BY <1>1, <1>2, <1>3, <2>1, MoveOn DEF tables
<1>4. CASE AddUser(r) /\ Answer(r, "created")
  <2>1. wrote' = [wrote EXCEPT ![r] = TRUE] /\ Grows
    BY <1>1, <1>4, AddUserTables
  <2>2. wrote' \in [Requests -> BOOLEAN]
    BY <1>1, <2>1 DEF RequestsOK
  <2>3. RequestInv(r)' /\ RequestsOK' /\ \A q \in Requests \ {r} : SameRequest(q)
    BY <1>2, <1>4, <2>1, <2>2
  <2> QED
    BY <1>1, <1>4, <2>3, AddUserTables, WriteStep
<1> QED
  BY <1>3, <1>4 DEF InsertUser

LEMMA InsertUserFailsStep ==
    ASSUME IInv, NEW r \in Requests, InsertUserFails(r)
    PROVE  IInv'
<1>1. /\ RequestsOK /\ pc[r] = "insertUser" /\ Fail(r, "internal_error")
      /\ UNCHANGED <<wallets, tokens, clock>> /\ "internal_error" \in Codes
  BY DEF IInv, InsertUserFails, Codes, HttpStatus
<1>2. CASE UNCHANGED <<users, wrote>>
  BY <1>1, <1>2, FailStep DEF tables
<1>3. CASE AddUser(r)
  <2>1. wrote' = [wrote EXCEPT ![r] = TRUE]
    BY <1>1, <1>3, AddUserTables
  <2>2. RequestInv(r)'
    BY <1>1, <2>1, Failed DEF RequestsOK
  <2>3. RequestsOK' /\ \A q \in Requests \ {r} : SameRequest(q)
    BY <1>1, <2>1, FailType DEF RequestsOK, SameRequest
  <2> QED
    BY <1>1, <1>3, <2>2, <2>3, AddUserTables, WriteStep
<1> QED
  BY <1>2, <1>3 DEF InsertUserFails

(* A hash that verifies is the one of this password.                        *)
LEMMA VerifyPasswordStep ==
    ASSUME IInv, NEW r \in Requests, VerifyPassword(r)
    PROVE  IInv'
<1>1. /\ RequestsOK /\ RequestInv(r) /\ pc[r] = "verify" /\ in[r].op = "login"
      /\ UNCHANGED <<tables, tokens, clock, holdings, wrote, known>>
      /\ in[r] \in Input /\ in[r].user = NULL /\ out[r] = NULL /\ ~wrote[r]
  BY DEF IInv, RequestInv, AtStep, AnswerOK, VerifyPassword, RequestsOK
<1>2. DOMAIN holdings[r] = {} /\ known[r] = {}
  BY <1>1, Empty
<1>3. ASSUME NEW u \in Account(in[r].email),
             Verify(users[u].hash, in[r].password),
             in' = [in EXCEPT ![r].user = u, ![r].email = NULL],
             Goto(r, "issue")
      PROVE  IInv'
  <2> DEFINE input == [in[r] EXCEPT !.user = u, !.email = NULL]
  <2>1. /\ u \in UserIds /\ users[u] # NULL /\ Goto(r, "issue")
        /\ in' = [in EXCEPT ![r] = input]
    BY <1>1, <1>3 DEF Account, RequestsOK
  <2>2. /\ input \in Input /\ input.op = "login" /\ input.user = u
        /\ input.password = in[r].password
    BY <1>1, <2>1 DEF Input
  <2> HIDE DEF input
  <2>3. RequestsOK' /\ \A q \in Requests \ {r} : SameRequest(q)
    BY <1>1, <2>1, <2>2 DEF RequestsOK, SameRequest, Steps, Goto
  <2>4. /\ in'[r] = input /\ pc'[r] = "issue" /\ out'[r] = NULL
        /\ holdings'[r] = holdings[r] /\ known'[r] = known[r] /\ wrote'[r] = wrote[r]
        /\ UNCHANGED users
    BY <1>1, <1>3, <2>1 DEF RequestsOK, Goto, tables
  <2>5. RequestInv(r)'
    BY <1>1, <1>2, <1>3, <2>1, <2>2, <2>4
       DEF RequestInv, HoldingsOK, Authorized, AtStep, KnownOK, AnswerOK, Protected,
           PasswordProven
  <2> QED
    BY <1>1, <2>3, <2>5, MoveOn
<1>4. CASE /\ \A u \in Account(in[r].email) : ~Verify(users[u].hash, in[r].password)
           /\ Answer(r, "unauthenticated") /\ UNCHANGED in
  <2>1. "unauthenticated" \in Codes /\ "unauthenticated" # NULL
    BY NullAssumption DEF Codes, HttpStatus
  <2>2. /\ pc'[r] = "reply" /\ out'[r] = "unauthenticated"
        /\ RequestsOK' /\ \A q \in Requests \ {r} : SameRequest(q)
    BY <1>1, <1>4, <2>1, AnswerType DEF RequestsOK, SameRequest
  <2>3. RequestInv(r)'
    BY <1>1, <1>2, <1>4, <2>1, <2>2
       DEF RequestInv, HoldingsOK, Authorized, AtStep, KnownOK, AnswerOK, Protected,
           Account, tables
  <2> QED
    BY <1>1, <2>2, <2>3, MoveOn
<1> QED
  BY <1>3, <1>4 DEF VerifyPassword

LEMMA IssueTokensStep ==
    ASSUME IInv, NEW r \in Requests, IssueTokens(r)
    PROVE  IInv'
<1>1. /\ RequestsOK /\ TablesOK /\ RequestInv(r) /\ pc[r] = "issue" /\ PasswordProven(r)
      /\ UNCHANGED <<tables, clock, in, holdings, wrote, known>>
      /\ ~wrote[r] /\ in[r].op = "login" /\ Answer(r, "ok")
      /\ "ok" \in Codes /\ "ok" # NULL /\ ~HttpClientError("ok")
  BY NullAssumption
     DEF IInv, RequestInv, AtStep, AnswerOK, PasswordProven, IssueTokens, Codes, HttpStatus,
         HttpClientError
<1> DEFINE t == [sub |-> in[r].user, exp |-> clock + TTL]
<1>2. /\ t \in Token /\ t.sub = in[r].user /\ users[t.sub] # NULL
      /\ tokens' = tokens \cup {t}
  BY <1>1, ApiAssumption DEF IssueTokens, PasswordProven, TablesOK, Token
<1> HIDE DEF t
<1>3. /\ TablesOK' /\ WalletsOwned' /\ OneAccountPerMailbox' /\ EveryWalletServable'
      /\ Grows
  BY <1>1, <1>2
     DEF IInv, tables, TablesOK, WalletsOwned, Issued, OneAccountPerMailbox,
         EveryWalletServable, Grows
<1>4. /\ pc'[r] = "reply" /\ out'[r] = "ok"
      /\ RequestsOK' /\ \A q \in Requests \ {r} : SameRequest(q)
  BY <1>1, AnswerType DEF RequestsOK, SameRequest
<1>5. PasswordProven(r)'
  BY <1>1 DEF PasswordProven, tables
<1>6. RequestInv(r)'
  BY <1>1, <1>4, <1>5
     DEF RequestInv, HoldingsOK, Authorized, AtStep, KnownOK, AnswerOK, Protected, tables
<1> QED
  BY <1>3, <1>4, <1>6, WriteStep

LEMMA FindUserStep ==
    ASSUME IInv, NEW r \in Requests, FindUser(r)
    PROVE  IInv'
<1>1. /\ RequestsOK /\ RequestInv(r) /\ pc[r] = "findUser" /\ in[r].op \in Protected
      /\ UNCHANGED <<tables, tokens, clock, wrote>> /\ out[r] = NULL /\ ~wrote[r]
  BY DEF IInv, RequestInv, AtStep, AnswerOK, FindUser
<1>2. CASE Fail(r, "not_found")
  BY <1>1, <1>2, FailStep
<1>3. CASE /\ Goto(r, IF in[r].op = "addWallet" THEN "checkWallet" ELSE "readWallets")
           /\ UNCHANGED <<in, holdings, known>>
  <2>1. /\ RequestsOK' /\ \A q \in Requests \ {r} : SameRequest(q)
        /\ pc'[r] = IF in[r].op = "addWallet" THEN "checkWallet" ELSE "readWallets"
        /\ out'[r] = NULL
    BY <1>1, <1>3 DEF RequestsOK, SameRequest, Goto, Steps
  <2>2. RequestInv(r)'
    BY <1>1, <1>3, <2>1
       DEF RequestInv, HoldingsOK, Authorized, Issued, AtStep, KnownOK, AnswerOK, Protected,
           tables
  <2> QED
    BY <1>1, <2>1, <2>2, MoveOn
<1> QED
  BY <1>2, <1>3 DEF FindUser

(* The user's wallets are read in one statement.                            *)
LEMMA ReadWalletsStep ==
    ASSUME IInv, NEW r \in Requests, ReadWallets(r)
    PROVE  IInv'
<1> DEFINE read == [w \in WalletsOf(in[r].user) |-> "todo"]
<1>1. /\ RequestsOK /\ RequestInv(r) /\ pc[r] = "readWallets"
      /\ in[r].op \in {"portfolio", "wallets"} /\ out[r] = NULL /\ ~wrote[r]
      /\ UNCHANGED <<tables, tokens, clock, in, wrote, known>>
      /\ holdings' = [holdings EXCEPT ![r] = read]
      /\ "ok" \in Codes /\ "ok" # NULL /\ ~HttpClientError("ok")
  BY NullAssumption
     DEF IInv, RequestInv, AtStep, AnswerOK, ReadWallets, Codes, HttpStatus, HttpClientError
<1>2. /\ DOMAIN read = {w \in wallets : w.user = in[r].user}
      /\ read = [w \in DOMAIN read |-> read[w]]
      /\ \A w \in DOMAIN read : read[w] \in Holding
  BY DEF WalletsOf, Holding
<1> HIDE DEF read
<1>3. holdings'[r] = read /\ holdings' = [q \in Requests |-> holdings'[q]]
  BY <1>1 DEF RequestsOK
<1>4. CASE in[r].op = "wallets" /\ Answer(r, "ok")
  <2>1. /\ pc'[r] = "reply" /\ out'[r] = "ok"
        /\ RequestsOK' /\ \A q \in Requests \ {r} : SameRequest(q)
    BY <1>1, <1>3, <1>4, AnswerType DEF RequestsOK, SameRequest
  <2>2. RequestInv(r)'
    BY <1>1, <1>2, <1>3, <1>4, <2>1
       DEF RequestInv, HoldingsOK, Authorized, Issued, AtStep, KnownOK, AnswerOK, tables
  <2> QED
    BY <1>1, <2>1, <2>2, MoveOn
<1>5. CASE in[r].op = "portfolio" /\ Goto(r, "fetch")
  <2>1. /\ pc'[r] = "fetch" /\ out'[r] = NULL
        /\ RequestsOK' /\ \A q \in Requests \ {r} : SameRequest(q)
    BY <1>1, <1>3, <1>5 DEF Goto, RequestsOK, SameRequest, Steps
  <2>2. RequestInv(r)'
    BY <1>1, <1>2, <1>3, <1>5, <2>1
       DEF RequestInv, HoldingsOK, Authorized, Issued, AtStep, KnownOK, AnswerOK, tables
  <2> QED
    BY <1>1, <2>1, <2>2, MoveOn
<1> QED
  BY <1>1, <1>4, <1>5 DEF ReadWallets

(* A holding is filled in; none is added or removed.                        *)
LEMMA FetchHoldingStep ==
    ASSUME IInv, NEW r \in Requests, NEW w \in Todo(r), FetchHolding(r, w)
    PROVE  IInv'
<1>1. /\ RequestsOK /\ RequestInv(r) /\ pc[r] = "fetch" /\ w \in DOMAIN holdings[r]
      /\ UNCHANGED <<tables, tokens, clock, pc, in, out, wrote, known>>
      /\ holdings[r] = [x \in DOMAIN holdings[r] |-> holdings[r][x]]
  BY DEF IInv, RequestInv, HoldingsOK, FetchHolding, Todo
<1>2. PICK h \in {"priced", "failed"} : holdings' = [holdings EXCEPT ![r][w] = h]
  BY DEF FetchHolding
<1>3. /\ holdings'[r] = [holdings[r] EXCEPT ![w] = h]
      /\ holdings' = [q \in Requests |-> holdings'[q]]
      /\ \A q \in Requests \ {r} : holdings'[q] = holdings[q]
  BY <1>2, <1>1 DEF RequestsOK
<1>4. /\ DOMAIN holdings'[r] = DOMAIN holdings[r]
      /\ \A x \in DOMAIN holdings[r] : holdings'[r][x] \in {h, holdings[r][x]}
      /\ holdings'[r] = [x \in DOMAIN holdings[r] |-> holdings'[r][x]]
  BY <1>1, <1>3
<1>5. RequestInv(r)'
  <2>1. HoldingsOK(r)'
    BY <1>1, <1>2, <1>4 DEF RequestInv, HoldingsOK, Holding, tables
  <2>2. Authorized(r)' /\ AtStep(r)' /\ KnownOK(r)' /\ AnswerOK(r)'
    BY <1>1, <1>4
       DEF RequestInv, Authorized, Issued, AtStep, KnownOK, AnswerOK, tables
  <2> QED
    BY <2>1, <2>2 DEF RequestInv
<1>6. RequestsOK' /\ \A q \in Requests \ {r} : SameRequest(q)
  BY <1>1, <1>3 DEF RequestsOK, SameRequest
<1> QED
  BY <1>1, <1>5, <1>6, MoveOn

LEMMA SendPortfolioStep ==
    ASSUME IInv, NEW r \in Requests, SendPortfolio(r)
    PROVE  IInv'
<1>1. /\ RequestsOK /\ RequestInv(r) /\ pc[r] = "fetch" /\ in[r].op = "portfolio"
      /\ UNCHANGED <<tables, tokens, clock, in, holdings, wrote, known>>
      /\ Todo(r) = {} /\ Answer(r, "ok") /\ ~wrote[r]
      /\ "ok" \in Codes /\ "ok" # NULL /\ ~HttpClientError("ok")
  BY NullAssumption
     DEF IInv, RequestInv, AtStep, AnswerOK, SendPortfolio, Codes, HttpStatus, HttpClientError
<1>2. /\ pc'[r] = "reply" /\ out'[r] = "ok"
      /\ RequestsOK' /\ \A q \in Requests \ {r} : SameRequest(q)
  BY <1>1, AnswerType DEF RequestsOK, SameRequest
<1>3. RequestInv(r)'
  BY <1>1, <1>2
     DEF RequestInv, HoldingsOK, Authorized, Issued, AtStep, KnownOK, AnswerOK, Todo, tables
<1> QED
  BY <1>1, <1>2, <1>3, MoveOn

LEMMA CheckWalletStep ==
    ASSUME IInv, NEW r \in Requests, CheckWallet(r)
    PROVE  IInv'
<1>1. /\ RequestsOK /\ RequestInv(r) /\ pc[r] = "checkWallet" /\ in[r].op = "addWallet"
      /\ UNCHANGED <<tables, tokens, clock, wrote>> /\ out[r] = NULL /\ ~wrote[r]
  BY DEF IInv, RequestInv, AtStep, AnswerOK, CheckWallet
<1>2. CASE Fail(r, "validation_error") \/ Fail(r, "unsupported_network")
  BY <1>1, <1>2, FailStep
<1>3. CASE /\ ValidateAddress(in[r].network, in[r].address) /\ Registered(in[r].network)
           /\ Goto(r, "insertWallet") /\ UNCHANGED <<in, holdings, known>>
  <2>1. /\ RequestsOK' /\ \A q \in Requests \ {r} : SameRequest(q)
        /\ pc'[r] = "insertWallet" /\ out'[r] = NULL
    BY <1>1, <1>3 DEF RequestsOK, SameRequest, Goto, Steps
  <2>2. RequestInv(r)'
    BY <1>1, <1>3, <2>1
       DEF RequestInv, HoldingsOK, Authorized, Issued, AtStep, KnownOK, AnswerOK, tables
  <2> QED
    BY <1>1, <2>1, <2>2, MoveOn
<1> QED
  BY <1>2, <1>3 DEF CheckWallet

(* A row is added: an accepted one, for an authorized user.                 *)
LEMMA AddRowTables ==
    ASSUME IInv, NEW r \in Requests, pc[r] = "insertWallet",
           NEW id \in WalletIds, AddRow(r, id), UNCHANGED <<users, tokens, clock>>
    PROVE  /\ TablesOK' /\ WalletsOwned' /\ OneAccountPerMailbox'
           /\ EveryWalletServable' /\ Grows
           /\ wrote' = [wrote EXCEPT ![r] = TRUE]
<1> DEFINE row == [id |-> id, user |-> in[r].user, network |-> in[r].network,
                   address |-> in[r].address]
<1>1. /\ TablesOK /\ in[r] \in Input /\ in[r].user \in UserIds /\ Issued(in[r].user)
      /\ in[r].network \in Names
      /\ Registered(in[r].network) /\ ValidateAddress(in[r].network, in[r].address)
  BY DEF IInv, RequestInv, RequestsOK, Authorized, AtStep, Protected
<1>2. /\ row \in Wallet /\ row.id = id /\ row.user = in[r].user
      /\ row.network = in[r].network /\ row.address = in[r].address
  BY <1>1 DEF Wallet, Input
<1>3. /\ wallets' = wallets \cup {row} /\ \A w \in wallets : w.id # id
      /\ wrote' = [wrote EXCEPT ![r] = TRUE]
  BY DEF AddRow
<1> HIDE DEF row
<1>4. users[row.user] # NULL
  BY <1>1, <1>2 DEF Issued, TablesOK
<1>5. TablesOK'
  BY <1>1, <1>2, <1>3, <1>4 DEF TablesOK
<1>6. WalletsOwned' /\ EveryWalletServable'
  BY <1>1, <1>2, <1>3 DEF IInv, WalletsOwned, Issued, EveryWalletServable
<1>7. OneAccountPerMailbox' /\ Grows
  BY <1>3 DEF IInv, OneAccountPerMailbox, Grows
<1> QED
  BY <1>3, <1>5, <1>6, <1>7

LEMMA InsertWalletStep ==
    ASSUME IInv, NEW r \in Requests, NEW id \in WalletIds, InsertWallet(r, id)
    PROVE  IInv'
<1>1. /\ RequestsOK /\ RequestInv(r) /\ pc[r] = "insertWallet" /\ in[r].op = "addWallet"
      /\ UNCHANGED <<users, tokens, clock>>
      /\ "created" \in Codes /\ "created" # NULL /\ ~HttpClientError("created")
  BY NullAssumption
     DEF IInv, RequestInv, AtStep, InsertWallet, Codes, HttpStatus, HttpClientError
<1>2. CASE Fail(r, "internal_error") /\ UNCHANGED <<wallets, wrote>>
  BY <1>1, <1>2, FailStep DEF tables
<1>3. CASE AddRow(r, id) /\ Answer(r, "created") /\ UNCHANGED <<in, holdings, known>>
  <2>1. wrote' = [wrote EXCEPT ![r] = TRUE] /\ Grows
    BY <1>1, <1>3, AddRowTables
  <2>2. /\ pc'[r] = "reply" /\ out'[r] = "created"
        /\ RequestsOK' /\ \A q \in Requests \ {r} : SameRequest(q)
    BY <1>1, <1>3, <2>1, AnswerType DEF RequestsOK, SameRequest
  <2>3. AnswerOK(r)'
    BY <1>1, <1>3, <2>1, <2>2 DEF AnswerOK, RequestsOK
  <2>4. HoldingsOK(r)' /\ Authorized(r)' /\ AtStep(r)' /\ KnownOK(r)'
    BY <1>1, <1>3, <2>1, <2>2
       DEF RequestInv, HoldingsOK, Authorized, Issued, AtStep, KnownOK, Grows
  <2> QED
    BY <1>1, <1>3, <2>2, <2>3, <2>4, AddRowTables, WriteStep DEF RequestInv
<1> QED
  BY <1>2, <1>3 DEF InsertWallet

LEMMA InsertWalletFailsStep ==
    ASSUME IInv, NEW r \in Requests, NEW id \in WalletIds, InsertWalletFails(r, id)
    PROVE  IInv'
<1>1. /\ RequestsOK /\ pc[r] = "insertWallet" /\ Fail(r, "internal_error")
      /\ UNCHANGED <<users, tokens, clock>> /\ "internal_error" \in Codes
  BY DEF IInv, InsertWalletFails, Codes, HttpStatus
<1>2. CASE UNCHANGED <<wallets, wrote>>
  BY <1>1, <1>2, FailStep DEF tables
<1>3. CASE AddRow(r, id)
  <2>1. wrote' = [wrote EXCEPT ![r] = TRUE]
    BY <1>1, <1>3, AddRowTables
  <2>2. RequestInv(r)'
    BY <1>1, <2>1, Failed DEF RequestsOK
  <2>3. RequestsOK' /\ \A q \in Requests \ {r} : SameRequest(q)
    BY <1>1, <2>1, FailType DEF RequestsOK, SameRequest
  <2> QED
    BY <1>1, <1>3, <2>2, <2>3, AddRowTables, WriteStep
<1> QED
  BY <1>2, <1>3 DEF InsertWalletFails

LEMMA ReplyStep ==
    ASSUME IInv, NEW r \in Requests, Reply(r)
    PROVE  IInv'
<1>1. Blank \in Input /\ Blank.op = "none"
  BY DEF Blank, Input, Addresses
<1>2. /\ pc'[r] = "idle" /\ in'[r] = Blank /\ holdings'[r] = <<>> /\ out'[r] = NULL
      /\ wrote'[r] = FALSE /\ known'[r] = {}
      /\ RequestsOK' /\ \A q \in Requests \ {r} : SameRequest(q)
  BY <1>1 DEF IInv, Reply, RequestsOK, SameRequest, Steps
<1>3. RequestInv(r)'
  BY <1>1, <1>2
     DEF RequestInv, HoldingsOK, Authorized, AtStep, KnownOK, AnswerOK, Protected
<1> QED
  BY <1>2, <1>3, MoveOn DEF Reply

LEMMA TickStep ==
    ASSUME IInv, clock' \in Nat, UNCHANGED <<tables, tokens, reqVars>>
    PROVE  IInv'
<1>1. TablesOK' /\ WalletsOwned' /\ OneAccountPerMailbox' /\ EveryWalletServable' /\ Grows
  BY TablesSame
<1>2. RequestsOK' /\ \A q \in Requests : SameRequest(q)
  BY DEF IInv, RequestsOK, reqVars, SameRequest
<1>3. \A q \in Requests : RequestInv(q)'
  BY <1>1, <1>2, OtherRequest DEF IInv
<1> QED
  BY <1>1, <1>2, <1>3 DEF IInv

LEMMA InvariantStep == IInv /\ [Next]_vars => IInv'
<1> SUFFICES ASSUME IInv, [Next]_vars PROVE IInv'
  OBVIOUS
<1>1. CASE Tick
  BY <1>1, TickStep DEF Tick, IInv, TablesOK
<1>2. CASE UNCHANGED vars
  BY <1>2, TickStep DEF vars, IInv, TablesOK
<1>3. ASSUME NEW r \in Requests, StatementFails(r)
      PROVE  IInv'
  BY <1>3, FailStep DEF StatementFails
<1> QED
  BY <1>1, <1>2, <1>3, ArriveStep, InsertUserStep, InsertUserFailsStep, VerifyPasswordStep,
     IssueTokensStep, FindUserStep, ReadWalletsStep, FetchHoldingStep, SendPortfolioStep,
     CheckWalletStep, InsertWalletStep, InsertWalletFailsStep, ReplyStep DEF Next

LEMMA InitInvariant == Init => IInv
<1> SUFFICES ASSUME Init PROVE IInv
  OBVIOUS
<1>1. PICK u \in UserIds, row \in Seeded :
         users = [[v \in UserIds |-> NULL] EXCEPT ![u] = row]
  BY DEF Init
<1>2. row \in User
  BY ApiAssumption DEF User
<1>3. TablesOK /\ WalletsOwned /\ EveryWalletServable
  BY <1>1, <1>2 DEF Init, TablesOK, WalletsOwned, EveryWalletServable
<1>4. OneAccountPerMailbox
  BY <1>1 DEF OneAccountPerMailbox
<1>5. Blank \in Input /\ Blank.op = "none"
  BY DEF Blank, Input, Addresses
<1>6. RequestsOK /\ \A r \in Requests : RequestInv(r)
  BY <1>5
     DEF Init, RequestsOK, Steps, RequestInv, HoldingsOK, Authorized, AtStep, KnownOK,
         AnswerOK, Protected
<1> QED
  BY <1>3, <1>4, <1>6 DEF IInv

(* The invariant holds in every state: whatever the requests in progress do *)
(* at each other's side, and whichever statements fail.                     *)
THEOREM Invariance == Spec => []IInv
BY InitInvariant, InvariantStep, PTL DEF Spec

-----------------------------------------------------------------------------
(* What the invariant says to a reader.                                     *)

(* Rows, inputs and answers keep their types; a wallet's user exists and    *)
(* its id is its own (the constraints of users and wallets, with the        *)
(* inserts of auth_service.go and portfolio_service.go).                    *)
THEOREM TypeCorrect == Spec => []TypeOK
<1>1. IInv => TypeOK
  BY DEF IInv, TablesOK, RequestsOK, RequestInv, HoldingsOK, AnswerOK, Steps, TypeOK
<1> QED
  BY <1>1, Invariance, PTL

(* Two accounts never share a mailbox, however many registrations of its    *)
(* spellings race and are retried (Register over the unique index on        *)
(* lower(email)).                                                           *)
THEOREM MailboxesUnique == Spec => []OneAccountPerMailbox
<1>1. IInv => OneAccountPerMailbox
  BY DEF IInv
<1> QED
  BY <1>1, Invariance, PTL

(* Whatever gets past authorization works for the subject of an issued      *)
(* token and touches this user's wallets only (requireSelf of both          *)
(* transports with the services behind them).                               *)
THEOREM OwnData == Spec => []OnlyOwnData
<1>1. IInv => OnlyOwnData
  <2> SUFFICES ASSUME IInv PROVE OnlyOwnData
    OBVIOUS
  <2>1. \A w \in wallets : \E t \in tokens : t.sub = w.user
    BY DEF IInv, WalletsOwned, Issued
  <2>2. ASSUME NEW r \in Requests, in[r].op \in Protected
        PROVE  /\ \E t \in tokens : t.sub = in[r].subject
               /\ in[r].user = in[r].subject
               /\ \A w \in DOMAIN holdings[r] : w.user = in[r].subject
    <3>1. Authorized(r) /\ HoldingsOK(r)
      BY DEF IInv, RequestInv
    <3>2. in[r].user = in[r].subject /\ Issued(in[r].user)
      BY <2>2, <3>1 DEF Authorized
    <3>3. \A w \in DOMAIN holdings[r] : w.user = in[r].user
      BY <3>1 DEF HoldingsOK
    <3> QED
      BY <3>2, <3>3 DEF Issued
  <2> QED
    BY <2>1, <2>2 DEF OnlyOwnData
<1> QED
  BY <1>1, Invariance, PTL

(* A verified hash is one of the password's; a hash of the earlier          *)
(* parameters does not keep its password from verifying.                    *)
LEMMA VerifiedHash ==
    ASSUME NEW hash \in Hashes, NEW p
    PROVE  /\ Verify(hash, p) => hash \in {PHC(m, IDKey(p, m)) : m \in {Earlier, Current}}
           /\ hash = PHC(Earlier, IDKey(p, Earlier)) =>
                 Verify(hash, p) /\ hash.params # Current
BY DEF Hashes, NoHash, Verify, PHC, IDKey, Earlier, Current

(* An answer says what happened, over either transport: to the tables for a *)
(* registration or a wallet, about the password for a login (the error      *)
(* mappings of httpapi and grpcapi over the services' answers).             *)
THEOREM Truthful == Spec => []AnswersTrue
<1>1. IInv => AnswersTrue
  <2> SUFFICES ASSUME IInv, NEW r \in Requests, pc[r] = "reply"
               PROVE  /\ HttpClientError(out[r]) <=> GrpcClientError(out[r])
                      /\ HttpClientError(out[r]) => ~wrote[r]
                      /\ out[r] = "created" => wrote[r]
                      /\ out[r] = "conflict" => Account(in[r].email) # {}
                      /\ in[r].op = "login" /\ out[r] = "ok" =>
                            users[in[r].user].hash \in
                               {PHC(m, IDKey(in[r].password, m)) : m \in {Earlier, Current}}
                      /\ in[r].op = "login" /\ out[r] = "unauthenticated" =>
                            \A u \in Account(in[r].email) :
                               users[u].hash # PHC(Earlier, IDKey(in[r].password, Earlier))
    BY DEF AnswersTrue
  <2>1. AnswerOK(r) /\ TablesOK /\ out[r] \in Codes
    BY DEF IInv, RequestInv, RequestsOK, AnswerOK
  <2>2. HttpClientError(out[r]) <=> GrpcClientError(out[r])
    BY <2>1, ClassesAgree
  <2>3. \A u \in UserIds : users[u] # NULL => users[u].hash \in Hashes
    BY <2>1 DEF TablesOK, User
  <2>4. in[r].op = "login" /\ out[r] = "ok" =>
           users[in[r].user].hash \in
              {PHC(m, IDKey(in[r].password, m)) : m \in {Earlier, Current}}
    BY <2>1, <2>3, VerifiedHash DEF AnswerOK, PasswordProven
  <2>5. in[r].op = "login" /\ out[r] = "unauthenticated" =>
           \A u \in Account(in[r].email) :
              users[u].hash # PHC(Earlier, IDKey(in[r].password, Earlier))
    BY <2>1, <2>3, VerifiedHash DEF AnswerOK, Account
  <2> QED
    BY <2>1, <2>2, <2>4, <2>5 DEF AnswerOK
<1> QED
  BY <1>1, Invariance, PTL

(* An answered portfolio or list has every wallet its user had when the     *)
(* request came in, priced or with its error (GetPortfolio's loop over      *)
(* fetchHolding, GetWallets).                                               *)
THEOREM Complete == Spec => []NothingMissing
<1>1. IInv => NothingMissing
  BY DEF IInv, RequestInv, AnswerOK, NothingMissing
<1> QED
  BY <1>1, Invariance, PTL

(* A stored wallet has a network name the registry knows and an address of  *)
(* that network, whichever transport it came over (AddWallet's validation   *)
(* and its lookup in the registry).                                         *)
THEOREM Servable == Spec => []EveryWalletServable
<1>1. IInv => EveryWalletServable
  BY DEF IInv
<1> QED
  BY <1>1, Invariance, PTL

-----------------------------------------------------------------------------
(* The process: ApiProcess.                                                 *)

(* What Load makes of any environment suits every constructor.              *)
LEMMA LoadAccepted ==
    ASSUME NEW env \in Environments
    PROVE  Loaded(Load(env)) /\ ApiAccepts(Load(env)) /\ WorkersAccept(Load(env))
<1> DEFINE c == Load(env)
<1> USE ConfigAssumption
<1>1. /\ c.DatabaseURL # Unset /\ c.EthRPCURL # Unset /\ c.KleverBaseURL # Unset
      /\ c.RabbitMQURL # Unset
  BY DEF Load, getEnv, Environments
<1>2. SigningKey(c) >= KeyBytes
  <2>1. c.JWTSigningKey \in Nat
    BY DEF Load, Environments
  <2> HIDE DEF c
  <2> QED
    BY <2>1 DEF SigningKey, KeyBytes
<1>3. c.KafkaBrokers # {} /\ BlankEntry \notin c.KafkaBrokers
  <2>1. c.KafkaBrokers = parseCSV(env.KAFKA_BROKERS, {Default})
    BY DEF Load
  <2> HIDE DEF c
  <2> QED
    BY <2>1 DEF parseCSV
<1>4. c.SnapshotWorkers \in Int
  BY DEF Load, Environments, parseNumber
<1> HIDE DEF c
<1>5. NumWorkers(c) > 0
  BY <1>4 DEF NumWorkers
<1>6. ApiAccepts(c)
  BY <1>1, <1>2
     DEF ApiAccepts, NewEthereumProvider, NewKleverProvider, PriceProvider,
         NewCoinGeckoPriceProvider, NewTokenIssuer, NewTokenVerifier
<1>7. WorkersAccept(c)
  BY <1>1, <1>3, <1>5
     DEF WorkersAccept, NewEthereumLogsFetcher, NewEthereumTokenProvider, NewKafkaPublisher,
         NewKafkaConsumer, Dialable, NewRabbitPublisher, NewRabbitConsumer
<1> QED
  BY <1>1, <1>6, <1>7 DEF Loaded, c

(* Only a call whose context has ended times out.                           *)
LEMMA Outcomes ==
    ASSUME NEW ended \in BOOLEAN, NEW reply \in Possible(ended)
    PROVE  /\ \A n :
                 /\ GetBalance(n, reply, ended) \in {"ok", "timeout", "unavailable", "untyped"}
                 /\ GetBalance(n, reply, ended) = "timeout" => ended
           /\ \A provider, n :
                 LET price == GetPriceUSD(provider, Asset(n), reply, ended)
                 IN  /\ price \in {"ok", "timeout", "unavailable", "untyped"}
                     /\ price = "timeout" => ended
<1>1. reply \in Replies
  BY DEF Possible, Replies
<1>2. ASSUME NEW reported \in {"untyped", "unavailable"}, NEW absent \in {"untyped", "ok"}
      PROVE  /\ Fetch(reply, ended, reported, absent) \in {"ok", "timeout", "unavailable", "untyped"}
             /\ Fetch(reply, ended, reported, absent) = "timeout" => ended
  BY <1>1 DEF Fetch, Replies, DoFailed
<1>3. \A n : Asset(n) \in PricedAssets
  BY DEF Asset, PricedAssets
<1> QED
  BY <1>2, <1>3
     DEF GetBalance, EthereumBalance, KleverBalance, GetPriceUSD, MockPriceUSD,
         CoinGeckoPriceUSD

-----------------------------------------------------------------------------
(* While main is where it is, which configuration it has and which requests *)
(* may be in flight: none before the servers serve, RPCs until GracefulStop *)
(* has waited for them, and an overdue HTTP request until the process ends. *)
MainOK ==
    /\ phase # "panicked"
    /\ phase \in {"loaded", "connected"} => \E env \in Environments : cfg = Load(env)
    /\ phase = "grpcDrain" =>
          /\ http = "closed" /\ grpc = "closed"
          /\ ~overdue => \A r \in HttpRequests : ~InFlight(r)
    /\ phase = "exited" =>
          /\ http = "closed" /\ grpc = "closed"
          /\ \A r \in Calls : ~InFlight(r)

(* What is known of a request on its way.                                   *)
CallOK(r) ==
    /\ state[r] = "lost" => r \in HttpRequests /\ (late[r] \/ overdue)
    /\ state[r] = "answered" => ~gone[r]
    /\ r \in HttpRequests /\ state[r] \in {"logged", "answered"} => logged[r] = status[r]
    /\ holding[r] = "timeout" => gone[r]

(* The inductive invariant.                                                 *)
ProcessInv == ProcessTypeOK /\ MainOK /\ \A r \in Calls : CallOK(r)

-----------------------------------------------------------------------------
(* A step of main, and one of a request.                                    *)
MainStep ==
    \/ LoadConfig \/ PingDatabase \/ Build \/ ListenGrpc \/ ListenHttp
    \/ Signal \/ DrainDeadline \/ ShutdownReturns \/ GracefulStopReturns

CallStep(r) ==
    \/ AcceptCall(r) \/ HandlerReturns(r) \/ HandlerPanics(r) \/ CallProvider(r)
    \/ BalanceArrives(r) \/ PriceArrives(r) \/ Log(r) \/ Send(r) \/ GiveUp(r)
    \/ WriteDeadline(r)

LEMMA ProcessSteps ==
    [ProcessNext]_processVars => \/ MainStep \/ \E r \in Calls : CallStep(r)
                                 \/ UNCHANGED processVars
BY DEF ProcessNext, MainStep, CallStep, WriteDeadline, Calls

LEMMA MainTypeStep == ProcessTypeOK /\ MainStep => ProcessTypeOK'
<1> SUFFICES ASSUME ProcessTypeOK, MainStep PROVE ProcessTypeOK'
  OBVIOUS
<1>1. /\ phase' \in {"off", "loaded", "connected", "built", "serving", "httpDrain",
                     "grpcDrain", "exited", "failed", "panicked"}
      /\ pricing' \in {Nil, "CoinGecko", "Mock"}
      /\ http' \in {"none", "starting", "open", "failed", "draining", "closed"}
      /\ grpc' \in {"none", "open", "closed"}
      /\ overdue' \in BOOLEAN
  <2>1. CASE LoadConfig \/ PingDatabase \/ Build
    BY <2>1 DEF ProcessTypeOK, LoadConfig, PingDatabase, Build, PriceProvider, servers
  <2>2. CASE ListenGrpc \/ ListenHttp \/ Signal
    BY <2>2 DEF ProcessTypeOK, ListenGrpc, ListenHttp, Signal, boot, servers
  <2>3. CASE DrainDeadline \/ ShutdownReturns \/ GracefulStopReturns
    BY <2>3
       DEF ProcessTypeOK, DrainDeadline, ShutdownReturns, GracefulStopReturns, Exit, boot, servers
  <2> QED
    BY <2>1, <2>2, <2>3 DEF MainStep
<1>2. cfg' = Nil \/ \E env \in Environments : cfg' = Load(env)
  <2>1. CASE LoadConfig \/ Build
    BY <2>1 DEF LoadConfig, Build
  <2>2. CASE cfg' = cfg
    BY <2>2 DEF ProcessTypeOK
  <2> QED
    BY <2>1, <2>2
       DEF MainStep, PingDatabase, ListenGrpc, ListenHttp, Signal, DrainDeadline,
           ShutdownReturns, GracefulStopReturns, Exit, boot
<1>3. UNCHANGED <<network, holding, status, logged, gone, late>>
  BY DEF MainStep, LoadConfig, PingDatabase, Build, ListenGrpc, ListenHttp, Signal,
         DrainDeadline, ShutdownReturns, GracefulStopReturns, Exit, callVars
<1>4. state' \in [Calls -> {"idle"} \cup Busy \cup Ended]
  <2>1. CASE GracefulStopReturns
    BY <2>1 DEF GracefulStopReturns, Exit, ProcessTypeOK, Busy, Ended
  <2>2. CASE state' = state
    BY <2>2 DEF ProcessTypeOK
  <2> QED
    BY <2>1, <2>2
       DEF MainStep, LoadConfig, PingDatabase, Build, ListenGrpc, ListenHttp, Signal,
           DrainDeadline, ShutdownReturns, callVars
<1> QED
  BY <1>1, <1>2, <1>3, <1>4 DEF ProcessTypeOK

(* A request changes nothing but itself.                                    *)
OneCall(r) ==
    /\ UNCHANGED <<boot, servers, overdue>>
    /\ \A q \in Calls : q # r =>
          /\ state'[q] = state[q] /\ holding'[q] = holding[q] /\ gone'[q] = gone[q]
          /\ status'[q] = status[q] /\ logged'[q] = logged[q]
          /\ q \in HttpRequests => late'[q] = late[q]

LEMMA CallTypeStep ==
    ASSUME ProcessTypeOK, NEW r \in Calls, CallStep(r)
    PROVE  ProcessTypeOK' /\ OneCall(r)
<1> DEFINE Outcome == {Nil, "ok", "timeout", "unavailable", "untyped"}
<1>1. UNCHANGED <<boot, servers, overdue>>
  BY DEF CallStep, AcceptCall, HandlerReturns, HandlerPanics, CallProvider, BalanceArrives,
         PriceArrives, Log, Send, GiveUp, WriteDeadline
<1>2. ASSUME NEW to \in {"idle"} \cup Busy \cup Ended,
             state' = [state EXCEPT ![r] = to],
             NEW n \in HoldingNetworks \cup {Nil}, network' = [network EXCEPT ![r] = n],
             NEW h \in Outcome, holding' = [holding EXCEPT ![r] = h],
             NEW s \in {Nil, "ok", "panic"}, status' = [status EXCEPT ![r] = s],
             NEW l \in {Nil, "ok", "panic"}, logged' = [logged EXCEPT ![r] = l],
             UNCHANGED <<gone, late>>
      PROVE  ProcessTypeOK' /\ OneCall(r)
  BY <1>1, <1>2 DEF ProcessTypeOK, OneCall, boot, servers
<1>3. /\ state = [state EXCEPT ![r] = state[r]] /\ state[r] \in {"idle"} \cup Busy \cup Ended
      /\ network = [network EXCEPT ![r] = network[r]] /\ network[r] \in HoldingNetworks \cup {Nil}
      /\ holding = [holding EXCEPT ![r] = holding[r]] /\ holding[r] \in Outcome
      /\ status = [status EXCEPT ![r] = status[r]] /\ status[r] \in {Nil, "ok", "panic"}
      /\ logged = [logged EXCEPT ![r] = logged[r]] /\ logged[r] \in {Nil, "ok", "panic"}
      /\ gone[r] \in BOOLEAN
  BY DEF ProcessTypeOK
<1>4. CASE AcceptCall(r) \/ Send(r)
  <2>1. \E to \in {"idle"} \cup Busy \cup Ended : state' = [state EXCEPT ![r] = to]
    BY <1>4 DEF AcceptCall, Send, Step, Busy, Ended
  <2>2. UNCHANGED <<network, holding, status, logged, gone, late>>
    BY <1>4 DEF AcceptCall, Send
  <2> QED
    BY <1>1, <1>2, <1>3, <2>1, <2>2
<1>5. CASE HandlerReturns(r) \/ HandlerPanics(r)
  <2>1. /\ state' = [state EXCEPT ![r] = "returned"] /\ "returned" \in Busy
        /\ \E s \in {"ok", "panic"} : status' = [status EXCEPT ![r] = s]
        /\ UNCHANGED <<network, holding, logged, gone, late>>
    BY <1>5 DEF HandlerReturns, HandlerPanics, Recovered, Step, Busy
  <2> QED
    BY <1>1, <1>2, <1>3, <2>1
<1>6. CASE CallProvider(r)
  <2>1. /\ state' = [state EXCEPT ![r] = "balance"] /\ "balance" \in Busy
        /\ \E n \in HoldingNetworks : network' = [network EXCEPT ![r] = n]
        /\ UNCHANGED <<holding, status, logged, gone, late>>
    BY <1>6 DEF CallProvider, Step, Busy
  <2> QED
    BY <1>1, <1>2, <1>3, <2>1
<1>7. ASSUME NEW h \in Outcome, Fetched(r, h), state' = [state EXCEPT ![r] = "returned"],
             UNCHANGED <<logged, gone, late>>
      PROVE  ProcessTypeOK' /\ OneCall(r)
  <2>1. /\ holding' = [holding EXCEPT ![r] = h] /\ network' = [network EXCEPT ![r] = Nil]
        /\ status' = [status EXCEPT ![r] = "ok"] /\ "returned" \in Busy
    BY <1>7 DEF Fetched, Busy
  <2> QED
    BY <1>1, <1>2, <1>3, <1>7, <2>1
<1>8. CASE BalanceArrives(r)
  <2>1. PICK reply \in Possible(gone[r]) :
           LET outcome == GetBalance(network[r], reply, gone[r])
           IN  IF outcome = "ok"
               THEN Step(r, "balance", "price") /\ UNCHANGED <<network, holding, status>>
               ELSE Step(r, "balance", "returned") /\ Fetched(r, outcome)
    BY <1>8 DEF BalanceArrives
  <2>2. UNCHANGED <<logged, gone, late>>
    BY <1>8 DEF BalanceArrives
  <2> DEFINE outcome == GetBalance(network[r], reply, gone[r])
  <2> HIDE DEF outcome
  <2>3. CASE outcome = "ok"
    <3>1. /\ state' = [state EXCEPT ![r] = "price"] /\ "price" \in Busy
          /\ UNCHANGED <<network, holding, status>>
      BY <2>1, <2>3 DEF Step, Busy, outcome
    <3> QED
      BY <1>1, <1>2, <1>3, <2>2, <3>1
  <2>4. CASE outcome # "ok"
    <3>1. outcome \in Outcome
      BY <1>3, Outcomes DEF outcome
    <3>2. state' = [state EXCEPT ![r] = "returned"] /\ Fetched(r, outcome)
      BY <2>1, <2>4 DEF Step, outcome
    <3> QED
      BY <1>7, <2>2, <3>1, <3>2
  <2> QED
    BY <2>3, <2>4
<1>9. CASE PriceArrives(r)
  <2>1. PICK reply \in Possible(gone[r]) :
           Fetched(r, GetPriceUSD(pricing, Asset(network[r]), reply, gone[r]))
    BY <1>9 DEF PriceArrives
  <2>2. GetPriceUSD(pricing, Asset(network[r]), reply, gone[r]) \in Outcome
    BY <1>3, Outcomes
  <2>3. state' = [state EXCEPT ![r] = "returned"] /\ UNCHANGED <<logged, gone, late>>
    BY <1>9 DEF PriceArrives, Step
  <2> QED
    BY <1>7, <2>1, <2>2, <2>3
<1>10. CASE Log(r)
  <2>1. /\ state' = [state EXCEPT ![r] = "logged"] /\ "logged" \in Busy
        /\ logged' = [logged EXCEPT ![r] = status[r]]
        /\ UNCHANGED <<network, holding, status, gone, late>>
    BY <1>10 DEF Log, Step, Busy
  <2> QED
    BY <1>1, <1>2, <1>3, <2>1
<1>11. CASE GiveUp(r) \/ WriteDeadline(r)
  <2>1. /\ UNCHANGED <<state, network, holding, status, logged>>
        /\ gone' = gone \/ gone' = [gone EXCEPT ![r] = TRUE]
        /\ late' = late \/ late' = [late EXCEPT ![r] = TRUE]
    BY <1>11 DEF GiveUp, WriteDeadline
  <2>2. gone' \in [Calls -> BOOLEAN] /\ \A q \in Calls : q # r => gone'[q] = gone[q]
    BY <2>1 DEF ProcessTypeOK
  <2>3. late' \in [HttpRequests -> BOOLEAN] /\ \A q \in HttpRequests : q # r => late'[q] = late[q]
    BY <2>1 DEF ProcessTypeOK
  <2> QED
    BY <1>1, <2>1, <2>2, <2>3 DEF ProcessTypeOK, OneCall, boot, servers
<1> QED
  BY <1>1, <1>4, <1>5, <1>6, <1>8, <1>9, <1>10, <1>11 DEF CallStep

(* What is known of a request stays known through its own steps.            *)
LEMMA CallOKStep ==
    ASSUME ProcessTypeOK, NEW r \in Calls, CallStep(r), CallOK(r)
    PROVE  CallOK(r)'
<1>1. /\ ProcessTypeOK' /\ overdue' = overdue
      /\ r \in DOMAIN state /\ r \in DOMAIN holding /\ r \in DOMAIN status
      /\ r \in DOMAIN logged /\ r \in DOMAIN gone /\ gone[r] \in BOOLEAN
      /\ r \in HttpRequests => r \in DOMAIN late
  BY CallTypeStep DEF ProcessTypeOK, OneCall
<1>2. ASSUME state'[r] \in Busy \ {"logged"}, UNCHANGED <<holding, gone>>
      PROVE  CallOK(r)'
  BY <1>1, <1>2 DEF CallOK, Busy
<1>3. CASE AcceptCall(r) \/ HandlerReturns(r) \/ HandlerPanics(r) \/ CallProvider(r)
  BY <1>1, <1>2, <1>3
     DEF AcceptCall, HandlerReturns, HandlerPanics, CallProvider, Step, Busy
<1>4. ASSUME NEW h, Fetched(r, h), h = "timeout" => gone[r], UNCHANGED gone,
             state' = [state EXCEPT ![r] = "returned"]
      PROVE  CallOK(r)'
  BY <1>1, <1>4 DEF Fetched, CallOK
<1>5. CASE BalanceArrives(r)
  <2>1. PICK reply \in Possible(gone[r]) :
           LET outcome == GetBalance(network[r], reply, gone[r])
           IN  IF outcome = "ok"
               THEN Step(r, "balance", "price") /\ UNCHANGED <<network, holding, status>>
               ELSE Step(r, "balance", "returned") /\ Fetched(r, outcome)
    BY <1>5 DEF BalanceArrives
  <2>2. UNCHANGED gone
    BY <1>5 DEF BalanceArrives
  <2> DEFINE outcome == GetBalance(network[r], reply, gone[r])
  <2>3. outcome = "timeout" => gone[r]
    BY <1>1, Outcomes
  <2> HIDE DEF outcome
  <2>4. CASE outcome = "ok"
    <3>1. state' = [state EXCEPT ![r] = "price"] /\ UNCHANGED holding
      BY <2>1, <2>4 DEF Step, outcome
    <3> QED
      BY <1>1, <1>2, <2>2, <3>1 DEF Busy
  <2>5. CASE outcome # "ok"
    <3>1. state' = [state EXCEPT ![r] = "returned"] /\ Fetched(r, outcome)
      BY <2>1, <2>5 DEF Step, outcome
    <3> QED
      BY <1>4, <2>2, <2>3, <3>1
  <2> QED
    BY <2>4, <2>5
<1>6. CASE PriceArrives(r)
  <2>1. PICK reply \in Possible(gone[r]) :
           Fetched(r, GetPriceUSD(pricing, Asset(network[r]), reply, gone[r]))
    BY <1>6 DEF PriceArrives
  <2>2. GetPriceUSD(pricing, Asset(network[r]), reply, gone[r]) = "timeout" => gone[r]
    BY <1>1, Outcomes
  <2>3. state' = [state EXCEPT ![r] = "returned"] /\ UNCHANGED gone
    BY <1>6 DEF PriceArrives, Step
  <2> QED
    BY <1>4, <2>1, <2>2, <2>3
<1>7. CASE Log(r)
  BY <1>1, <1>7 DEF Log, Step, CallOK
<1>8. CASE Send(r)
  BY <1>1, <1>8 DEF Send, CallOK
<1>9. CASE GiveUp(r)
  BY <1>1, <1>9 DEF GiveUp, InFlight, Busy, CallOK
<1>10. CASE WriteDeadline(r)
  BY <1>1, <1>10 DEF WriteDeadline, CallOK
<1> QED
  BY <1>3, <1>5, <1>6, <1>7, <1>8, <1>9, <1>10 DEF CallStep

(* A request is in flight only if it was, or has just been accepted.        *)
LEMMA Arrives ==
    ASSUME ProcessTypeOK, NEW r \in Calls, CallStep(r), InFlight(r)'
    PROVE  InFlight(r) \/ Accepted(r)
BY DEF CallStep, AcceptCall, HandlerReturns, HandlerPanics, CallProvider, BalanceArrives,
       PriceArrives, Log, Send, GiveUp, WriteDeadline, Step, InFlight, Busy, ProcessTypeOK

LEMMA CallInvStep ==
    ASSUME ProcessInv, NEW r \in Calls, CallStep(r)
    PROVE  ProcessInv'
<1>1. ProcessTypeOK /\ MainOK /\ ProcessTypeOK' /\ OneCall(r) /\ CallOK(r)'
  BY CallTypeStep, CallOKStep DEF ProcessInv
<1>2. ASSUME NEW q \in Calls, q # r
      PROVE  CallOK(q)' /\ (InFlight(q)' => InFlight(q))
  BY <1>1, <1>2 DEF ProcessInv, OneCall, CallOK, InFlight
<1>3. InFlight(r)' => InFlight(r) \/ Accepted(r)
  BY <1>1, Arrives
<1>4. ASSUME http = "closed", grpc = "closed"
      PROVE  ~Accepted(r)
  BY <1>4 DEF Accepted
<1>5. MainOK'
  BY <1>1, <1>2, <1>3, <1>4 DEF MainOK, OneCall, boot, servers, Calls
<1> QED
  BY <1>1, <1>2, <1>5 DEF ProcessInv

LEMMA MainInvStep ==
    ASSUME ProcessInv, MainStep
    PROVE  ProcessInv'
<1>1. ProcessTypeOK /\ MainOK /\ ProcessTypeOK'
  BY MainTypeStep DEF ProcessInv
<1>2. UNCHANGED <<holding, status, logged, gone, late>>
  BY DEF MainStep, LoadConfig, PingDatabase, Build, ListenGrpc, ListenHttp, Signal,
         DrainDeadline, ShutdownReturns, GracefulStopReturns, Exit, callVars
<1>3. CASE UNCHANGED state
  <2>1. overdue => overdue'
    BY <1>1, <1>3
       DEF MainStep, LoadConfig, PingDatabase, Build, ListenGrpc, ListenHttp, Signal,
           DrainDeadline, ShutdownReturns, GracefulStopReturns, Exit, boot, servers
  <2>2. \A r \in Calls : CallOK(r)' /\ (InFlight(r)' <=> InFlight(r))
    BY <1>2, <1>3, <2>1 DEF ProcessInv, CallOK, InFlight
  <2>3. CASE LoadConfig
    <3>1. PICK env \in Environments : cfg' = Load(env) /\ phase' = "loaded"
      BY <2>3, LoadAccepted DEF LoadConfig
    <3> QED
      BY <3>1, <1>1, <2>2 DEF ProcessInv, MainOK
  <2>4. CASE Build
    <3>1. phase' = "built"
      BY <1>1, <2>4, LoadAccepted DEF Build, MainOK
    <3> QED
      BY <3>1, <1>1, <2>2 DEF ProcessInv, MainOK
  <2>5. CASE ShutdownReturns
    BY <1>1, <2>2, <2>5 DEF ShutdownReturns, ProcessInv, MainOK, Calls
  <2>6. CASE PingDatabase \/ ListenGrpc \/ Signal
    BY <1>1, <2>2, <2>6 DEF PingDatabase, ListenGrpc, Signal, ProcessInv, MainOK
  <2>7. CASE ListenHttp
    <3>1. http = "starting" /\ UNCHANGED boot
      BY <2>7 DEF ListenHttp
    <3> QED
      BY <1>1, <2>2, <3>1 DEF ProcessInv, MainOK, boot
  <2>8. CASE DrainDeadline
    BY <1>1, <2>2, <2>8 DEF DrainDeadline, ProcessInv, MainOK, boot, servers
  <2>9. CASE GracefulStopReturns
    \* nothing was in flight
    <3>1. /\ phase = "grpcDrain" /\ phase' = "exited" /\ UNCHANGED servers
          /\ \A r \in Calls : InFlight(r) => state'[r] = "lost"
      BY <2>9 DEF GracefulStopReturns, Exit
    <3>2. \A r \in Calls : ~InFlight(r)
      BY <1>3, <3>1 DEF InFlight, Busy
    <3> QED
      BY <1>1, <2>2, <3>1, <3>2 DEF ProcessInv, MainOK, servers
  <2> QED
    BY <2>3, <2>4, <2>5, <2>6, <2>7, <2>8, <2>9 DEF MainStep
<1>4. CASE GracefulStopReturns
  \* what is still in flight is an HTTP request the drain has given up on
  <2>1. /\ phase = "grpcDrain" /\ phase' = "exited" /\ http' = "closed" /\ grpc' = "closed"
        /\ overdue' = overdue
        /\ \A r \in Calls : state'[r] = IF InFlight(r) THEN "lost" ELSE state[r]
        /\ \A r \in Rpcs : ~InFlight(r)
    BY <1>1, <1>4 DEF GracefulStopReturns, Exit, MainOK, servers
  <2>2. ASSUME NEW r \in Calls
        PROVE  CallOK(r)' /\ ~InFlight(r)'
    <3>1. CASE InFlight(r)
      <4>1. r \in HttpRequests /\ overdue
        BY <1>1, <2>1, <3>1 DEF MainOK, Calls
      <4>2. state'[r] = "lost"
        BY <2>1, <3>1
      <4> QED
        BY <1>2, <2>1, <4>1, <4>2 DEF ProcessInv, CallOK, InFlight, Busy
    <3>2. CASE ~InFlight(r)
      BY <1>2, <2>1, <3>2 DEF ProcessInv, CallOK, InFlight
    <3> QED
      BY <3>1, <3>2
  <2> QED
    BY <1>1, <2>1, <2>2 DEF ProcessInv, MainOK
<1> QED
  BY <1>3, <1>4
     DEF MainStep, LoadConfig, PingDatabase, Build, ListenGrpc, ListenHttp, Signal,
         DrainDeadline, ShutdownReturns, callVars

LEMMA ProcessInvStep == ProcessInv /\ [ProcessNext]_processVars => ProcessInv'
<1> SUFFICES ASSUME ProcessInv, [ProcessNext]_processVars PROVE ProcessInv'
  OBVIOUS
<1>1. CASE UNCHANGED processVars
  BY <1>1
     DEF ProcessInv, ProcessTypeOK, MainOK, CallOK, InFlight, processVars, callVars, boot, servers
<1> QED
  BY <1>1, CallInvStep, MainInvStep, ProcessSteps

LEMMA ProcessInitInv == ProcessInit => ProcessInv
<1> SUFFICES ASSUME ProcessInit PROVE ProcessInv
  OBVIOUS
<1>1. ProcessTypeOK
  BY DEF ProcessInit, ProcessTypeOK
<1>2. MainOK
  BY DEF ProcessInit, MainOK
<1>3. \A r \in Calls : CallOK(r)
  BY ApiProcessAssumption DEF ProcessInit, CallOK
<1> QED
  BY <1>1, <1>2, <1>3 DEF ProcessInv

(* The inductive invariant of the process holds from its start to its end.  *)
THEOREM ProcessInvariance == ProcessSpec => []ProcessInv
BY ProcessInitInv, ProcessInvStep, PTL DEF ProcessSpec

(* Every variable of the process keeps its type.                            *)
THEOREM ProcessTypeCorrect == ProcessSpec => []ProcessTypeOK
<1>1. ProcessInv => ProcessTypeOK
  BY DEF ProcessInv
<1> QED
  BY <1>1, ProcessInvariance, PTL

(* Whatever an operator puts into the environment, any number and any       *)
(* length of the signing key, every constructor accepts what Load and main  *)
(* make of it (config.go, cmd/api/main.go).                                 *)
THEOREM Boots == ProcessSpec => []EveryProcessBoots
<1>1. ProcessInv => EveryProcessBoots
  BY LoadAccepted DEF ProcessInv, MainOK, EveryProcessBoots
<1> QED
  BY <1>1, ProcessInvariance, PTL

(* However many requests are on their way when the signal comes: a process  *)
(* ends without losing an RPC, or an HTTP request within its deadlines      *)
(* (the shutdown of cmd/api/main.go).                                       *)
THEOREM Drained == ProcessSpec => []AcceptedAnswered
<1>1. ProcessInv => AcceptedAnswered
  BY DEF ProcessInv, MainOK, CallOK, AcceptedAnswered
<1> QED
  BY <1>1, ProcessInvariance, PTL

(* The log has every answer with the status its client has seen, panics     *)
(* included (middleware/logging.go outside of middleware/recovery.go).      *)
THEOREM Logged == ProcessSpec => []AnsweredAsLogged
<1>1. ProcessInv => AnsweredAsLogged
  BY DEF ProcessInv, CallOK, AnsweredAsLogged, Calls
<1> QED
  BY <1>1, ProcessInvariance, PTL

(* No client that waits for its answer reads of a timeout: only its own     *)
(* going ends a provider's call early (internal/provider).                  *)
THEOREM Untimed == ProcessSpec => []NoTimeoutAnswered
<1>1. ProcessInv => NoTimeoutAnswered
  BY DEF ProcessInv, CallOK, NoTimeoutAnswered
<1> QED
  BY <1>1, ProcessInvariance, PTL
=============================================================================
