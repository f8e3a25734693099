--------------------------------- MODULE Api ---------------------------------
(***************************************************************************)
(* The API over the tables users and wallets: registration, login and the   *)
(* three protected calls, served at the same time over REST and gRPC        *)
(* (internal/service, internal/httpapi, internal/grpcapi, internal/auth).   *)
(*                                                                         *)
(* Every request is a process, every SQL statement and every provider call  *)
(* a step of it. Refresh tokens have a module of their own, RefreshTokens;  *)
(* here a login issues access tokens, which are not stored anywhere and     *)
(* stay valid until they expire. An e-mail address and a network name are   *)
(* pairs of what they mean and how they are spelled. A body that is not     *)
(* JSON is refused before anything happens, and is left out.                *)
(***************************************************************************)
EXTENDS Naturals, FiniteSets

CONSTANTS UserIds,    \* the ids the generator can mint
          WalletIds,  \* the ids made from the clock
          Mailboxes,
          Emails,     \* mailboxes as they may be spelled
          Passwords,  \* long enough to register; NULL stands for one that is not
          Guesses,    \* what a login may present; NULL stands for nothing
          Networks,   \* registered in the ProviderRegistry
          Unknown,    \* a network that is not
          Requests,   \* the requests served concurrently
          Seeded,     \* rows an earlier version may have left in users
          NULL,
          TTL,        \* lifetime of an access token
          MaxTime     \* bound on the clock

(* A hash says with which parameters it was made. Its salt is left out: two *)
(* hashes are never compared.                                               *)
IDKey(password, params) == <<password, params>>
PHC(params, key)        == [params |-> params, key |-> key]

(* What NewArgon2idHasher takes, and what an earlier version did.           *)
Current == "current"
Earlier == "earlier"

(* The empty hash of a user of migration 002, which knew no passwords.      *)
NoHash == PHC("none", <<>>)

Hash(password) == PHC(Current, IDKey(password, Current))

Hashes == {NoHash} \cup
    {PHC(m, IDKey(p, m)) : p \in Passwords, m \in {Earlier, Current}}

ASSUME ApiAssumption ==
    /\ NULL \notin UserIds \cup Guesses
    /\ Passwords \subseteq Guesses
    /\ Emails \subseteq Mailboxes \X {"lower", "mixed"}
    /\ Unknown \notin Networks
    /\ Seeded \subseteq [email : Emails, hash : Hashes]
    /\ TTL \in Nat \ {0}
    /\ MaxTime \in Nat

VARIABLES
    users,     \* the table, by id: email and password_hash, or NULL
    wallets,   \* the table: a set of rows
    tokens,    \* the access tokens that were issued
    clock,
    (* the requests *)
    pc,        \* the step a request takes next; "reply" once it has answered
    in,        \* its input
    holdings,  \* the wallets it has read, each "todo", "priced" or "failed"
    out,       \* its answer
    (* history *)
    wrote,     \* whether it may have added a row
    known      \* to answer with: the wallets its user had when it came in

tables  == <<users, wallets>>
reqVars == <<pc, in, holdings, out, wrote, known>>
vars    == <<tables, tokens, clock, reqVars>>

Spellings == {"lower", "mixed"}
Names     == Networks \X Spellings \cup {<<Unknown, "lower">>}
Protected == {"portfolio", "wallets", "addWallet"}
Addresses == {"", "0x", "klv1"}  \* by how they begin; "0x" has 42 characters
Wallet    == [id : WalletIds, user : UserIds, network : Names, address : Addresses]
User      == [email : Emails, hash : Hashes]
Holding   == {"todo", "priced", "failed"}
Token     == [sub : UserIds, exp : Nat]

Input == [op : {"none", "register", "login"} \cup Protected,
          user : UserIds \cup {NULL},      \* path id or user_id
          email : Emails \cup {NULL},
          password : Guesses \cup {NULL},
          subject : UserIds \cup {NULL},   \* of the claims in the context
          network : Names \cup {NULL},     \* as the service receives it
          address : Addresses]

Blank == [op |-> "none", user |-> NULL, email |-> NULL,
          password |-> NULL, subject |-> NULL, network |-> NULL, address |-> ""]

Verify(hash, password) ==
    hash # NoHash /\ hash.key = IDKey(password, hash.params)

(* Variant: a unique constraint on the column itself.                       *)
SameSpelling(e, f) == e = f

(* lower(email), the expression of the unique index.                        *)
SameMailbox(e, f) == e[1] = f[1]

Lowered(name) == <<name[1], "lower">>

(* The registry is a map from lower-case names.                             *)
Registered(name) == name \in Networks \X {"lower"}

WalletsOf(u) == {w \in wallets : w.user = u}
Account(e)   == {u \in UserIds : users[u] # NULL /\ SameMailbox(users[u].email, e)}

(* What the code of an AppError becomes over each transport; an error of    *)
(* another type is an internal one.                                         *)
GrpcCode ==
    [not_found |-> "NotFound", validation_error |-> "InvalidArgument",
     invalid_input |-> "InvalidArgument", unsupported_network |-> "InvalidArgument",
     unauthenticated |-> "Unauthenticated", forbidden |-> "PermissionDenied",
     conflict |-> "AlreadyExists", provider_failure |-> "Unavailable",
     upstream_timeout |-> "DeadlineExceeded", internal_error |-> "Internal",
     ok |-> "OK", created |-> "OK"]

HttpStatus ==
    [not_found |-> 404, validation_error |-> 400, invalid_input |-> 400,
     unsupported_network |-> 400, unauthenticated |-> 401, forbidden |-> 403,
     conflict |-> 409, provider_failure |-> 502, upstream_timeout |-> 504,
     internal_error |-> 500, ok |-> 200, created |-> 201]

Codes == DOMAIN HttpStatus

(* NULL stands for no row and for no answer yet.                            *)
ASSUME NullAssumption == NULL \notin User /\ NULL \notin Codes

(* Whether an answer calls it the client's mistake.                         *)
HttpClientError(code) == HttpStatus[code] \in 400..499
GrpcClientError(code) ==
    GrpcCode[code] \in {"NotFound", "InvalidArgument", "Unauthenticated",
                        "PermissionDenied", "AlreadyExists"}

TurnedAway(r) == out[r] # NULL /\ HttpClientError(out[r])

(* An AppError of this code, or a result, goes to the transport.            *)
Answer(r, code) ==
    /\ pc' = [pc EXCEPT ![r] = "reply"]
    /\ out' = [out EXCEPT ![r] = code]

Goto(r, step) ==
    /\ pc' = [pc EXCEPT ![r] = step]
    /\ UNCHANGED out

Init ==
    /\ \E u \in UserIds, row \in Seeded :
          users = [[v \in UserIds |-> NULL] EXCEPT ![u] = row]
    /\ wallets = {} /\ tokens = {} /\ clock = 0
    /\ pc = [r \in Requests |-> "idle"]
    /\ in = [r \in Requests |-> Blank]
    /\ holdings = [r \in Requests |-> <<>>]
    /\ out = [r \in Requests |-> NULL]
    /\ wrote = [r \in Requests |-> FALSE]
    /\ known = [r \in Requests |-> {}]

Comes(r, input) == in' = [in EXCEPT ![r] = input]

(* The response is sent, or lost; the request's state is gone.              *)
Reply(r) ==
    /\ pc[r] = "reply"
    /\ pc' = [pc EXCEPT ![r] = "idle"]
    /\ in' = [in EXCEPT ![r] = Blank]
    /\ holdings' = [holdings EXCEPT ![r] = <<>>]
    /\ out' = [out EXCEPT ![r] = NULL]
    /\ wrote' = [wrote EXCEPT ![r] = FALSE]
    /\ known' = [known EXCEPT ![r] = {}]
    /\ UNCHANGED <<tables, tokens, clock>>

-----------------------------------------------------------------------------
(* An error that ends a request at once: nothing else of it is kept.        *)
Fail(r, code) ==
    /\ Answer(r, code)
    /\ Comes(r, Blank)
    /\ holdings' = [holdings EXCEPT ![r] = <<>>]
    /\ known' = [known EXCEPT ![r] = {}]

(* A request that is turned away before it is anything.                     *)
Refuse(r, code) ==
    /\ Answer(r, code)
    /\ UNCHANGED <<in, known>>

(* Register validates its input before it hashes the password.              *)
Register(r, e, p) ==
    /\ \/ (e = NULL \/ p = NULL) /\ Refuse(r, "validation_error")
       \/ /\ e # NULL /\ p # NULL
          /\ Comes(r, [Blank EXCEPT !.op = "register", !.email = e, !.password = p])
          /\ Goto(r, "insertUser")
          /\ UNCHANGED known
    /\ UNCHANGED <<tables, tokens, clock, holdings, wrote>>

AddUser(r) ==
    /\ Account(in[r].email) = {}
    /\ \E u \in UserIds :
          /\ users[u] = NULL
          /\ users' = [users EXCEPT ![u] = [email |-> in[r].email,
                                            hash |-> Hash(in[r].password)]]
    /\ wrote' = [wrote EXCEPT ![r] = TRUE]

(* Variant: INSERT ... ON CONFLICT DO NOTHING.                              *)
InsertUserOrNothing(r) ==
    /\ pc[r] = "insertUser"
    /\ \/ Account(in[r].email) # {} /\ UNCHANGED <<users, wrote>>
       \/ AddUser(r)
    /\ Answer(r, "created")
    /\ UNCHANGED <<wallets, tokens, clock, in, holdings, known>>

(* The INSERT waits for concurrent ones and then violates the unique index  *)
(* or adds the row.                                                         *)
InsertUser(r) ==
    /\ pc[r] = "insertUser"
    /\ \/ /\ Account(in[r].email) # {}
          /\ Answer(r, "conflict")
          /\ UNCHANGED <<users, wrote>>
       \/ AddUser(r) /\ Answer(r, "created")
    /\ UNCHANGED <<wallets, tokens, clock, in, holdings, known>>

(* An error of the database; the row may have been committed.               *)
InsertUserFails(r) ==
    /\ pc[r] = "insertUser"
    /\ AddUser(r) \/ UNCHANGED <<users, wrote>>
    /\ Fail(r, "internal_error")
    /\ UNCHANGED <<wallets, tokens, clock>>

(* An empty address or password is refused before the database is asked.    *)
Login(r, e, p) ==
    /\ \/ (e = NULL \/ p = NULL) /\ Refuse(r, "unauthenticated")
       \/ /\ e # NULL /\ p # NULL
          /\ Comes(r, [Blank EXCEPT !.op = "login", !.email = e, !.password = p])
          /\ Goto(r, "verify")
          /\ UNCHANGED known
    /\ UNCHANGED <<tables, tokens, clock, holdings, wrote>>

(* FindByEmail and the verification of the hash. An unknown address and a   *)
(* wrong password have the same answer.                                     *)
VerifyPassword(r) ==
    /\ pc[r] = "verify"
    /\ \/ /\ \E u \in Account(in[r].email) :
                /\ Verify(users[u].hash, in[r].password)
                /\ in' = [in EXCEPT ![r].user = u, ![r].email = NULL]
          /\ Goto(r, "issue")
       \/ /\ \A u \in Account(in[r].email) : ~Verify(users[u].hash, in[r].password)
          /\ Answer(r, "unauthenticated")
          /\ UNCHANGED in
    /\ UNCHANGED <<tables, tokens, clock, holdings, wrote, known>>

(* The access token is signed before the refresh token's row is inserted.   *)
IssueTokens(r) ==
    /\ pc[r] = "issue"
    /\ tokens' = tokens \cup {[sub |-> in[r].user, exp |-> clock + TTL]}
    /\ Answer(r, "ok")
    /\ UNCHANGED <<tables, clock, in, holdings, wrote, known>>

(* Neither transport touches the input of these two.                        *)
HandleRegister(r, e, p) == Register(r, e, p)
RegisterRpc(r, e, p)    == Register(r, e, p)
HandleLogin(r, e, p)    == Login(r, e, p)
LoginRpc(r, e, p)       == Login(r, e, p)

-----------------------------------------------------------------------------
(* Verify: the token was signed with the server's key and has not expired.  *)
Verified(t) == t \in tokens /\ clock < t.exp

(* Variant: the requested user is not compared with the subject.            *)
AnyUser(t, u) == TRUE

Self(t, u) == t.sub = u

(* The middleware or the interceptor, then requireSelf: the same over both  *)
(* transports. A token t = NULL stands for none that verifies.              *)
Authenticated(t) == t # NULL /\ Verified(t)

Deny(r, u, t) ==
    /\ \/ ~Authenticated(t) /\ Refuse(r, "unauthenticated")
       \/ Authenticated(t) /\ u = NULL /\ Refuse(r, "invalid_input")
       \/ Authenticated(t) /\ u # NULL /\ ~Self(t, u) /\ Refuse(r, "forbidden")
    /\ UNCHANGED <<tables, tokens, clock, holdings, wrote>>

Admit(r, op, u, t, name, address) ==
    /\ Authenticated(t) /\ u # NULL /\ Self(t, u)
    /\ Comes(r, [Blank EXCEPT !.op = op, !.user = u, !.subject = t.sub,
                              !.network = name, !.address = address])
    /\ Goto(r, "findUser")
    /\ known' = [known EXCEPT ![r] = IF op = "addWallet" THEN {} ELSE WalletsOf(u)]
    /\ UNCHANGED <<tables, tokens, clock, holdings, wrote>>

(* REST and gRPC ask the services for the same.                             *)
HandleGetPortfolio(r, u, t) == Admit(r, "portfolio", u, t, NULL, "")
GetPortfolio(r, u, t)       == Admit(r, "portfolio", u, t, NULL, "")
HandleGetWallets(r, u, t)   == Admit(r, "wallets", u, t, NULL, "")
ListWallets(r, u, t)        == Admit(r, "wallets", u, t, NULL, "")

(* The handler of REST lowers the network's name and refuses an empty       *)
(* address; the RPC passes both on as they came.                            *)
HandleAddWallet(r, u, t, name, address) ==
    \/ /\ Authenticated(t) /\ u # NULL /\ Self(t, u) /\ address = ""
       /\ Refuse(r, "validation_error")
       /\ UNCHANGED <<tables, tokens, clock, holdings, wrote>>
    \/ address # "" /\ Admit(r, "addWallet", u, t, Lowered(name), address)

AddWallet(r, u, t, name, address) == Admit(r, "addWallet", u, t, name, address)

(* FindByID.                                                                *)
FindUser(r) ==
    /\ pc[r] = "findUser"
    /\ IF users[in[r].user] = NULL
       THEN Fail(r, "not_found")
       ELSE /\ Goto(r, IF in[r].op = "addWallet" THEN "checkWallet" ELSE "readWallets")
            /\ UNCHANGED <<in, holdings, known>>
    /\ UNCHANGED <<tables, tokens, clock, wrote>>

(* FindByUserID, in no particular order. GetWallets is done with it.        *)
ReadWallets(r) ==
    /\ pc[r] = "readWallets"
    /\ holdings' = [holdings EXCEPT ![r] = [w \in WalletsOf(in[r].user) |-> "todo"]]
    /\ IF in[r].op = "wallets" THEN Answer(r, "ok") ELSE Goto(r, "fetch")
    /\ UNCHANGED <<tables, tokens, clock, in, wrote, known>>

Todo(r) == {w \in DOMAIN holdings[r] : holdings[r][w] = "todo"}

(* Variant: the first error ends the loop.                                  *)
FetchHoldingOrStop(r, w) ==
    /\ pc[r] = "fetch"
    /\ \/ /\ holdings' = [holdings EXCEPT ![r][w] = "priced"]
          /\ UNCHANGED <<pc, out>>
       \/ /\ holdings' = [holdings EXCEPT ![r] =
                              [x \in DOMAIN @ \ Todo(r) |-> @[x]]]
          /\ Answer(r, "ok")
    /\ UNCHANGED <<tables, tokens, clock, in, wrote, known>>

(* fetchHolding: an unregistered network, or an error or a timeout of the   *)
(* balance or the price provider, is noted in the holding.                  *)
FetchHolding(r, w) ==
    /\ pc[r] = "fetch"
    /\ \/ /\ Registered(w.network)
          /\ holdings' = [holdings EXCEPT ![r][w] = "priced"]
       \/ holdings' = [holdings EXCEPT ![r][w] = "failed"]
    /\ UNCHANGED <<tables, tokens, clock, pc, in, out, wrote, known>>

SendPortfolio(r) ==
    /\ pc[r] = "fetch"
    /\ Todo(r) = {}
    /\ Answer(r, "ok")
    /\ UNCHANGED <<tables, tokens, clock, in, holdings, wrote, known>>

(* The case of the network's name does not matter here, and an address of a *)
(* network it does not know only has to be there.                           *)
ValidateAddress(name, address) ==
    /\ address # ""
    /\ name[1] = "ethereum" => address = "0x"
    /\ name[1] = "klever" => address = "klv1"

(* Variant: the registry is asked for the lower-case name.                  *)
CheckLowered(r) ==
    /\ pc[r] = "checkWallet"
    /\ IF ~ValidateAddress(in[r].network, in[r].address)
       THEN Answer(r, "validation_error")
       ELSE Registered(Lowered(in[r].network)) /\ Goto(r, "insertWallet")
    /\ UNCHANGED <<tables, tokens, clock, in, holdings, wrote, known>>

(* The address is validated, then the registry is asked.                    *)
CheckWallet(r) ==
    /\ pc[r] = "checkWallet"
    /\ IF ~ValidateAddress(in[r].network, in[r].address)
       THEN Fail(r, "validation_error")
       ELSE IF ~Registered(in[r].network)
       THEN Fail(r, "unsupported_network")
       ELSE Goto(r, "insertWallet") /\ UNCHANGED <<in, holdings, known>>
    /\ UNCHANGED <<tables, tokens, clock, wrote>>

AddRow(r, id) ==
    /\ \A w \in wallets : w.id # id
    /\ wallets' = wallets \cup
          {[id |-> id, user |-> in[r].user, network |-> in[r].network,
            address |-> in[r].address]}
    /\ wrote' = [wrote EXCEPT ![r] = TRUE]

(* The INSERT. Two requests that read the same nanosecond have one id, and  *)
(* the second one violates the primary key.                                 *)
InsertWallet(r, id) ==
    /\ pc[r] = "insertWallet"
    /\ \/ AddRow(r, id) /\ Answer(r, "created")
          /\ UNCHANGED <<in, holdings, known>>
       \/ /\ \E w \in wallets : w.id = id
          /\ Fail(r, "internal_error")
          /\ UNCHANGED <<wallets, wrote>>
    /\ UNCHANGED <<users, tokens, clock>>

(* An error of the database; the row may have been committed.               *)
InsertWalletFails(r, id) ==
    /\ pc[r] = "insertWallet"
    /\ AddRow(r, id) \/ UNCHANGED <<wallets, wrote>>
    /\ Fail(r, "internal_error")
    /\ UNCHANGED <<users, tokens, clock>>

(* A statement that only reads, or the insert of the refresh token, fails.  *)
StatementFails(r) ==
    /\ pc[r] \in {"verify", "issue", "findUser", "readWallets"}
    /\ Fail(r, "internal_error")
    /\ UNCHANGED <<tables, tokens, clock, wrote>>

Tick ==
    /\ clock < MaxTime
    /\ clock' = clock + 1
    /\ UNCHANGED <<tables, tokens, reqVars>>

(* A request arrives.                                                       *)
Arrive(r) ==
    /\ pc[r] = "idle"
    /\ \/ \E e \in Emails \cup {NULL}, p \in Passwords \cup {NULL} :
             HandleRegister(r, e, p) \/ RegisterRpc(r, e, p)
       \/ \E e \in Emails \cup {NULL}, p \in Guesses \cup {NULL} :
             HandleLogin(r, e, p) \/ LoginRpc(r, e, p)
       \/ \E u \in UserIds \cup {NULL}, t \in tokens \cup {NULL} :
             \/ Deny(r, u, t)
             \/ HandleGetPortfolio(r, u, t) \/ GetPortfolio(r, u, t)
             \/ HandleGetWallets(r, u, t) \/ ListWallets(r, u, t)
             \/ \E name \in Names, address \in Addresses :
                   \/ HandleAddWallet(r, u, t, name, address)
                   \/ AddWallet(r, u, t, name, address)

Next ==
    \/ Tick
    \/ \E r \in Requests :
          \/ Arrive(r)
          \/ InsertUser(r) \/ InsertUserFails(r)
          \/ VerifyPassword(r) \/ IssueTokens(r)
          \/ FindUser(r) \/ ReadWallets(r)
          \/ \E w \in Todo(r) : FetchHolding(r, w)
          \/ SendPortfolio(r)
          \/ CheckWallet(r)
          \/ \E id \in WalletIds : InsertWallet(r, id) \/ InsertWalletFails(r, id)
          \/ StatementFails(r)
          \/ Reply(r)

Spec == Init /\ [][Next]_vars

-----------------------------------------------------------------------------
(* Rows, inputs and answers have their types; a wallet's user exists (the   *)
(* foreign key) and its id is its own.                                      *)
TypeOK ==
    /\ users \in [UserIds -> User \cup {NULL}]
    /\ wallets \subseteq Wallet
    /\ \A w \in wallets : users[w.user] # NULL
    /\ \A v, w \in wallets : v.id = w.id => v = w
    /\ \A t \in tokens : t \in Token /\ users[t.sub] # NULL
    /\ pc \in [Requests -> {"idle", "insertUser", "verify", "issue", "findUser",
                            "readWallets", "fetch", "checkWallet",
                            "insertWallet", "reply"}]
    /\ in \in [Requests -> Input]
    /\ \A r \in Requests : \A w \in DOMAIN holdings[r] :
          w \in wallets /\ holdings[r][w] \in Holding
    /\ out \in [Requests -> Codes \cup {NULL}]
    /\ \A r \in Requests : pc[r] = "reply" <=> out[r] # NULL

(* Two accounts never share a mailbox, however registrations of different   *)
(* spellings race and are retried after a lost answer.                      *)
OneAccountPerMailbox ==
    \A u, v \in UserIds :
        users[u] # NULL /\ users[v] # NULL
        /\ users[u].email[1] = users[v].email[1] => u = v

(* Over both transports, a request that gets past authorization works for   *)
(* the subject of a token the server issued, reads only that user's wallets *)
(* and adds none to another; so every wallet belongs to someone who has     *)
(* logged in.                                                               *)
OnlyOwnData ==
    /\ \A r \in Requests :
          in[r].op \in Protected /\ pc[r] # "idle" /\ ~TurnedAway(r) =>
             /\ \E t \in tokens : t.sub = in[r].subject
             /\ in[r].user = in[r].subject
             /\ \A w \in DOMAIN holdings[r] : w.user = in[r].subject
    /\ \A w \in wallets : \E t \in tokens : t.sub = w.user

(* An answer says what happened, over either transport: what is called the  *)
(* client's mistake by one is by the other, and left nothing behind; a      *)
(* created account or wallet is in its table, a conflict means the mailbox  *)
(* has an account; a login succeeds only with the account's password, and   *)
(* with it also for an account whose hash has the parameters of before.     *)
AnswersTrue ==
    \A r \in Requests : pc[r] = "reply" =>
        /\ HttpClientError(out[r]) <=> GrpcClientError(out[r])
        /\ HttpClientError(out[r]) => ~wrote[r]
        /\ out[r] = "created" => wrote[r]
        /\ out[r] = "conflict" => Account(in[r].email) # {}
        /\ in[r].op = "login" /\ out[r] = "ok" =>
              users[in[r].user].hash \in {PHC(m, IDKey(in[r].password, m)) :
                                             m \in {Earlier, Current}}
        /\ in[r].op = "login" /\ out[r] = "unauthenticated" =>
              \A u \in Account(in[r].email) :
                  users[u].hash # PHC(Earlier, IDKey(in[r].password, Earlier))

(* A portfolio or a list that is answered holds every wallet its user had   *)
(* when the request came in, each priced or with its error: a provider that *)
(* fails costs its own holding only, a wallet added meanwhile may be there. *)
NothingMissing ==
    \A r \in Requests :
        pc[r] = "reply" /\ out[r] = "ok" /\ in[r].op \in {"portfolio", "wallets"} =>
           /\ known[r] \subseteq DOMAIN holdings[r]
           /\ in[r].op = "portfolio" => Todo(r) = {}

(* Whichever transport stored it, a wallet carries a network name the       *)
(* registry and the watcher's FindByBlockchain find it under, and an        *)
(* address of that network.                                                 *)
EveryWalletServable ==
    \A w \in wallets : Registered(w.network) /\ ValidateAddress(w.network, w.address)
=============================================================================
