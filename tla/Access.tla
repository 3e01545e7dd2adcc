-------------------------------- MODULE Access --------------------------------
(***************************************************************************)
(* Who may do what: credentials, accounts and sessions (internal/auth,     *)
(* internal/account) in front of the control plane                         *)
(* (internal/endpoint/handler.go, internal/importer/handler.go) and of the *)
(* mock endpoints' public flag (internal/router/dynamic.go).  What a       *)
(* request is answered is an operator; a request that changes something is *)
(* an action of one step, since the rows it touches are Registry's         *)
(* business.  What lies between requests is modelled: the clock, logins,   *)
(* and restarts under another configuration, which the database and the    *)
(* callers' tokens survive.                                                *)
(***************************************************************************)
EXTENDS Naturals, Sequences, FiniteSets

CONSTANTS
  Configs,    \* configurations an operator starts the server with
  Secrets,    \* API key and workspace secrets
  TokenIds,   \* JWTs, whoever signed them
  Foreign,    \* JWTs other holders of the shared secret signed
  RawEmails,  \* addresses as callers write them
  Canonical,  \* what normalizeEmail makes of each
  Valid,      \* the addresses net/mail accepts
  Passwords,  \* passwords, each named by its number of bytes
  Accounts,   \* uuids of accounts
  Legacy,     \* the account of rows that have no other owner
  Nil,        \* the nil UUID: no account in Go, a subject in a token
  Rows,       \* endpoint ids
  TTL,        \* jwt_ttl
  MaxTime,    \* bound on the clock
  None        \* no credential, no name, no account, no secret, no row

ASSUME AccessAssumption ==
  /\ TTL \in Nat
  /\ Legacy \notin Accounts
  /\ Nil \notin Accounts \cup {Legacy, None}
  /\ None \notin Accounts \cup Secrets \cup TokenIds \cup {Legacy}
  /\ MaxTime \in Nat \ {0}
  /\ DOMAIN Foreign \subseteq TokenIds
  /\ \A t \in DOMAIN Foreign : Foreign[t] # None /\ Foreign[t].exp \in Nat

\* No configured secret is itself a JWT.
ASSUME SecretsAssumption == Secrets \cap TokenIds = {}

\* Trimming and lowering an address twice does no more than doing it once.
ASSUME EmailAssumption ==
  /\ Canonical \in [RawEmails -> STRING]
  /\ \A raw \in RawEmails :
       Canonical[raw] \in RawEmails => Canonical[Canonical[raw]] = Canonical[raw]

VARIABLES
  config,    \* the running configuration
  keyName,   \* the name each API key secret was stored under at startup
  tokens,    \* claims and signing secret of every JWT there is
  accounts,  \* table accounts, without the seeded row of Legacy
  rows,      \* table endpoints: owner and public flag
  clock,     \* seconds
  writer     \* history: the credential of the last request that wrote a row

vars == <<config, keyName, tokens, accounts, rows, clock, writer>>
startup == <<config, keyName>>

Owners == Accounts \cup {Legacy}
Uuids == Owners \cup {Nil}
Credentials == Secrets \cup TokenIds \cup {None}
Nobody == [kind |-> None, name |-> None, account |-> None]

-----------------------------------------------------------------------------
\* parseCredentials and the hash maps of NewService: a secret listed under
\* two names keeps the one a map iteration comes to last.
KeyNames(cfg) ==
  {f \in [Secrets -> {p[1] : p \in cfg.keys} \cup {None}] :
     \A s \in Secrets : LET names == {p[1] : p \in {q \in cfg.keys : q[2] = s}}
                        IN  IF names = {} THEN f[s] = None ELSE f[s] \in names}

\* Mutant of verifyJWT: a token is still good in its expiry second.
VerifyLate(t) ==
  /\ tokens[t] # None
  /\ tokens[t].secret = config.secret
  /\ tokens[t].issuer = "mocksvr"
  /\ tokens[t].exp > 0 => clock <= tokens[t].exp

verifyJWT(t) ==
  /\ tokens[t] # None
  /\ tokens[t].secret = config.secret
  /\ tokens[t].issuer = "mocksvr"
  /\ tokens[t].exp > 0 => clock < tokens[t].exp

\* Mutant of Authenticate: a token of an account keeps its name only.
AuthenticateByName(cred) ==
  IF cred \in Secrets /\ keyName[cred] # None
  THEN [kind |-> "api_key", name |-> keyName[cred], account |-> None]
  ELSE IF cred \in TokenIds /\ config.secret # None /\ verifyJWT(cred)
  THEN [kind |-> "jwt", name |-> tokens[cred].sub, account |-> None]
  ELSE Nobody

\* API keys, then workspace tokens, then JWTs.  Both secret stores answer with
\* a kind and a name; a JWT of an account must have a UUID as its subject,
\* which need not be that of a registered account.
Authenticate(cred) ==
  IF cred \in Secrets /\ keyName[cred] # None
  THEN [kind |-> "api_key", name |-> keyName[cred], account |-> None]
  ELSE IF cred \in Secrets /\ \E w \in config.workspaces : w[2] = cred
  THEN [kind |-> "workspace_token",
        name |-> (CHOOSE w \in config.workspaces : w[2] = cred)[1], account |-> None]
  ELSE IF cred \in TokenIds /\ config.secret # None /\ verifyJWT(cred)
  THEN IF tokens[cred].kind # "account"
       THEN [kind |-> "jwt", name |-> tokens[cred].sub, account |-> None]
       ELSE IF tokens[cred].sub \in Uuids
       THEN [kind |-> "account", name |-> None, account |-> tokens[cred].sub]
       ELSE Nobody
  ELSE Nobody

\* The identity the middleware leaves on the request.
Identity(cred) == IF config.auth THEN Authenticate(cred) ELSE Nobody

\* How a request spells the prefix of the control plane's routes: the router
\* takes any case, the middleware compares it as written.
Prefixes == {"/api/v1", "/API/v1"}

\* The middleware answers 401 before any handler.
Blocked(path, cred) == /\ config.auth
                       /\ path = "/api/v1"
                       /\ Identity(cred) = Nobody

-----------------------------------------------------------------------------
HasAccount(cred) == Identity(cred).account \notin {None, Nil}

readOwner(cred) == IF HasAccount(cred) THEN Identity(cred).account ELSE Legacy

\* Mutant of writeOwner: callers without an account write the legacy rows.
writeOwnerOrLegacy(cred) ==
  IF HasAccount(cred) THEN Identity(cred).account ELSE Legacy

\* None stands for ErrUnauthorized.
writeOwner(cred) == IF ~config.auth THEN Legacy
                    ELSE IF HasAccount(cred) THEN Identity(cred).account ELSE None

\* What each handler looks at before it calls the service, in this order.
Checks ==
  [create   |-> <<"account", "body">>,
   update   |-> <<"id", "account", "body">>,
   delete   |-> <<"id", "account">>,
   rollback |-> <<"id", "version", "account">>,
   import   |-> <<"account", "body">>,
   get      |-> <<"id">>,
   versions |-> <<"id">>,
   diff     |-> <<"id", "version">>,
   history  |-> <<"id">>,
   list     |-> <<>>,
   stats    |-> <<>>]

Reads == {"get", "versions", "diff", "history", "list", "stats"}
Creates == {"create", "import"}
Unscoped == {"list", "stats"}

Passes(check, cred, flaws) == IF check = "account" THEN writeOwner(cred) # None
                                                   ELSE check \notin flaws

\* The status of the first check that fails, or 0.
Refusal(op, path, cred, flaws) ==
  LET failed == {i \in DOMAIN Checks[op] : ~Passes(Checks[op][i], cred, flaws)}
      first == CHOOSE i \in failed : \A j \in failed : i <= j
  IN  IF Blocked(path, cred) THEN 401
      ELSE IF failed = {} THEN 0
      ELSE IF Checks[op][first] = "account" THEN 401 ELSE 400

\* Every statement on a row names its owner.
Has(owner, row) == rows[row] # None /\ rows[row].owner = owner

\* What a read is answered: for one owner, who sees what it owns.
ReadAnswer(op, path, cred, row, flaws) ==
  LET refusal == Refusal(op, path, cred, flaws)
      owner == readOwner(cred)
  IN  IF refusal # 0 THEN [status |-> refusal, owner |-> None]
      ELSE [status |-> IF op \in Unscoped \/ Has(owner, row) THEN 200 ELSE 404,
            owner |-> owner]

Wrote(cred) == writer' = cred /\ UNCHANGED <<startup, tokens, accounts, clock>>

Registered == {a.id : a \in accounts} \cup {Legacy}

\* Create makes a row public unless it is told otherwise; an import leaves the
\* flag at its zero value.  The owner of a row is a row of table accounts: for
\* an account that is not registered the insert fails.
AddRow(op, path, cred, row, public) ==
  /\ op \in Creates
  /\ op = "import" => ~public
  /\ Refusal(op, path, cred, {}) = 0
  /\ writeOwner(cred) \in Registered
  /\ rows[row] = None
  /\ rows' = [rows EXCEPT ![row] = [owner |-> writeOwner(cred), public |-> public]]
  /\ Wrote(cred)

ChangeRow(op, path, cred, row, public) ==
  /\ op \in {"update", "rollback", "delete"}
  /\ Refusal(op, path, cred, {}) = 0
  /\ Has(writeOwner(cred), row)
  /\ rows' = [rows EXCEPT ![row] = IF op = "delete" THEN None
                                   ELSE [@ EXCEPT !.public = public]]
  /\ Wrote(cred)

-----------------------------------------------------------------------------
\* Mutant of hasIdentity: anybody has one.
AnyIdentity(cred) == TRUE

\* A kind alone is not enough: the identity must have a name.
hasIdentity(cred) == Identity(cred).kind # None /\ Identity(cred).name # None

\* A mock request that matched a row.
MockStatus(cred, row) ==
  IF config.auth /\ ~rows[row].public /\ ~hasIdentity(cred) THEN 401 ELSE 200

\* Whoami needs an identity even where nothing else does.
WhoamiStatus(cred) == IF Identity(cred) = Nobody THEN 401 ELSE 200

\* POST /auth/token, also while auth is disabled.  Accounts are refused by
\* MintJWT, everybody while no secret is configured.
TokenStatus(cred) ==
  LET id == Authenticate(cred)
  IN  IF cred = None THEN 400
      ELSE IF id = Nobody THEN 401
      ELSE IF id.kind = "account" \/ config.secret = None THEN 500 ELSE 200

\* signJWT: a new token that expires after the TTL.
Sign(kind, sub) ==
  /\ config.secret # None
  /\ \E t \in TokenIds :
       /\ tokens[t] = None
       /\ tokens' = [tokens EXCEPT ![t] =
            [secret |-> config.secret, issuer |-> "mocksvr", kind |-> kind,
             sub |-> sub, exp |-> clock + TTL]]

MintJWT(cred) == /\ TokenStatus(cred) = 200
                 /\ Sign(Authenticate(cred).kind, Authenticate(cred).name)
                 /\ UNCHANGED <<startup, accounts, rows, clock, writer>>

normalizeEmail(raw) == Canonical[raw]

\* Mutant of validateCredentials: passwords of any length.
AnyPassword(raw, password) == raw \in Valid

validateCredentials(raw, password) == raw \in Valid /\ password \in 8..72

\* Mutant of FindByEmail: the address is compared as written.
FindAsWritten(raw) == {a \in accounts : a.email = raw}

FindByEmail(raw) == {a \in accounts : a.email = normalizeEmail(raw)}

\* Mutant of Register: the address column is not unique.
RegisterTwice(raw, password) ==
  /\ validateCredentials(raw, password)
  /\ \E id \in Accounts :
       /\ id \notin {a.id : a \in accounts}
       /\ accounts' = accounts \cup {[id |-> id, email |-> normalizeEmail(raw),
                                      password |-> password]}
       /\ Sign("account", id) \/ UNCHANGED tokens
  /\ UNCHANGED <<startup, rows, clock, writer>>

\* POST /auth/register.  Malformed input is refused with 400, a taken address
\* by the unique column with 409.  The row is inserted before the token is
\* minted: when minting fails, or the answer is lost, the account stays.
Register(raw, password) ==
  /\ validateCredentials(raw, password)
  /\ \A a \in accounts : a.email # normalizeEmail(raw)
  /\ \E id \in Accounts :
       /\ id \notin {a.id : a \in accounts}
       /\ accounts' = accounts \cup {[id |-> id, email |-> normalizeEmail(raw),
                                      password |-> password]}
       /\ Sign("account", id) \/ UNCHANGED tokens
  /\ UNCHANGED <<startup, rows, clock, writer>>

\* The account a login is for: the password must be that of the address.
Known(raw, password) == {a \in FindByEmail(raw) : a.password = password}

\* POST /auth/login: 401 for whoever is not known, 500 without a secret.
Login(raw, password) ==
  /\ \E a \in Known(raw, password) : Sign("account", a.id)
  /\ UNCHANGED <<startup, accounts, rows, clock, writer>>

Tick == /\ clock < MaxTime
        /\ clock' = clock + 1
        /\ UNCHANGED <<startup, tokens, accounts, rows, writer>>

\* The server stops and starts with another configuration.
Restart(cfg) == /\ cfg # config
                /\ config' = cfg
                /\ keyName' \in KeyNames(cfg)
                /\ UNCHANGED <<tokens, accounts, rows, clock, writer>>

Init == /\ config \in Configs
        /\ keyName \in KeyNames(config)
        /\ tokens = [t \in TokenIds |-> IF t \in DOMAIN Foreign THEN Foreign[t] ELSE None]
        /\ accounts = {}
        /\ rows = [r \in Rows |-> None]
        /\ clock = 1
        /\ writer = None

Next == \/ \E cred \in Credentials :
             \/ MintJWT(cred)
             \/ \E op \in DOMAIN Checks, path \in Prefixes, row \in Rows, public \in BOOLEAN :
                  \/ AddRow(op, path, cred, row, public)
                  \/ ChangeRow(op, path, cred, row, public)
        \/ \E raw \in RawEmails, password \in Passwords :
             Register(raw, password) \/ Login(raw, password)
        \/ Tick
        \/ \E cfg \in Configs : Restart(cfg)

Spec == Init /\ [][Next]_vars
-----------------------------------------------------------------------------
\* Type invariant of the module.
TypeOK ==
  /\ config \in Configs
  /\ keyName \in KeyNames(config)
  /\ DOMAIN tokens = TokenIds
  /\ \A t \in TokenIds : tokens[t] # None => tokens[t].exp \in Nat
  /\ accounts \subseteq [id : Accounts, email : STRING, password : 8..72]
  /\ rows \in [Rows -> [owner : Owners, public : BOOLEAN] \cup {None}]
  /\ clock \in 1..MaxTime

\* A token of an account that the server accepts at this moment.
SessionOf(t, account) == /\ t \in TokenIds
                         /\ tokens[t] # None
                         /\ tokens[t].secret = config.secret
                         /\ tokens[t].kind = "account"
                         /\ tokens[t].sub = account
                         /\ tokens[t].exp = 0 \/ clock < tokens[t].exp

\* With auth on, a row changes only by a request that carries an unexpired
\* token of the account that owns it; no token the server itself signed is one
\* of the legacy account, so legacy rows change only for a token that another
\* holder of the secret signed for it.  With auth off, only legacy rows change
\* (internal/endpoint/handler.go:224-227).  All this across registrations,
\* expiry, restarts under another configuration and every spelling of the path.
OnlyOwnersWrite ==
  [][\A r \in Rows : rows'[r] # rows[r] =>
       \A owner \in {x.owner : x \in {rows[r], rows'[r]} \ {None}} :
         IF config.auth
         THEN /\ SessionOf(writer', owner)
              /\ owner = Legacy => writer' \in DOMAIN Foreign
         ELSE owner = Legacy]_vars

TokenOfAccount(t) == t \in TokenIds /\ tokens[t] # None /\ tokens[t].kind = "account"

\* Rows of an account are read with a session of it only, whatever the request
\* looks like; and on the documented prefix, with auth on, a token of an
\* account reads as that account or not at all: once it expired, or the secret
\* changed, the request is refused and does not fall back to the legacy rows
\* (internal/endpoint/handler.go:213-216).  The nil UUID is no account: a token
\* with that subject reads the legacy rows.
ReadsStayWithOwner ==
  \A op \in Reads, path \in Prefixes, cred \in Credentials, row \in Rows :
    LET answer == ReadAnswer(op, path, cred, row, {})
    IN  answer.status # 401 =>
          /\ answer.owner # Legacy => SessionOf(cred, answer.owner)
          /\ (config.auth /\ path = "/api/v1" /\ TokenOfAccount(cred)) =>
               /\ SessionOf(cred, tokens[cred].sub)
               /\ answer.owner = IF tokens[cred].sub = Nil THEN Legacy ELSE tokens[cred].sub

\* From its expiry second on a token is no token: every route, under every
\* spelling of its path, answers what it answers a caller without any, which on
\* the documented prefix is 401, and the token is not renewed
\* (internal/auth/jwt.go:79).
ExpiredOpensNothing ==
  config.auth =>
    \A t \in {u \in TokenIds : tokens[u] # None} :
      (tokens[t].exp > 0 /\ clock >= tokens[t].exp) =>
        /\ \A op \in DOMAIN Checks, path \in Prefixes :
             /\ Refusal(op, path, t, {}) = Refusal(op, path, None, {})
             /\ path = "/api/v1" => Refusal(op, path, t, {}) = 401
             /\ \A row \in Rows :
                  ReadAnswer(op, path, t, row, {}) = ReadAnswer(op, path, None, row, {})
        /\ WhoamiStatus(t) = 401
        /\ TokenStatus(t) = 401
        /\ \A row \in Rows : rows[row] # None =>
             MockStatus(t, row) = MockStatus(None, row)

Spells(raw, a) == \E r \in RawEmails : /\ a.email \in {r, Canonical[r]}
                                       /\ Canonical[r] = Canonical[raw]

\* An address has one account, however it is written
\* (internal/account/repository.go:31-35, :57).
OneAccountPerAddress ==
  \A a, b \in accounts : \A raw \in RawEmails : Spells(raw, a) /\ Spells(raw, b) => a = b

\* Whoever registered is known under every spelling of the address, also after
\* a registration that failed to mint its token or lost its answer
\* (internal/account/service.go:52-61, :74-87).
RegisteredIsKnown ==
  \A a \in accounts : \A raw \in RawEmails :
    Spells(raw, a) => Known(raw, a.password) = {a}

\* While auth is on, a private endpoint answers nobody whose credential is
\* neither a configured secret nor a token of the current secret
\* (internal/router/dynamic.go:72-74).
PrivateNeedsCredential ==
  config.auth =>
    \A row \in Rows, cred \in Credentials :
      (rows[row] # None /\ ~rows[row].public /\ MockStatus(cred, row) = 200)
      => \/ cred \in {p[2] : p \in config.keys \cup config.workspaces}
         \/ /\ cred \in TokenIds
            /\ tokens[cred].secret = config.secret

\* "Non-public mock endpoints require a valid identity, which the auth
\* middleware stores on the context" (internal/router/dynamic.go:72-73;
\* "accepts every supported credential kind", auth_test.go:183-184): whoever
\* the middleware accepts is served.  The code asks for a name too, and the
\* identities of accounts have none.
ValidCredentialSuffices ==
  \A row \in Rows, cred \in Credentials :
    (rows[row] # None /\ Identity(cred) # Nobody) => MockStatus(cred, row) = 200
=============================================================================
