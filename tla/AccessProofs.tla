------------------------------ MODULE AccessProofs ------------------------------
(***************************************************************************)
(* Proofs about Access, for all configurations, credentials, addresses and *)
(* rows.                                                                   *)
(*                                                                         *)
(* Who may do what is decided from the credential alone, so the state has  *)
(* to contribute little: types, that every stored address is one that      *)
(* normalizeEmail made and that no other account has (AddressesInOrder),   *)
(* and that the server signs tokens of its own accounts only (TokensOwn).  *)
(***************************************************************************)
EXTENDS Access, TLAPS

AddressesInOrder ==
  /\ \A a \in accounts : \E raw \in RawEmails : a.email = Canonical[raw]
  /\ \A a, b \in accounts : a.email = b.email => a = b

TokensOwn == \A t \in TokenIds \ DOMAIN Foreign :
               TokenOfAccount(t) => tokens[t].sub \in Accounts

IInv == TypeOK /\ AddressesInOrder /\ TokensOwn

-----------------------------------------------------------------------------
(* Credentials.                                                            *)

\* Whatever identity a token has, it verified; one of an account has its
\* subject, a UUID.
LEMMA TokenIdentity ==
  ASSUME NEW t \in TokenIds, Authenticate(t) # Nobody
  PROVE  /\ config.secret # None
         /\ verifyJWT(t)
         /\ tokens[t].kind = "account" =>
              tokens[t].sub \in Uuids /\ Authenticate(t).account = tokens[t].sub
<1>1. t \notin Secrets
  BY SecretsAssumption
<1> QED
  BY <1>1 DEF Authenticate

\* Only a verified token of an account gives an identity an account.
LEMMA AccountIdentity ==
  ASSUME NEW cred, Authenticate(cred).account # None
  PROVE  /\ cred \in TokenIds
         /\ verifyJWT(cred)
         /\ tokens[cred].kind = "account"
         /\ tokens[cred].sub = Authenticate(cred).account
         /\ tokens[cred].sub \in Uuids
BY DEF Authenticate, Nobody

LEMMA NoCredential == Authenticate(None) = Nobody
BY AccessAssumption DEF Authenticate

\* A verified token of an account is a session of it.
LEMMA VerifiedSession ==
  ASSUME TypeOK, NEW t \in TokenIds, verifyJWT(t), tokens[t].kind = "account"
  PROVE  SessionOf(t, tokens[t].sub)
<1>1. tokens[t] # None /\ tokens[t].exp \in Nat
  BY DEF verifyJWT, TypeOK
<1>2. tokens[t].exp = 0 \/ clock < tokens[t].exp
  BY <1>1 DEF verifyJWT
<1> QED
  BY <1>1, <1>2 DEF verifyJWT, SessionOf

\* A request that passes every check is not blocked and, where the account
\* is checked, may write.
LEMMA NotRefused ==
  ASSUME NEW op \in DOMAIN Checks, NEW path, NEW cred, Refusal(op, path, cred, {}) = 0
  PROVE  /\ ~Blocked(path, cred)
         /\ \A i \in DOMAIN Checks[op] : Checks[op][i] = "account" => writeOwner(cred) # None
<1>1. ~Blocked(path, cred) /\ {i \in DOMAIN Checks[op] : ~Passes(Checks[op][i], cred, {})} = {}
  BY DEF Refusal
<1> QED
  BY <1>1 DEF Passes

LEMMA WriterOwns ==
  ASSUME NEW op \in {"create", "import", "update", "rollback", "delete"},
         NEW path, NEW cred, Refusal(op, path, cred, {}) = 0
  PROVE  writeOwner(cred) # None
<1>1. op \in DOMAIN Checks
  BY DEF Checks
<1>2. \E i \in DOMAIN Checks[op] : Checks[op][i] = "account"
  <2>1. CASE op \in {"create", "import"}
    <3>1. Checks[op] = <<"account", "body">>
      BY <2>1 DEF Checks
    <3> QED
      BY <3>1
  <2>2. CASE op = "update"
    <3>1. Checks[op] = <<"id", "account", "body">>
      BY <2>2 DEF Checks
    <3> QED
      BY <3>1
  <2>3. CASE op = "rollback"
    <3>1. Checks[op] = <<"id", "version", "account">>
      BY <2>3 DEF Checks
    <3> QED
      BY <3>1
  <2>4. CASE op = "delete"
    <3>1. Checks[op] = <<"id", "account">>
      BY <2>4 DEF Checks
    <3> QED
      BY <3>1
  <2> QED
    BY <2>1, <2>2, <2>3, <2>4
<1> QED
  BY <1>1, <1>2, NotRefused

\* Whom a write is for: the account of the session, or Legacy without auth.
LEMMA OwnerOfWrite ==
  ASSUME IInv, NEW cred, writeOwner(cred) # None
  PROVE  /\ writeOwner(cred) \in Owners
         /\ IF config.auth
            THEN /\ SessionOf(cred, writeOwner(cred))
                 /\ writeOwner(cred) = Legacy => cred \in DOMAIN Foreign
            ELSE writeOwner(cred) = Legacy
<1>1. CASE config.auth
  <2>1. writeOwner(cred) = Authenticate(cred).account /\ writeOwner(cred) # Nil
    BY <1>1 DEF writeOwner, HasAccount, Identity
  <2>2. /\ cred \in TokenIds /\ verifyJWT(cred) /\ tokens[cred].kind = "account"
        /\ tokens[cred].sub = writeOwner(cred) /\ writeOwner(cred) \in Uuids
    BY <2>1, AccountIdentity
  <2>3. SessionOf(cred, writeOwner(cred))
    BY <2>2, VerifiedSession DEF IInv
  <2>4. cred \notin DOMAIN Foreign => writeOwner(cred) \in Accounts
    BY <2>2, <2>3 DEF IInv, TokensOwn, TokenOfAccount, SessionOf
  <2> QED
    BY <1>1, <2>1, <2>2, <2>3, <2>4, AccessAssumption DEF Uuids
<1>2. CASE ~config.auth
  BY <1>2 DEF writeOwner, Owners
<1> QED
  BY <1>1, <1>2

-----------------------------------------------------------------------------
(* The invariant.                                                          *)

LEMMA InitIInv == Init => IInv
<1> SUFFICES ASSUME Init PROVE IInv
  OBVIOUS
<1>1. DOMAIN tokens = TokenIds /\ \A t \in TokenIds : tokens[t] # None => tokens[t].exp \in Nat
  BY AccessAssumption DEF Init
<1>2. clock \in 1..MaxTime
  BY AccessAssumption DEF Init
<1>3. TypeOK
  BY <1>1, <1>2 DEF Init, TypeOK
<1> QED
  BY <1>3 DEF Init, IInv, AddressesInOrder, TokensOwn, TokenOfAccount

\* A token that is signed has a time to expire at and, if it is one of an
\* account, the account's uuid.
LEMMA SignKeeps ==
  ASSUME TypeOK, TokensOwn, NEW kind, NEW sub, Sign(kind, sub),
         kind = "account" => sub \in Accounts
  PROVE  /\ DOMAIN tokens' = TokenIds
         /\ \A t \in TokenIds : tokens'[t] # None => tokens'[t].exp \in Nat
         /\ TokensOwn'
<1>1. clock + TTL \in Nat
  BY AccessAssumption DEF TypeOK
<1>2. PICK t \in TokenIds :
        tokens' = [tokens EXCEPT ![t] =
          [secret |-> config.secret, issuer |-> "mocksvr", kind |-> kind,
           sub |-> sub, exp |-> clock + TTL]]
  BY DEF Sign
<1> DEFINE new == [secret |-> config.secret, issuer |-> "mocksvr", kind |-> kind,
                   sub |-> sub, exp |-> clock + TTL]
<1>3. new.exp \in Nat /\ (new.kind = "account" => new.sub \in Accounts)
  BY <1>1
<1>4. tokens' = [tokens EXCEPT ![t] = new]
  BY <1>2
<1> HIDE DEF new
<1> QED
  BY <1>3, <1>4 DEF TypeOK, TokensOwn, TokenOfAccount

LEMMA RegisterKeeps ==
  ASSUME IInv, NEW raw \in RawEmails, NEW password \in Passwords, Register(raw, password)
  PROVE  IInv'
<1>1. PICK id \in Accounts :
        /\ accounts' = accounts \cup {[id |-> id, email |-> normalizeEmail(raw),
                                       password |-> password]}
        /\ Sign("account", id) \/ UNCHANGED tokens
  BY DEF Register
<1>2. /\ password \in 8..72
      /\ \A a \in accounts : a.email # Canonical[raw]
      /\ UNCHANGED <<config, keyName, rows, clock>>
  BY DEF Register, validateCredentials, normalizeEmail, startup
<1> DEFINE new == [id |-> id, email |-> Canonical[raw], password |-> password]
<1>3. accounts' = accounts \cup {new}
  BY <1>1 DEF normalizeEmail
<1>4. new \in [id : Accounts, email : STRING, password : 8..72] /\ new.email = Canonical[raw]
  BY <1>2, EmailAssumption
<1> HIDE DEF new
<1>5. /\ DOMAIN tokens' = TokenIds
      /\ \A t \in TokenIds : tokens'[t] # None => tokens'[t].exp \in Nat
      /\ TokensOwn'
  BY <1>1, SignKeeps DEF IInv, TypeOK, TokensOwn, TokenOfAccount
<1>6. TypeOK'
  BY <1>2, <1>3, <1>4, <1>5 DEF IInv, TypeOK, KeyNames
<1>7. AddressesInOrder'
  BY <1>2, <1>3, <1>4 DEF IInv, AddressesInOrder
<1> QED
  BY <1>5, <1>6, <1>7 DEF IInv

\* A step that leaves the accounts alone keeps their addresses in order.
LEMMA RowsKeep ==
  ASSUME IInv, UNCHANGED <<config, keyName, tokens, accounts, clock>>,
         rows' \in [Rows -> [owner : Owners, public : BOOLEAN] \cup {None}]
  PROVE  IInv'
BY DEF IInv, TypeOK, AddressesInOrder, TokensOwn, TokenOfAccount, KeyNames

\* What an owner's write does to the rows.
LEMMA AddRowChanges ==
  ASSUME IInv, NEW op \in DOMAIN Checks, NEW path, NEW cred \in Credentials,
         NEW row \in Rows, NEW public \in BOOLEAN, AddRow(op, path, cred, row, public)
  PROVE  /\ rows' \in [Rows -> [owner : Owners, public : BOOLEAN] \cup {None}]
         /\ writeOwner(cred) # None
         /\ \A r \in Rows \ {row} : rows'[r] = rows[r]
         /\ rows[row] = None
         /\ rows'[row].owner = writeOwner(cred)
<1>1. op \in {"create", "import"} /\ Refusal(op, path, cred, {}) = 0
  BY DEF AddRow, Creates
<1>2. writeOwner(cred) # None
  BY <1>1, WriterOwns
<1>3. writeOwner(cred) \in Owners
  BY <1>2, OwnerOfWrite
<1>4. rows[row] = None
      /\ rows' = [rows EXCEPT ![row] = [owner |-> writeOwner(cred), public |-> public]]
  BY DEF AddRow
<1> QED
  BY <1>2, <1>3, <1>4 DEF IInv, TypeOK

LEMMA ChangeRowChanges ==
  ASSUME IInv, NEW op \in DOMAIN Checks, NEW path, NEW cred \in Credentials,
         NEW row \in Rows, NEW public \in BOOLEAN, ChangeRow(op, path, cred, row, public)
  PROVE  /\ rows' \in [Rows -> [owner : Owners, public : BOOLEAN] \cup {None}]
         /\ writeOwner(cred) # None
         /\ \A r \in Rows \ {row} : rows'[r] = rows[r]
         /\ rows[row].owner = writeOwner(cred)
         /\ rows'[row] = None \/ rows'[row].owner = writeOwner(cred)
<1>1. op \in {"update", "rollback", "delete"} /\ Refusal(op, path, cred, {}) = 0
  BY DEF ChangeRow
<1>2. writeOwner(cred) # None
  BY <1>1, WriterOwns
<1>3. rows[row] # None /\ rows[row].owner = writeOwner(cred)
  BY DEF ChangeRow, Has
<1>4. rows[row] \in [owner : Owners, public : BOOLEAN]
  BY <1>3 DEF IInv, TypeOK
<1> DEFINE new == IF op = "delete" THEN None ELSE [rows[row] EXCEPT !.public = public]
<1>5. rows' = [rows EXCEPT ![row] = new]
  BY DEF ChangeRow
<1>6. /\ new \in [owner : Owners, public : BOOLEAN] \cup {None}
      /\ new = None \/ new.owner = writeOwner(cred)
  BY <1>3, <1>4
<1> HIDE DEF new
<1> QED
  BY <1>2, <1>3, <1>5, <1>6 DEF IInv, TypeOK

LEMMA NextKeeps ==
  ASSUME IInv, [Next]_vars
  PROVE  IInv'
<1>1. ASSUME NEW cred \in Credentials, MintJWT(cred)
      PROVE  IInv'
  <2>1. /\ Sign(Authenticate(cred).kind, Authenticate(cred).name)
        /\ Authenticate(cred).kind # "account"
        /\ UNCHANGED <<config, keyName, accounts, rows, clock>>
    BY <1>1 DEF MintJWT, TokenStatus, startup
  <2> QED
    BY <2>1, SignKeeps DEF IInv, TypeOK, AddressesInOrder, KeyNames
<1>2. ASSUME NEW cred \in Credentials, NEW op \in DOMAIN Checks, NEW path \in Prefixes,
             NEW row \in Rows, NEW public \in BOOLEAN,
             AddRow(op, path, cred, row, public) \/ ChangeRow(op, path, cred, row, public)
      PROVE  IInv'
  <2>1. UNCHANGED <<config, keyName, tokens, accounts, clock>>
    BY <1>2 DEF AddRow, ChangeRow, Wrote, startup
  <2>2. rows' \in [Rows -> [owner : Owners, public : BOOLEAN] \cup {None}]
    BY <1>2, AddRowChanges, ChangeRowChanges
  <2> QED
    BY <2>1, <2>2, RowsKeep
<1>3. ASSUME NEW raw \in RawEmails, NEW password \in Passwords, Register(raw, password)
      PROVE  IInv'
  BY <1>3, RegisterKeeps
<1>4. ASSUME NEW raw \in RawEmails, NEW password \in Passwords, Login(raw, password)
      PROVE  IInv'
  <2>1. PICK a \in Known(raw, password) : Sign("account", a.id)
    BY <1>4 DEF Login
  <2>2. UNCHANGED <<config, keyName, accounts, rows, clock>>
    BY <1>4 DEF Login, startup
  <2>3. a.id \in Accounts
    BY DEF Known, FindByEmail, IInv, TypeOK
  <2> QED
    BY <2>1, <2>2, <2>3, SignKeeps DEF IInv, TypeOK, AddressesInOrder, KeyNames
<1>5. CASE Tick
  <2>1. clock' \in 1..MaxTime
    BY <1>5, AccessAssumption DEF Tick, IInv, TypeOK
  <2> QED
    BY <1>5, <2>1
       DEF Tick, startup, IInv, TypeOK, AddressesInOrder, TokensOwn, TokenOfAccount, KeyNames
<1>6. ASSUME NEW cfg \in Configs, Restart(cfg)
      PROVE  IInv'
  BY <1>6 DEF Restart, IInv, TypeOK, AddressesInOrder, TokensOwn, TokenOfAccount, KeyNames
<1>7. CASE UNCHANGED vars
  BY <1>7, RowsKeep DEF vars, IInv, TypeOK
<1> QED
  BY <1>1, <1>2, <1>3, <1>4, <1>5, <1>6, <1>7 DEF Next

LEMMA Invariance == Spec => []IInv
<1>1. Init => IInv
  BY InitIInv
<1>2. IInv /\ [Next]_vars => IInv'
  BY NextKeeps
<1> QED
  BY <1>1, <1>2, PTL DEF Spec
-----------------------------------------------------------------------------
(* The addresses of accounts.                                              *)

\* However it is spelled, an address is stored in its canonical form.
LEMMA SpelledIsCanonical ==
  ASSUME IInv, NEW a \in accounts, NEW raw \in RawEmails, Spells(raw, a)
  PROVE  a.email = Canonical[raw]
<1>1. PICK r \in RawEmails : a.email \in {r, Canonical[r]} /\ Canonical[r] = Canonical[raw]
  BY DEF Spells
<1>2. PICK r0 \in RawEmails : a.email = Canonical[r0]
  BY DEF IInv, AddressesInOrder
<1>3. CASE a.email = r
  <2>1. Canonical[r0] \in RawEmails /\ Canonical[Canonical[r0]] = Canonical[raw]
    BY <1>1, <1>2, <1>3
  <2> QED
    BY <1>2, <2>1, EmailAssumption
<1> QED
  BY <1>1, <1>3

-----------------------------------------------------------------------------
\* Configuration, tokens, accounts and rows keep their types: rows belong to
\* accounts or to Legacy, passwords have the bytes bcrypt
\* takes.
THEOREM TypeCorrect == Spec => []TypeOK
<1>1. IInv => TypeOK
  BY DEF IInv
<1> QED
  BY <1>1, Invariance, PTL

\* With auth on only the owner's unexpired session changes a row, and the
\* legacy rows only a token another holder of the secret signed for them; with
\* auth off only legacy rows change: for every configuration restarted into,
\* every spelling of the path and every foreign token
\* (internal/endpoint/handler.go:224-227).
THEOREM WritesAreOwners == Spec => OnlyOwnersWrite
<1> DEFINE Allowed(cred, r) ==
      \A owner \in {x.owner : x \in {rows[r], rows'[r]} \ {None}} :
        IF config.auth
        THEN /\ SessionOf(cred, owner)
             /\ owner = Legacy => cred \in DOMAIN Foreign
        ELSE owner = Legacy
<1>1. ASSUME IInv, [Next]_vars, NEW r \in Rows, rows'[r] # rows[r]
      PROVE  Allowed(writer', r)
  <2>1. PICK cred \in Credentials, op \in DOMAIN Checks, path \in Prefixes, row \in Rows,
             public \in BOOLEAN :
          AddRow(op, path, cred, row, public) \/ ChangeRow(op, path, cred, row, public)
    BY <1>1 DEF Next, vars, MintJWT, Register, Login, Tick, Restart
  <2>2. writer' = cred
    BY <2>1 DEF AddRow, ChangeRow, Wrote
  <2>3. /\ writeOwner(cred) # None
        /\ \A o \in Rows \ {row} : rows'[o] = rows[o]
        /\ rows[row] = None \/ rows[row].owner = writeOwner(cred)
        /\ rows'[row] = None \/ rows'[row].owner = writeOwner(cred)
    BY <1>1, <2>1, AddRowChanges, ChangeRowChanges
  <2>4. r = row
    BY <1>1, <2>3
  <2>5. \A owner \in {x.owner : x \in {rows[r], rows'[r]} \ {None}} : owner = writeOwner(cred)
    BY <2>3, <2>4
  <2>6. IF config.auth
        THEN /\ SessionOf(cred, writeOwner(cred))
             /\ writeOwner(cred) = Legacy => cred \in DOMAIN Foreign
        ELSE writeOwner(cred) = Legacy
    BY <1>1, <2>3, OwnerOfWrite
  <2> QED
    BY <2>2, <2>5, <2>6
<1>2. IInv /\ [Next]_vars =>
        [\A r \in Rows : rows'[r] # rows[r] => Allowed(writer', r)]_vars
  BY <1>1
<1> QED
  BY <1>2, Invariance, PTL DEF Spec, OnlyOwnersWrite

\* A read is answered for an account to a session of it only, and on the
\* documented prefix a token of an account reads as that account or not at all;
\* an expired one is refused there and shows no legacy rows
\* (internal/endpoint/handler.go:213-216).
THEOREM ReadsAreScoped == Spec => []ReadsStayWithOwner
<1>1. TypeOK => ReadsStayWithOwner
  <2> SUFFICES ASSUME TypeOK,
                      NEW op \in Reads, NEW path \in Prefixes, NEW cred \in Credentials,
                      NEW row \in Rows, ReadAnswer(op, path, cred, row, {}).status # 401
               PROVE  LET answer == ReadAnswer(op, path, cred, row, {}) IN
                      /\ answer.owner # Legacy => SessionOf(cred, answer.owner)
                      /\ (config.auth /\ path = "/api/v1" /\ TokenOfAccount(cred)) =>
                           /\ SessionOf(cred, tokens[cred].sub)
                           /\ answer.owner = IF tokens[cred].sub = Nil
                                             THEN Legacy ELSE tokens[cred].sub
    BY DEF ReadsStayWithOwner
  <2> DEFINE owner == ReadAnswer(op, path, cred, row, {}).owner
  <2>1. ~Blocked(path, cred)
    BY DEF ReadAnswer, Refusal
  <2>2. \A i \in DOMAIN Checks[op] : Passes(Checks[op][i], cred, {})
    <3>1. \A i \in DOMAIN Checks[op] : Checks[op][i] # "account"
      <4>1. CASE op \in {"get", "versions", "history"}
        <5>1. Checks[op] = <<"id">>
          BY <4>1 DEF Checks
        <5> QED
          BY <5>1
      <4>2. CASE op = "diff"
        <5>1. Checks[op] = <<"id", "version">>
          BY <4>2 DEF Checks
        <5> QED
          BY <5>1
      <4>3. CASE op \in {"list", "stats"}
        <5>1. Checks[op] = <<>>
          BY <4>3 DEF Checks
        <5> QED
          BY <5>1
      <4> QED
        BY <4>1, <4>2, <4>3 DEF Reads
    <3> QED
      BY <3>1 DEF Passes
  <2>3. owner = readOwner(cred)
    BY <2>1, <2>2 DEF ReadAnswer, Refusal
  <2> HIDE DEF owner
  <2>4. owner # Legacy => SessionOf(cred, owner)
    <3> SUFFICES ASSUME owner # Legacy PROVE SessionOf(cred, owner)
      OBVIOUS
    <3>1. owner = Authenticate(cred).account /\ Authenticate(cred).account # None
      BY <2>3 DEF readOwner, HasAccount, Identity, Nobody
    <3> QED
      BY <3>1, AccountIdentity, VerifiedSession
  <2>5. ASSUME config.auth, path = "/api/v1", TokenOfAccount(cred)
        PROVE  /\ SessionOf(cred, tokens[cred].sub)
               /\ owner = IF tokens[cred].sub = Nil THEN Legacy ELSE tokens[cred].sub
    <3>1. Authenticate(cred) # Nobody /\ Identity(cred) = Authenticate(cred)
      BY <2>1, <2>5 DEF Blocked, Identity
    <3>2. /\ cred \in TokenIds /\ verifyJWT(cred) /\ tokens[cred].sub \in Uuids
          /\ Identity(cred).account = tokens[cred].sub
      BY <2>5, <3>1, TokenIdentity DEF TokenOfAccount
    <3>3. None \notin Uuids
      BY AccessAssumption DEF Uuids, Owners
    <3> QED
      BY <2>3, <2>5, <3>2, <3>3, VerifiedSession DEF readOwner, HasAccount, TokenOfAccount
  <2> QED
    BY <2>4, <2>5 DEF owner
<1> QED
  BY <1>1, TypeCorrect, PTL

\* From its expiry second on, whatever the clock and the routes do, every
\* route answers a token what it answers no token, and does not renew it
\* (internal/auth/jwt.go:79).
THEOREM ExpiryIsFinal == Spec => []ExpiredOpensNothing
<1>1. TypeOK => ExpiredOpensNothing
  <2> SUFFICES ASSUME TypeOK, config.auth,
                      NEW t \in TokenIds, tokens[t] # None,
                      tokens[t].exp > 0, clock >= tokens[t].exp
               PROVE  /\ \A op \in DOMAIN Checks, path \in Prefixes :
                           /\ Refusal(op, path, t, {}) = Refusal(op, path, None, {})
                           /\ path = "/api/v1" => Refusal(op, path, t, {}) = 401
                           /\ \A row \in Rows : ReadAnswer(op, path, t, row, {})
                                              = ReadAnswer(op, path, None, row, {})
                      /\ WhoamiStatus(t) = 401
                      /\ TokenStatus(t) = 401
                      /\ \A row \in Rows : rows[row] # None =>
                           MockStatus(t, row) = MockStatus(None, row)
    BY DEF ExpiredOpensNothing
  <2>1. ~verifyJWT(t)
    BY DEF verifyJWT, TypeOK
  <2>2. Authenticate(t) = Nobody /\ t # None
    BY <2>1, TokenIdentity, AccessAssumption
  <2>3. Identity(t) = Nobody /\ Identity(None) = Nobody
    BY <2>2, NoCredential DEF Identity
  <2>4. /\ HasAccount(t) = HasAccount(None)
        /\ readOwner(t) = readOwner(None) /\ writeOwner(t) = writeOwner(None)
    BY <2>3 DEF HasAccount, readOwner, writeOwner
  <2>5. \A path \in Prefixes : /\ Blocked(path, t) = Blocked(path, None)
                               /\ Blocked("/api/v1", t)
    BY <2>3 DEF Blocked
  <2>6. \A check : Passes(check, t, {}) = Passes(check, None, {})
    BY <2>4 DEF Passes
  <2>7. \A op \in DOMAIN Checks, path \in Prefixes :
          /\ Refusal(op, path, t, {}) = Refusal(op, path, None, {})
          /\ path = "/api/v1" => Refusal(op, path, t, {}) = 401
    <3> SUFFICES ASSUME NEW op \in DOMAIN Checks, NEW path \in Prefixes
                 PROVE  /\ Refusal(op, path, t, {}) = Refusal(op, path, None, {})
                        /\ path = "/api/v1" => Refusal(op, path, t, {}) = 401
      OBVIOUS
    <3> DEFINE Failed(cred) == {i \in DOMAIN Checks[op] : ~Passes(Checks[op][i], cred, {})}
               Status(failed) ==
                 IF failed = {} THEN 0
                 ELSE IF Checks[op][CHOOSE i \in failed : \A j \in failed : i <= j] = "account"
                      THEN 401 ELSE 400
    <3>1. \A cred : Refusal(op, path, cred, {})
                      = IF Blocked(path, cred) THEN 401 ELSE Status(Failed(cred))
      BY DEF Refusal
    <3>2. Failed(t) = Failed(None)
      BY <2>6
    <3> HIDE DEF Failed, Status
    <3> QED
      BY <2>5, <3>1, <3>2
  <2>8. \A op \in DOMAIN Checks, path \in Prefixes, row \in Rows :
          ReadAnswer(op, path, t, row, {}) = ReadAnswer(op, path, None, row, {})
    BY <2>4, <2>7 DEF ReadAnswer
  <2>9. /\ WhoamiStatus(t) = 401 /\ TokenStatus(t) = 401
        /\ \A row \in Rows : MockStatus(t, row) = MockStatus(None, row)
    BY <2>2, <2>3 DEF WhoamiStatus, TokenStatus, MockStatus, hasIdentity
  <2> QED
    BY <2>7, <2>8, <2>9
<1> QED
  BY <1>1, TypeCorrect, PTL

\* While auth is on, a private mock endpoint answers only holders of a
\* configured secret or of a token of the current secret
\* (internal/router/dynamic.go:72-74).
THEOREM PrivateIsPrivate == Spec => []PrivateNeedsCredential
<1>1. TypeOK => PrivateNeedsCredential
  <2> SUFFICES ASSUME TypeOK, config.auth,
                      NEW row \in Rows, NEW cred \in Credentials,
                      rows[row] # None, ~rows[row].public, MockStatus(cred, row) = 200
               PROVE  \/ cred \in {p[2] : p \in config.keys \cup config.workspaces}
                      \/ /\ cred \in TokenIds
                         /\ tokens[cred].secret = config.secret
    BY DEF PrivateNeedsCredential
  <2>1. Authenticate(cred) # Nobody
    BY DEF MockStatus, hasIdentity, Identity, Nobody
  <2>2. CASE cred \in TokenIds
    BY <2>1, <2>2, TokenIdentity DEF verifyJWT
  <2>3. CASE cred \in Secrets /\ keyName[cred] # None
    <3>1. {p[1] : p \in {q \in config.keys : q[2] = cred}} # {}
      BY <2>3 DEF TypeOK, KeyNames
    <3> QED
      BY <3>1
  <2>4. CASE cred \in Secrets /\ \E w \in config.workspaces : w[2] = cred
    BY <2>4
  <2> QED
    BY <2>1, <2>2, <2>3, <2>4 DEF Authenticate
<1> QED
  BY <1>1, TypeCorrect, PTL

\* An address has one account under all its spellings, with any number of
\* racing or repeated registrations (internal/account/repository.go:31-35, :57).
THEOREM AddressesAreUnique == Spec => []OneAccountPerAddress
<1>1. IInv => OneAccountPerAddress
  <2> SUFFICES ASSUME IInv, NEW a \in accounts, NEW b \in accounts, NEW raw \in RawEmails,
                      Spells(raw, a), Spells(raw, b)
               PROVE  a = b
    BY DEF OneAccountPerAddress
  <2>1. a.email = b.email
    BY SpelledIsCanonical
  <2> QED
    BY <2>1 DEF IInv, AddressesInOrder
<1> QED
  BY <1>1, Invariance, PTL

\* Whoever registered can log in under every spelling of the address, also
\* when the registration itself was answered with an error
\* (internal/account/service.go:52-61, :74-87).
THEOREM RegistrationLasts == Spec => []RegisteredIsKnown
<1>1. IInv => RegisteredIsKnown
  <2> SUFFICES ASSUME IInv, NEW a \in accounts, NEW raw \in RawEmails, Spells(raw, a)
               PROVE  Known(raw, a.password) = {a}
    BY DEF RegisteredIsKnown
  <2>1. a.email = Canonical[raw]
    BY SpelledIsCanonical
  <2>2. \A b \in accounts : b.email = Canonical[raw] => b = a
    BY <2>1 DEF IInv, AddressesInOrder
  <2> QED
    BY <2>1, <2>2 DEF Known, FindByEmail, normalizeEmail
<1> QED
  BY <1>1, Invariance, PTL

=============================================================================
