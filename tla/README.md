# Verification of MockSvr

MockSvr is a mock API server. A control plane (`/api/v1`) keeps a registry of
mock endpoints with a full version history; a data plane answers any other
request by looking it up in that registry and generating a response from the
endpoint's prompt and schema. State is in PostgreSQL, the data plane reads it
through Redis, responses come from a language model or, without one, from a
faker. This directory holds TLA+ models of that program, the TLC runs that check
them and TLAPS proofs about them. Paths below are relative to the repository.

## Inventory

| Component | State it keeps | Operations | Talks to |
|---|---|---|---|
| Endpoint registry (`internal/endpoint`, `internal/models`) | tables `endpoints`, `endpoint_versions`, `request_history` | create, update, rollback, delete, import, diff, list, statistics | PostgreSQL, AI provider (schema inference), validator, cache (invalidation) |
| Endpoint list cache (`internal/router/cache.go`, `internal/cache`) | one Redis entry per HTTP method, with a TTL (60 s by default) | get, set, delete | PostgreSQL on a miss |
| Dynamic handler (`internal/router/dynamic.go`, `path.go`) | none | match path, check privacy, validate body, simulate errors, generate, record history | cache, generator, validator |
| Connection pool (`internal/database`) | ten connections | begin, execute, commit | PostgreSQL |
| Stateful resources (`internal/generator/stateful.go`, `internal/state`) | table `mock_resources` | create, get, put, patch, delete | PostgreSQL, generator |
| Response generation (`internal/generator`, `internal/prompts`) | none | AI with one retry, faker, static | registry (latest schema), AI provider, validator |
| AI provider (`internal/ai`) | none | infer schema, generate response | remote model |
| Schema validator (`internal/validator`) | map of compiled schemas under a mutex | compile, validate | - |
| Authentication (`internal/auth`) | configured credentials | authenticate, mint and verify JWTs, middleware | accounts |
| Accounts (`internal/account`) | table `accounts` | register, login | PostgreSQL, authentication |
| Import (`internal/importer`) | none | parse OpenAPI and Postman documents | registry |
| HTTP plumbing (`internal/router/router.go`, `internal/api`, `internal/middleware`, `internal/web`) | none | routes, envelopes, static files | all handlers |
| Startup (`cmd`, `internal/config`, `migrations`) | none | migrate, listen, shut down | all |
| Dashboard (`web`) | browser state | control plane client | HTTP API |

Fiber runs every request in a goroutine of its own and the server keeps no lock
over the registry. Hence the hard behaviours:

* **Racing control-plane requests.** An update reads the row, reads the version
  list, waits for a model, writes the row, inserts a version and invalidates up
  to two cache entries. Other requests run between any two of these. A
  transaction would join the two writes, but `repository.WithTx` discards the
  `bun.Tx` it gets, so they commit one by one.
* **Partial failure and crashes** between these steps.
* **Read-through caching** with invalidation by the writers: a reader can store
  what it read before a write.
* **Two connections per transaction**, a consequence of the discarded `bun.Tx`.
* **Read-modify-write of mock resources** without locks.
* **Fallbacks** of the generation pipeline.

What makes each component correct:

* registry: version numbers 1..n per endpoint; recorded snapshots never change;
  ownership; a rollback restores exactly what it names; between requests the
  live row is the latest version; schemas belong to their prompts;
* cache: who can leave a stale entry, and that staleness ends;
* pool: whoever holds a connection can go on; every request ends;
* stateful resources: every answer fits one instant of a store, nothing comes
  back after its DELETE, a resource carries the id it is found under, and a PUT
  or PATCH nobody overlaps loses nothing. The code does not prevent lost updates
  among overlapping PATCHes (see findings);
* generation: a served body satisfies a schema in force whenever the AI path
  produced it, and is made from one when the faker did; at most two calls of the
  model; an answer in any case;
* routing: the most specific match, unique up to equal specificity;
* authentication: rows change for their owner's session only; an account's rows
  are read by that account only; a token that is not accepted any more opens
  nothing that no token does not; a private mock endpoint is served exactly to
  callers with an identity.

`PROJECT.json` lists each hazard at its line with the properties that cover it.

## Modules

| Module | Models |
|---|---|
| `Registry` | the registry's service and repository, statement by statement |
| `VersionLog` | what the version history promises: an append-only log per endpoint, of one owner, gone with the endpoint |
| `RegistryLog` | the refinement mapping from `Registry` to `VersionLog`, and what a rollback records |
| `Serving` | mock requests reading through the cache, composed with `Registry` |
| `ConnPool` | who holds and who waits for database connections |
| `Resources` | stateful mock endpoints: requests of several clients on the resources of one collection |
| `ResourceStore` | what a stateful collection promises: a store whose every answer is right at one instant |
| `MockRequest` | one mock request from its endpoint to its answer: checks, error simulation, AI attempts, faker, echo, history, while the endpoint changes |
| `Access` | credentials, JWTs, accounts, owners, the routes' checks, privacy of mock endpoints, restarts |
| `RoutePaths` | route templates: rewriting, matching, specificity |
| `JsonSchemas` | JSON Schema as the validator reads it, inference from samples, and what the faker makes of a schema |
| `Imports` | OpenAPI and Postman documents, the endpoints they become and what those answer; composes `RoutePaths` and `JsonSchemas` |
| `RegistryProofs`, `ServingProofs`, `ResourcesProofs`, `MockRequestProofs`, `AccessProofs`, `ConnPoolProofs`, `RoutePathsProofs` | the proofs about the module each is named for |
| `RegistryHistoryProofs` | more about `Registry`: what requests leave in the history, and that it implements `VersionLog` |
| `MCRegistry`, `MCServing`, `MCConnPool`, `MCResources`, `MCMockRequest`, `MCAccess`, `MCImports` | small instances for TLC |

The registry is composed with the cache in `Serving`, where the endpoints a
mock request is resolved in go stale. `MockRequest` starts where `Serving` ends:
its cached list is some earlier write of the row (`entry`), which a refresh
brings up to date, as `SelfHeals` of `Serving` justifies. `Imports` follows the
same request with data in place of steps: which route it takes, which schema its
endpoint has, which body the faker makes.

### Registry

`endpoints`, `versions` and `cache` are the two tables and the Redis entries.
`pc[w]` and `job[w]` are the place and the local variables of the request that
goroutine `w` serves: `before` is the row `FindByID` returned, `cfg` the record
it is going to write, `next` the version number computed from the list it read.
`issued` remembers which uuids were used (`uuid.New` never repeats one).

| Step | Code |
|---|---|
| `BeginCreate`, `BeginUpdate`, `BeginRollback`, `BeginDelete`, `BeginImport` | a request that passed validation, with its `FindByID` |
| `ListForUpdate`, `ListForRollback` | `ListVersions`, then the schema or the target version |
| `GenerateSchema` | the model's answer: a schema of this prompt, or none |
| `InsertRow`, `InsertItem`, `WriteRow`, `InsertVersion`, `EraseRow` | one SQL statement each, with its not-found and conflict outcomes |
| `Commit` | the end of `RunInTx`, in whose transaction nothing ran |
| `DropOld`, `DropNew`, `Sweep` | one Redis `DEL` each, which may fail and is then only logged |
| `FailStatement`, `Crash` | a failed database call ends the request; a crash ends all of them |

The versioned fields are represented by five: method, path, prompt, status and
public. Method and path decide uniqueness and routing, the prompt decides the
schema, status is replaced with a default, and public is kept when omitted, as
`stateful`, `request_schema` and `error_sim` are (description and
`response_type` behave like path and status). A schema is represented by the
prompt it was inferred from. The constraints of the migrations are the guards
`Taken` (one route per account) and `VersionAccepted` (foreign key and
`UNIQUE (endpoint_id, version)`).

Requests that end before they write anything (validation, not found, a PUT that
changes nothing) leave no trace and are no steps. Reads of the control plane
(get, list, diff, statistics) change nothing and are left out, and so is the
history of served requests.

### Serving

A reader is a mock request: `Lookup` (a cache miss, or an error treated as one),
`Load` (the query) and `Fill` (the store of what was read) are separate steps;
a hit changes nothing. `Expire` is the TTL. Every registry step runs in between.
`outdated[m]` is a history variable: the entry of `m` was filled with rows that
were no longer current.

### ConnPool

A goroutine in `WithTx` holds one connection (`InTx`) and takes another for each
statement of its callback (`Running`), because `repository.Create` and the others
use `r.db`. `Others` are all remaining requests, which need one connection at a
time.

### Resources

`resources` is the data column of `mock_resources` for one account and
collection; every statement of `internal/state/state.go` names both, so
collections cannot meet. An object is the function from the key paths of its
leaves to the leaves, which makes `mergeObjects` a restriction and a union and
lets a merge through nested keys go wrong in the model where it could in the
code. A client's `job` is the document its UPDATE is about to write.

| Step | Code |
|---|---|
| `Create` | POST: the wrapped generator answers, `Created` finds the id (path, body, fresh uuid), one INSERT decides between 201 and 409 |
| `Get`, `Delete` | one statement each |
| `ReadForPut`, `ReadForPatch` | the SELECT, then 404, 400, or the computed document: `Replacement` keeps the id and its JSON type, `Patched` merges and restores the id |
| `Write` | the UPDATE: 200, or, when the row is gone, 404 for PUT and 500 for PATCH |
| `FailStatement`, `Crash` | an internal error; a stop of the process, which a null body of PUT and POST also causes (assignment to a nil map, `stateful.go:233-240`; no route recovers) |

### MockRequest

`Versions[i]` is what the i-th write of one endpoint stores; `row`, `latest` and
`entry` say which write the row, the latest recorded version and the cached list
show. They differ while an update is between its two statements, when recording
failed, and while the list is stale. A document is known by the schemas that
accept it.

| Step | Code |
|---|---|
| `Resolve` | `DynamicHandler.Serve` up to the generator: 404, 401, 400, then the simulated failure (`ShouldFail` over the hundred rolls) |
| `Load`, `Attempt`, `Fill` | `aiGenerator.Generate` with its two attempts, `fakerGenerator.Generate`, which loads the schema again, and `Static` |
| `RecordHistory`, `Leave` | the insert with its foreign key; the answer |
| `WriteRow`, `RecordVersion`, `Delete`, `RefreshStep`, `Restart` | the control plane, the cache and the process around the request |

`compiled` is the validator's cache, filled by requests and by the vetting of
updates; it is state, so a wrong key would let one schema vouch for another.
What the provider answers is arbitrary. `seen[r]` is a history variable: the
schemas in force since request `r` started.

### Access

`Authenticate` goes through API keys, workspace tokens and JWTs in the order of
`internal/auth/service.go`; `Checks` lists what each handler looks at and in
which order; `readOwner` and `writeOwner` are the two owner rules of
`internal/endpoint/handler.go`. `Blocked` is the middleware's 401: it compares
the prefix of the path as written, while the router, whose configuration leaves
`CaseSensitive` off, takes any case, so a request chooses one of two `Prefixes`.
(The routes of `/auth` and of accounts answer the same on both and have no
prefix in the model.) Answers are operators of the state, requests that
write are one-step actions, because the interleavings of their statements are
`Registry`'s. Steps are the clock, token minting, registrations (whose row stays
when minting fails), logins and restarts under another configuration. `Foreign`
are tokens other holders of the shared JWT secret signed: without expiry, or of
a kind and subject this server never gives. The subject of an account's token
may be any UUID (`Uuids`): the legacy account's, the nil UUID, which the handlers
take for no account, or that of an account nobody registered, for which the
foreign key of `endpoints.account_id` refuses a new row (`Registered`). Signatures are perfect: a token
verifies under the secret it was signed with. `None` stands for what is absent.

### Imports, RoutePaths, JsonSchemas

A document is parsed (`Parse`, `ParsePostman`) into endpoints: their routes
(`toRoutePath`, `postmanPath`), prompts and schemas (`responseSchema`,
`requestSchema`, reference resolution to a depth bound; inference from recorded
bodies). `ImportDocument` stores the ones whose route is free (`Store`); `Serve`
sends a mock request through `bestMatch`, the request schema and the faker. `JsonSchemas!Conforms` is the reference definition:
what a value must satisfy, keyword by keyword; `fillValue` and
`inferJSONSchema` are translated from `faker.go` and `postman.go` and compared with it.
The functions of `JsonSchemas` and `Imports` are recursive, so these two carry
no proofs; `RoutePathsProofs` is about the choice of the route and its parameters.

## Runs

| Run | Instance | What it shows |
|---|---|---|
| `registry` | 2 goroutines, 2 accounts, 2 uuids, 2 methods, 2 prompts, version numbers up to 2 for new modifications, 1 fault; symmetric in accounts, uuids and goroutines | under races and a fault the history stays contiguous, owned, append-only (`HistoryIsLog` is the refinement of `VersionLog`); a finished request finds what it recorded; rollbacks restore snapshots |
| `registry_serial` | 1 goroutine, 2 accounts, more request bodies, versions up to 4, no fault | sequences of requests keep the live row equal to the latest version and each schema with its own prompt, rollbacks of rollbacks and carry-over after a rollback included |
| `registry_torn` | as `registry`, one account, no fault | violated: see findings |
| `serving` | 1 writer, 1 reader, 2 uuids, versions up to 3, 1 fault | the one cause of stale entries; every entry ends up fresh; requests end |
| `serving_stale` | the same without faults or fairness | violated: see findings |
| `pool` | 2 transactional goroutines, 2 others, 3 connections, up to 3 statements | no deadlock, every request ends |
| `pool_full` | 3 transactional goroutines on 3 connections | violated: see findings |
| `resources` | 2 clients, one id callers use and one uuid, 4 bodies (ids as string and number, nested keys), 64 000 states | every answer fits one instant (`AnswersAtomic` is the refinement of `ResourceStore`); ids stay those of the rows; PATCH and PUT keep what nobody overlapped |
| `access` | 2 accounts, 2 own and 5 foreign tokens (a service without expiry; accounts with a subject that is no UUID, the legacy one, the nil one and one that may be unregistered), 3 configurations, 2 prefixes, 4 addresses, 1 row, 3 seconds, token lifetime 1; symmetric in own tokens, with a view without the history variable | who writes, who reads, what an expired token opens, one account per address |
| `access_private` | the same instance | violated: see findings |
| `mock_request` | 4 writes, 2 schemas, 3 documents, a faker that may make one its schema rejects, 1 goroutine serving any number of requests, 2 faults | AI answers conform to a schema in force, faker answers are made from one; contracts hold; history; prompt and schema agree again; requests end |
| `imports` | any 2 of 3 OpenAPI and 3 Postman documents, two orders of the map iterations over statuses and media types | described requests are routed, accepted and answered as described |

*Bounds.* `Ids` bounds the uuids a behaviour uses: no request starts that needs
more than are left, and an insert that finds none because of a race counts as
failed (`OutOfIds`). `MaxVersion` stops new modifications of an endpoint;
requests already running still add versions. `MaxFaults` counts failed database
and cache calls and crashes. Two goroutines suffice for the races: each hazard
listed has one request overtaking another, and the data the properties relate
is one endpoint's. Two uuids let an endpoint be deleted while the other one
takes over its route. The update body moves the endpoint to the method an
imported item uses, so updates, rollbacks and imports collide. Two versions are
enough for races in `registry`: what another request appends between a
request's list and its insert takes the number the insert is about to use, and
the unique index refuses it, at the second version as at any later one. Three
versions in `serving` reach a rollback that moves an endpoint back, four in
`registry_serial` a rollback of a rollback and an update after one. One fault reaches
each partial failure; the proofs hold for every number. One connection more than transactional
goroutines is the boundary case of the pool (`pool` has 3 against 2), and as many
is the case beyond it. Deadlock is
checked except in the runs of `MCRegistry`: a registry without mock requests
stops when every uuid is used and deleted. The bounds on uuids and versions also
mean that endpoints stop changing at some point of every behaviour of `serving`,
which is the premise of `SelfHeals`.

In `resources` the hazard is one request between the read and the write of
another, which takes two clients and one row; the uuid adds rows nobody names.
The bodies have an id of either JSON type, no id, and keys above and below one
another. In `mock_request` one goroutine serves one request after another:
requests share nothing but the validator's cache, which is locked and outlives
them, so a second goroutine would add states and no case; the proofs hold for
any number. The writes give a request a schema before, during and after it, and
the failure rates 0, 1 and 99.
In `access` the clock reaches the expiry second of a token minted in the first
one and the one after; three configurations are auth off, on, and on without a
JWT secret. The foreign tokens expire in the second or third second or never.
`View` leaves out `writer`, which only the next step's property looks at. The
documents of `imports` were chosen keyword by keyword, so that the
branches of the parsers and of the faker the properties depend on occur in one
of them, and two imports meet on one route.

*Fairness.* `Serving!Fairness` says that a goroutine with a request goes on, that
a reader goes on, and that a TTL runs out; nobody has to send requests, and
faults are never forced. Go schedules runnable goroutines, Redis deletes expired
keys, and every call has an outcome: Redis calls of the service carry a 2 s
deadline, database and model calls return or fail. `ConnPool!Fairness` adds
strong fairness for getting a connection: `database/sql` hands each released
connection to a waiting request without preferring any for ever.

`MockRequest!Fairness` lets a request go on and the list be refreshed, which is
what `Serving` establishes as `SelfHeals`. Nothing obliges the provider to answer
well.

*Mutants.* Every property of a passing run has a mutant in `PROJECT.json`: a
variant of a modelled operation with a plausible bug, defined just before it and
labelled `Mutant of`, with which TLC finds the property violated. Nothing else
uses these variants.

## Findings

* `registry_torn`: `WithTx` runs its statements outside the transaction
  (`internal/endpoint/repository.go:73`). A create inserts its row; an update
  reads that endpoint's still empty version list and numbers its version 1; the
  create records its version 1; the update writes the row and then its own
  version 1 is refused. The live endpoint has changed and no version says so,
  against `repository.go:41-42` and `internal/models/endpoint_version.go:11`.
* `serving_stale`: a reader that loaded the list before a write stores it after
  the invalidation, so the router does not "always see fresh endpoints"
  (`service.go:103-104`); `SelfHeals` shows what does hold.
* `pool_full`: ten requests inside `WithTx` each hold a connection and wait for
  an eleventh (`repository.go:74`, `database.go:26`). Nobody times out.
* `access_private`: a private mock endpoint asks for an identity with a name
  (`router/dynamic.go:195`), and the identity of an account token has none
  (`auth/service.go:106`): the owner of a private endpoint is answered 401 where
  an API key is served, against the comment at `dynamic.go:72-73` and the test's
  "every supported credential kind" (`auth_test.go:183-184`).

Met while modelling, without a run of their own:

* The middleware "returns 401 for the control plane without a valid identity"
  (`auth/handler.go:31-32`) where the path begins with `/api/v1` as written
  (`auth/handler.go:53`). The router matches routes in any case
  (`router.go:22-25`), so on another spelling such a request is routed, is read
  the legacy rows (`endpoint/handler.go:217-222`) and refused any write. `Access` has both
  spellings; `ReadsStayWithOwner`, `ExpiredOpensNothing` and `OnlyOwnersWrite`
  say what holds on each.
* A token of an account may have any UUID as its subject (`auth/service.go:101`).
  No token this server signs has the legacy or the nil one; another holder of the
  secret can sign such a token, and the first then writes the legacy rows with
  authentication on, which the comment at `handler.go:224-227` leaves to
  disabled authentication, and the second reads them.
* Of two overlapping PATCHes of one resource the later UPDATE discards what the
  earlier one stored (`stateful.go:180-195`).
* The members of an `allOf` overwrite each other's keywords (`faker.go:231-246`),
  and an integer with maximum 0, or a minimum above 1000, gets bounds that do not
  meet it (`faker.go:285-313`): such answers do not conform to their schema,
  which `README.md:283-285` promises. `Imports!Plain` names the schemas for which
  they do.
* A schema inferred from a recorded array describes its first element; a later
  element of another type is then rejected (`postman.go:274-281`).
* A `default` response is taken before 2xx ones other than 200 and 201
  (`parse.go:130-134`), where `README.md:283` says the first 2xx response.
* A simulation that only sets a latency has failure rate 0, which means always,
  and so fails every request with status 0 (`errorsim.go:43-48`,
  `dynamic.go:140-166`), against `errorsim.go:12-13`.
* A PATCH whose row is deleted meanwhile answers 500 where PUT answers 404
  (`stateful.go:177-206`).
* Imports leave endpoints private (`service.go:369-381`), unlike `create`.
* A template segment that is only partly a parameter (`/v{n}`) becomes a literal
  that no request matches; the root path is skipped; Postman v2.0 URLs given as
  strings are refused.
* After a delete a request in flight loads no schema, so what the AI answers it
  is not validated.

## Proofs

Eight modules prove, for every value of the constants, what the runs show on
small instances. The assumptions are those stated in the modules, and TLC
evaluates them in every run; a theorem that needs more says so in its `ASSUME`,
and the hypothesis is discussed below.

**`RegistryProofs`**: `[]TypeOK`, `[]VersionsContiguous` and `[]SnapshotsOwned`,
for every set of accounts, endpoints, goroutines and requests. None of the three
is inductive. That an inserted version leaves no gap depends on what the request
read before: between its `ListVersions` and its `CreateVersion`, others may have
appended versions or deleted the endpoint. `IInv` therefore adds `JobInv`: the
endpoint a request is about was inserted before, keeps its owner while it
exists, and already has version `next - 1` (or `next` is 1). This survives every
step of the others, because versions disappear only with their endpoint and a
uuid never comes back; and it is enough at the insert, because the unique index
refuses `next` when it is taken and otherwise `next - 1` is the last number. The
proof has one lemma per action; `LocalStep` covers the steps that touch no table
and `OthersAlone` those that do. TLC checks `IInv` in run `registry`.

**`RegistryHistoryProofs`**, first part: `[]RecordedKept`, `RollbackRestores`
and the refinement `HistoryIsLog`, under any number of racing requests, faults
and crashes. What a request recorded in one step is looked at in a later one;
`LInv` adds to `IInv` what it relies on in between: an uuid it recorded under
stays issued and, while the endpoint exists, its version is there (`Recorded`);
the snapshot a rollback chose is still one of the endpoint's, although others
may have appended to the history (`Chosen`). `Grows` is what no step of another
request takes away: issued uuids stay issued, deleted endpoints stay deleted, an
endpoint that is left loses no version. Under the refinement mapping the k-th
entry of an endpoint's log is its version number k. `IInv` makes this a sequence
(`LogIsSequence`: numbers without gaps, one version per number); `InsertVersion`
is then `Record` (`AcceptedIsRecord`), `EraseRow` is `Erase` of an endpoint that
never comes back (`ErasedIsErase`), and every other step stutters (`LogStutters`).

Second part: row and history. `Registry` writes an endpoint and its version in
two statements and computes the number from a list it read before, so two
requests that overlap on an endpoint tear them apart (run `registry_torn`), and
so does a request that ends between the two statements. The second part shows
that nothing else does. `Touches(w, id)` spans a request from
its first read of the endpoint to its last write; `AloneOn(id)` says that no two
requests do so at once, `Apart` that this is so of every endpoint. Requests on
other endpoints, their failures and crashes stay arbitrary.

* `VersionsFit`: under `[]AloneOn(id)` alone, whatever fails and however often
  the process dies, `UNIQUE (endpoint_id, version)` accepts the version a
  request is about to insert. Only an overlap can make the index refuse it.
* `RowIsOwnVersion`: if moreover no request is cut off between the row and its
  version (`Cut(id)`), the row is the latest version whenever no request is
  between the two. Calls may fail anywhere else.
* `SchemasFollowOwnPrompt`: then also every schema belongs to the prompt of its
  version, given that documents pair the two (`DocsOwnSchemas`, a fact about
  the parser).
* `RowsAreVersions` and `SchemasFollowPrompts` state the properties of the runs
  for all endpoints: under `[]Apart`, until a call fails. One worker is a special
  case (the two `Serial` corollaries).

The invariant has three parts. `Seen(id)`: whoever is between read and write of the
endpoint finds the row as it read it, later as it wrote it, and the next number
free (`SeesRow`). `Recent(id)`: the row is up to date or a request has just
written it. `SchemasOf(id)`: the schema stored, or about to be stored, is that of
the prompt. `Seen` survives every failure, which is why `VersionsFit` needs no
second hypothesis; `Recent` is what a cut loses, for nothing repairs the row
afterwards except the next update.

**`ServingProofs`**: `[]ServingTypeOK`, `[](VersionsContiguous /\ SnapshotsOwned
/\ RecordedKept)` under the readers, `EntriesSettle` and
`[]StaleOnlyByOutdatedFill`. A behaviour of `ServingSpec` is no behaviour of
`Registry!Spec`, since mock requests write the cache and count Redis faults, so
the invariants are shown again for these steps.

`EntriesSettle` bounds how long an entry can be stale, for any number of workers,
readers, faults and crashes: it is fresh, or outdated by a late fill, or some
request still owes its invalidation (`Owes`), from the write that changed the
list to the call of `Invalidate`, which for an import is the sweep after its
whole loop. Both hypotheses are needed; TLC finds a stale entry nobody owes when
either is dropped. `Apart`: of two updates that read the same row, the second
invalidates the method it read and not the one the first moved the endpoint to.
`Lapse`: a request that owed an invalidation and is cut off, by a failed
statement, a failed call to Redis or a crash, leaves the entry to its TTL.
Failures of requests that owe nothing are harmless. That the list a write
changes is the one the request owes rests on `Seen`: the row replaced is the one
that was read.

`InvalidationsReach` is the property of run `serving`: with one control-plane
request at a time and no failed call, a quiet system has no stale entry but by a
late fill. Here the absence of `Lapse` is shown and not assumed: an import must
not run out of uuids (`Provided`; `FiniteIds` lets `Spare` count them), and a
version must not be refused (`VersionsFit`).

**`ResourcesProofs`**: `[]TypeOK`, `[]IdMatchesKey`, `[]PendingIdMatches`, and
that `Spec` implies `AnswersAtomic`, the refinement of `ResourceStore`, for every
set of clients, ids and documents. `IdMatchesKey` is not inductive: the UPDATE
writes a document computed from a row that may be another one by then. `IInv`
adds the same for pending documents; the lemmas about `mergeObjects`, `SetId`
and `ensureID` show that neither PUT nor PATCH can leave the id it read the row
under. Each action lemma proves the next `IInv` and the step of `ResourceStore`
it is: an UPDATE that finds no row refuses, which is why nothing is resurrected.
`PatchKeepsTheRest` and `PutKeepsIdType` rest on a further invariant, `Current`:
the document an update is about to write is the one computed from the row as it
is now, unless another request wrote or deleted the row since the read.

**`MockRequestProofs`**: `[]TypeOK`, `[]AnswersFollowSchema`,
`[]ContractEnforced` and `[]HistoryTells`, for every number of goroutines, every
sequence of writes that validation lets through and every number of faults. That
an answer follows the schemas in force rests on two facts the property does not
mention: `CompiledRight` (a key of the validator's cache is compiled to what its
own text accepts) and `Known` (the latest schema, and the one a request loaded,
were in force since it started; the same schemas vouch for what it is about to
record). `GeneratingKeeps` and `BackgroundKeeps` are the frames of the steps of
one request and of the others. Of the faker only that it makes some document is
assumed: the code validates what the AI answers and not what the faker makes, so
the theorem says of which schema a faker answer was made; for which schemas it
conforms is `DocumentIsHonoured` of run `imports`.

**`AccessProofs`**: all seven properties of run `access`, for every set of
configurations, credentials, addresses and rows. Most follow from the types and
the case analysis of `Authenticate`; `OnlyOwnersWrite` needs the owner checks of
each writing route (`WriterOwns`) and that the server signs tokens of its own
accounts only (`TokensOwn`, part of the inductive invariant), from which a
session of the legacy account is a foreign token. The two about addresses need
that every stored address is canonical and no other account's
(`AddressesInOrder`), with `EmailAssumption`: canonicalizing twice does no more
than once.

**`ConnPoolProofs`**: `[]TypeOK`, which needs that a callback asking for a
connection has a statement left (`StatementLeft`), and `[]SomebodyRuns` whenever
fewer goroutines are in `WithTx` than the pool has connections. The second is an
argument by counting, in any state: without a running statement only
transactions hold connections, and they are too few to hold all. Run `pool_full`
shows that the premise cannot be weakened.

**`RoutePathsProofs`**: `bestMatch` of `RoutePaths` says which endpoint wins, the
Go function is a loop that remembers the best so far. `LoopFindsBest` shows, for
every list of endpoints, that the loop ends with that endpoint or with none
(by the loop invariant `Found` and the least number for which it would fail).
`ExactWins` is the claim of the code's comment: a path that is itself a route
is answered by that route, wherever the list has it. `OrderBreaksTiesOnly`: the
order of the list, which `created_at` leaves open within one import, only
chooses among equally specific routes. `DescribedIsRouted` is the
routing half of `DocumentIsServed`: a request with texts for the variables of a
template matches the route the template became, and so reaches an endpoint at
least as specific, of equally specific ones the first. `ParamsComeBack`: the
captured parameters are those texts. Both are for every list, template and
request whose placeholders are whole segments; what `Imports` adds, that the
stored route is the template's and what order the list has, stays with TLC.

Only model-checked: the four properties of `Imports`, and liveness. What the
recursive functions of `JsonSchemas` and `Imports` compute would take induction
over schemas, which no installed prover does. Liveness (`SelfHeals`,
`CoherentAgain`, `RequestsEnd` of three modules) stays with TLC
because the prover has no rules for fairness and `ENABLED`.

## Plan

1. Done: `Registry`, `VersionLog`, `RegistryLog`, `Serving`, `ConnPool`,
   `Resources`, `ResourceStore`, `MockRequest`, `Access`, `RoutePaths`,
   `JsonSchemas`, `Imports`; the proofs above.
2. Out of the prover's reach: the properties of `Imports` and liveness.

## Not modelled

The dashboard, HTTP envelopes, logging, configuration, migrations and shutdown;
the wording of prompts, fake words and numbers, which no property is about;
statistics and diff, which are queries without effect; the decoding of YAML and
JSON, done by libraries; `resourceParts`, whose collections and ids `Resources`
takes as given; the AI provider beyond the choice of its answers, and the
timing of latencies and timeouts, whose effect (an answer, none) is modelled.
Two racing PUTs of the control plane may undo each other's omitted flags: the
code promises nothing else, so the hazard has no property.
