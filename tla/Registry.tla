------------------------------ MODULE Registry ------------------------------
(***************************************************************************)
(* The endpoint registry of the control plane: the service                 *)
(* (internal/endpoint/service.go) over its repository (repository.go), as  *)
(* the concurrent request goroutines of the HTTP server run them.          *)
(*                                                                         *)
(* A worker takes one request at a time.  Each database statement, AI call *)
(* and cache call of the service is one step, because other workers run    *)
(* between any two of them.  In particular the statements inside           *)
(* Repository.WithTx are steps of their own: WithTx discards the bun.Tx it *)
(* is handed and the nested calls use the pool, so each of them commits    *)
(* when it returns.                                                        *)
(*                                                                         *)
(* An endpoint's versioned fields are represented by five: method and path *)
(* (routing key and uniqueness), prompt (what the schema is inferred       *)
(* from), status (always replaced, with a default) and public (kept when   *)
(* the request omits it, as stateful, request_schema and error_sim are).   *)
(***************************************************************************)
EXTENDS Integers, Sequences, FiniteSets, FiniteSetsExt

CONSTANTS
  Accounts,      \* owners: accounts.id, the legacy account included
  Ids,           \* the endpoint uuids a behaviour can use (a bound)
  Methods,       \* HTTP methods, upper case
  Paths,         \* path templates
  Prompts,       \* prompts, never blank (validateCommon)
  Workers,       \* request goroutines of the HTTP server
  CreateInputs,  \* validated bodies of POST /api/v1/endpoints
  UpdateInputs,  \* validated bodies of PUT /api/v1/endpoints/:id
  ImportDocs,    \* non-empty item lists of POST /api/v1/imports/*
  MaxVersion,    \* no modification starts on an endpoint with that version
  MaxFaults,     \* failed database and cache calls, and crashes
  Omitted,       \* an optional field the request leaves out
  NoRow, NoId, NoJob, NoSchema, NotCached

Statuses == {"active", "inactive"}
Schemas  == Prompts \cup {NoSchema}

\* The versioned fields of an endpoint.
Snapshot == [method: Methods, path: Paths, prompt: Prompts,
             status: Statuses, public: BOOLEAN]

\* A schema stands for the prompt it was inferred from.
Row     == [owner: Accounts, cfg: Snapshot]
Version == [ep: Ids, owner: Accounts, num: Nat \ {0},
            cfg: Snapshot, schema: Schemas]

\* A row as the router lists and caches it.
Listed == [id: Ids, owner: Accounts, cfg: Snapshot]

Input == [method: Methods, path: Paths, prompt: Prompts,
          status: Statuses \cup {Omitted}, public: BOOLEAN \cup {Omitted}]
Item  == [method: Methods, path: Paths, prompt: Prompts, schema: Schemas]

Ops   == {"create", "update", "rollback", "delete", "import"}
Steps == {"schema", "insert", "list", "write", "version", "commit",
          "erase", "item", "dropOld", "dropNew", "sweep"}

\* The local variables of a request in progress.
Job == [op: Ops, owner: Accounts, id: Ids \cup {NoId},
        before: Snapshot,       \* the row FindByID returned
        cfg: Snapshot,          \* the record the handler writes
        schema: Schemas,        \* the schema its version carries
        next: Nat \ {0},        \* the number its version gets
        items: Seq(Item),       \* import: what is left of the document
        made: SUBSET Methods]   \* import: methods of the endpoints created

ASSUME InputsAssumption ==
  /\ CreateInputs \subseteq Input
  /\ UpdateInputs \subseteq Input
  /\ ImportDocs \subseteq (Seq(Item) \ {<<>>})

ASSUME BoundsAssumption == MaxVersion \in Nat /\ MaxFaults \in Nat

ASSUME SentinelsAssumption ==
  /\ NoRow \notin Row
  /\ NoId \notin Ids
  /\ NoSchema \notin Prompts
  /\ Omitted \notin Statuses /\ Omitted \notin BOOLEAN

VARIABLES
  endpoints,  \* table endpoints: Ids -> Row or NoRow
  versions,   \* table endpoint_versions
  issued,     \* the uuids rows were ever inserted with
  cache,      \* Redis: Methods -> cached endpoint list or NotCached
  pc, job,    \* the step each worker is at, and its request
  faults      \* faults so far

vars == <<endpoints, versions, issued, cache, pc, job, faults>>

-----------------------------------------------------------------------------
(* The tables as the repository's queries see them.                        *)

Live == {id \in Ids : endpoints[id] # NoRow}

FindByID(a, id) == id \in Live /\ endpoints[id].owner = a

ListVersions(a, id) == {v \in versions : v.owner = a /\ v.ep = id}

\* UNIQUE (account_id, method, path) would reject cfg on any row but `self`.
Taken(a, cfg, self) ==
  \E id \in Live \ {self} : /\ endpoints[id].owner = a
                            /\ endpoints[id].cfg.method = cfg.method
                            /\ endpoints[id].cfg.path = cfg.path

\* Mutant of nextVersion: one too many.
nextVersionSkips(vs) == Max({v.num : v \in vs} \cup {0}) + 2

nextVersion(vs) == Max({v.num : v \in vs} \cup {0}) + 1

Latest(vs) == CHOOSE v \in vs : \A u \in vs : u.num <= v.num

Default(value, fallback) == IF value = Omitted THEN fallback ELSE value

\* The record a request asks for; `public` is what an omitted flag means.
Requested(in, public) ==
  [method |-> in.method, path |-> in.path, prompt |-> in.prompt,
   status |-> Default(in.status, "active"),
   public |-> Default(in.public, public)]

\* The record Import builds; it leaves Public at Go's zero value.
Imported(item) ==
  [method |-> item.method, path |-> item.path, prompt |-> item.prompt,
   status |-> "active", public |-> FALSE]

\* Mutant of snapshotVersion: the row as it was read, not as it is written.
snapshotBefore(j) ==
  [ep |-> j.id, owner |-> j.owner, num |-> j.next,
   cfg |-> j.before, schema |-> j.schema]

snapshotVersion(j) ==
  [ep |-> j.id, owner |-> j.owner, num |-> j.next,
   cfg |-> j.cfg, schema |-> j.schema]

\* Mutants of VersionAccepted: the unique index, the foreign key is missing.
AcceptedWithoutUnique(v) == v.ep \in Live
AcceptedWithoutParent(v) == \A u \in versions : u.ep = v.ep => u.num # v.num

\* The foreign key and UNIQUE (endpoint_id, version).
VersionAccepted(v) ==
  /\ v.ep \in Live
  /\ \A u \in versions : u.ep = v.ep => u.num # v.num

NewJob(op, a, id, before, cfg) ==
  [op |-> op, owner |-> a, id |-> id, before |-> before, cfg |-> cfg,
   schema |-> NoSchema, next |-> 1, items |-> <<>>, made |-> {}]

-----------------------------------------------------------------------------
Goto(w, step, j) == /\ pc' = [pc EXCEPT ![w] = step]
                    /\ job' = [job EXCEPT ![w] = j]

\* The response, of success or of failure, is sent.
Finish(w) == Goto(w, "idle", NoJob)

tables == <<endpoints, versions, issued>>

Init == /\ endpoints = [id \in Ids |-> NoRow]
        /\ versions = {}
        /\ issued = {}
        /\ cache = [m \in Methods |-> NotCached]
        /\ pc = [w \in Workers |-> "idle"]
        /\ job = [w \in Workers |-> NoJob]
        /\ faults = 0

-----------------------------------------------------------------------------
(* Requests arrive.  A request that fails validation, names an endpoint    *)
(* FindByID does not return, or changes nothing, ends here and leaves no   *)
(* trace: it is no step of the model.                                      *)

\* Ids bounds what is created: no request starts that needs more uuids than
\* are left.
Spare(n) == Cardinality(Ids \ issued) >= n

BeginCreate(w, a, in) ==
  LET cfg == Requested(in, TRUE)
  IN  /\ pc[w] = "idle"
      /\ Spare(1)
      /\ Goto(w, "schema", NewJob("create", a, NoId, cfg, cfg))
      /\ UNCHANGED <<tables, cache, faults>>

\* MaxVersion bounds the history: no modification starts beyond it.
Room(id) == \A v \in versions : v.ep = id => v.num < MaxVersion

BeginUpdate(w, a, id, in) ==
  LET before == endpoints[id].cfg
      cfg    == Requested(in, before.public)
  IN  /\ pc[w] = "idle"
      /\ FindByID(a, id)
      /\ Room(id)
      /\ cfg # before
      /\ Goto(w, "list", NewJob("update", a, id, before, cfg))
      /\ UNCHANGED <<tables, cache, faults>>

BeginRollback(w, a, id) ==
  LET before == endpoints[id].cfg
  IN  /\ pc[w] = "idle"
      /\ FindByID(a, id)
      /\ Room(id)
      /\ Goto(w, "list", NewJob("rollback", a, id, before, before))
      /\ UNCHANGED <<tables, cache, faults>>

BeginDelete(w, a, id) ==
  LET before == endpoints[id].cfg
  IN  /\ pc[w] = "idle"
      /\ FindByID(a, id)
      /\ Goto(w, "erase", NewJob("delete", a, id, before, before))
      /\ UNCHANGED <<tables, cache, faults>>

BeginImport(w, a, doc) ==
  LET first == Imported(Head(doc))
  IN  /\ pc[w] = "idle"
      /\ Spare(Len(doc))
      /\ Goto(w, "item", [NewJob("import", a, NoId, first, first)
                            EXCEPT !.items = doc])
      /\ UNCHANGED <<tables, cache, faults>>

-----------------------------------------------------------------------------
(* Reads and the AI call that precede the writes.                          *)

\* Mutant of GenerateSchema: inferred from the prompt that was replaced.
GenerateFromOld(w) ==
  /\ pc[w] = "schema"
  /\ Goto(w, IF job[w].op = "create" THEN "insert" ELSE "write",
          [job[w] EXCEPT !.schema = job[w].before.prompt])
  /\ UNCHANGED <<tables, cache, faults>>

\* generateSchema: the AI's answer, or none when the provider is disabled,
\* unreachable or answers with something that does not compile.
GenerateSchema(w) ==
  /\ pc[w] = "schema"
  /\ \E s \in {job[w].cfg.prompt, NoSchema} :
       Goto(w, IF job[w].op = "create" THEN "insert" ELSE "write",
            [job[w] EXCEPT !.schema = s])
  /\ UNCHANGED <<tables, cache, faults>>

\* Update's ListVersions: the number of the new version, and the schema
\* carried over unless the prompt changed.
ListForUpdate(w) ==
  LET j  == job[w]
      vs == ListVersions(j.owner, j.id)
  IN  /\ pc[w] = "list" /\ j.op = "update"
      /\ IF j.cfg.prompt # j.before.prompt
         THEN Goto(w, "schema", [j EXCEPT !.next = nextVersion(vs)])
         ELSE Goto(w, "write",
                   [j EXCEPT !.next = nextVersion(vs),
                             !.schema = IF vs = {} THEN NoSchema
                                        ELSE Latest(vs).schema])
      /\ UNCHANGED <<tables, cache, faults>>

\* Mutant of ListForRollback: the schema of the target is not restored.
RollbackWithoutSchema(w) ==
  LET j  == job[w]
      vs == ListVersions(j.owner, j.id)
  IN  /\ pc[w] = "list" /\ j.op = "rollback"
      /\ \E target \in vs :
           /\ target.num < Latest(vs).num
           /\ Goto(w, "write", [j EXCEPT !.cfg = target.cfg,
                                         !.next = nextVersion(vs)])
      /\ UNCHANGED <<tables, cache, faults>>

\* Rollback's ListVersions and findVersion, for whatever number the request
\* names: a version that is missing or the latest is rejected.
ListForRollback(w) ==
  LET j  == job[w]
      vs == ListVersions(j.owner, j.id)
  IN  /\ pc[w] = "list" /\ j.op = "rollback"
      /\ \/ \E target \in vs :
              /\ target.num < Latest(vs).num
              /\ Goto(w, "write",
                      [j EXCEPT !.cfg = target.cfg, !.schema = target.schema,
                                !.next = nextVersion(vs)])
         \/ Finish(w)
      /\ UNCHANGED <<tables, cache, faults>>

-----------------------------------------------------------------------------
(* The writes.                                                             *)

\* An INSERT into endpoints under a uuid nobody has used.
Insert(id, a, cfg) ==
  /\ id \in Ids \ issued
  /\ endpoints' = [endpoints EXCEPT ![id] = [owner |-> a, cfg |-> cfg]]
  /\ issued' = issued \cup {id}

\* Create's repo.Create; a conflict ends the request.
InsertRow(w) ==
  LET j == job[w]
  IN  /\ pc[w] = "insert"
      /\ \/ /\ Taken(j.owner, j.cfg, NoId)
            /\ Finish(w)
            /\ UNCHANGED <<endpoints, issued>>
         \/ /\ ~Taken(j.owner, j.cfg, NoId)
            /\ \E id \in Ids : /\ Insert(id, j.owner, j.cfg)
                               /\ Goto(w, "version",
                                       [j EXCEPT !.id = id, !.next = 1])
      /\ UNCHANGED <<versions, cache, faults>>

\* Mutant of NextItem: the loop runs once more.
NextItemOvershoots(items) == "item"

\* Where Import's loop goes with these items left.
NextItem(items) == IF items = <<>> THEN "commit" ELSE "item"

\* Import's repo.Create of the next item; a conflict skips the item.
InsertItem(w) ==
  LET j    == job[w]
      item == Head(j.items)
      cfg  == Imported(item)
      rest == Tail(j.items)
  IN  /\ pc[w] = "item"
      /\ \/ /\ Taken(j.owner, cfg, NoId)
            /\ Goto(w, NextItem(rest), [j EXCEPT !.items = rest])
            /\ UNCHANGED <<endpoints, issued>>
         \/ /\ ~Taken(j.owner, cfg, NoId)
            /\ \E id \in Ids :
                 /\ Insert(id, j.owner, cfg)
                 /\ Goto(w, "version",
                         [j EXCEPT !.id = id, !.cfg = cfg, !.next = 1,
                                   !.schema = item.schema, !.items = rest])
      /\ UNCHANGED <<versions, cache, faults>>

\* Mutant of WriteRow: an upsert, which does not notice a deleted row.
WriteRowUpserts(w) ==
  LET j == job[w]
  IN  /\ pc[w] = "write"
      /\ endpoints' = [endpoints EXCEPT
                         ![j.id] = [owner |-> j.owner, cfg |-> j.cfg]]
      /\ Goto(w, "version", j)
      /\ UNCHANGED <<versions, issued, cache, faults>>

\* repo.Update of every column; ErrNotFound and ErrConflict end the request.
WriteRow(w) ==
  LET j  == job[w]
      ok == FindByID(j.owner, j.id) /\ ~Taken(j.owner, j.cfg, j.id)
  IN  /\ pc[w] = "write"
      /\ \/ /\ ok
            /\ endpoints' = [endpoints EXCEPT
                               ![j.id] = [owner |-> j.owner, cfg |-> j.cfg]]
            /\ Goto(w, "version", j)
         \/ /\ ~ok
            /\ Finish(w)
            /\ UNCHANGED endpoints
      /\ UNCHANGED <<versions, issued, cache, faults>>

\* Mutant of InsertVersion: its error is dropped and the request goes on.
InsertVersionUnchecked(w) ==
  LET v == snapshotVersion(job[w])
  IN  /\ pc[w] = "version"
      /\ versions' = versions \cup {u \in {v} : VersionAccepted(u)}
      /\ Goto(w, IF job[w].op = "import" THEN NextItem(job[w].items)
                 ELSE "commit", job[w])
      /\ UNCHANGED <<endpoints, issued, cache, faults>>

\* repo.CreateVersion.  When it fails the request ends with an error and no
\* invalidation, the row it has written staying behind.
InsertVersion(w) ==
  LET j == job[w]
      v == snapshotVersion(j)
  IN  /\ pc[w] = "version"
      /\ \/ /\ VersionAccepted(v)
            /\ versions' = versions \cup {v}
            /\ IF j.op = "import"
               THEN Goto(w, NextItem(j.items),
                         [j EXCEPT !.made = @ \cup {j.cfg.method}])
               ELSE Goto(w, "commit", j)
         \/ /\ ~VersionAccepted(v)
            /\ Finish(w)
            /\ UNCHANGED versions
      /\ UNCHANGED <<endpoints, issued, cache, faults>>

\* RunInTx commits the transaction nothing ran in.
Commit(w) ==
  LET j == job[w]
  IN  /\ pc[w] = "commit"
      /\ Goto(w, CASE j.op = "create" -> "dropNew"
                   [] j.op = "import" -> "sweep"
                   [] OTHER -> "dropOld", j)
      /\ UNCHANGED <<tables, cache, faults>>

\* Delete's repo.Delete; versions and history go by ON DELETE CASCADE.
EraseRow(w) ==
  LET j == job[w]
  IN  /\ pc[w] = "erase"
      /\ \/ /\ FindByID(j.owner, j.id)
            /\ endpoints' = [endpoints EXCEPT ![j.id] = NoRow]
            /\ versions' = {v \in versions : v.ep # j.id}
            /\ Goto(w, "dropOld", j)
         \/ /\ ~FindByID(j.owner, j.id)
            /\ Finish(w)
            /\ UNCHANGED <<endpoints, versions>>
      /\ UNCHANGED <<issued, cache, faults>>

-----------------------------------------------------------------------------
(* Invalidation, after the writes.                                         *)

\* invalidateMethod: a failed Redis DEL is logged and forgotten.
invalidateMethod(m) ==
  \/ /\ cache' = [cache EXCEPT ![m] = NotCached]
     /\ UNCHANGED faults
  \/ /\ faults < MaxFaults
     /\ faults' = faults + 1
     /\ UNCHANGED cache

\* Mutant of DropOld: forgets that the method may have changed.
DropOnlyNew(w) ==
  /\ pc[w] = "dropOld"
  /\ invalidateMethod(job[w].cfg.method)
  /\ Finish(w)
  /\ UNCHANGED tables

\* The method the endpoint had; all there is to drop after a delete.
DropOld(w) ==
  LET j == job[w]
  IN  /\ pc[w] = "dropOld"
      /\ invalidateMethod(j.before.method)
      /\ IF j.op = "delete" THEN Finish(w) ELSE Goto(w, "dropNew", j)
      /\ UNCHANGED tables

DropNew(w) ==
  /\ pc[w] = "dropNew"
  /\ invalidateMethod(job[w].cfg.method)
  /\ Finish(w)
  /\ UNCHANGED tables

\* Mutant of Sweep: the loop never moves on.
SweepForever(w) ==
  /\ pc[w] = "sweep"
  /\ \E m \in job[w].made : invalidateMethod(m)
  /\ UNCHANGED <<tables, pc, job>>

\* Import's loop over a map of the methods it created endpoints for.
Sweep(w) ==
  LET j == job[w]
  IN  /\ pc[w] = "sweep"
      /\ \/ \E m \in j.made :
              /\ invalidateMethod(m)
              /\ Goto(w, "sweep", [j EXCEPT !.made = @ \ {m}])
         \/ /\ j.made = {}
            /\ Finish(w)
            /\ UNCHANGED <<cache, faults>>
      /\ UNCHANGED tables

-----------------------------------------------------------------------------
(* Faults.                                                                 *)

\* The steps at which a database call can return an error.
Statements == {"list", "insert", "write", "version", "erase", "item", "commit"}

\* A statement fails without effect and the request ends with its error.
FailStatement(w) ==
  /\ pc[w] \in Statements
  /\ faults < MaxFaults
  /\ faults' = faults + 1
  /\ Finish(w)
  /\ UNCHANGED <<tables, cache>>

\* The process dies and starts again; PostgreSQL and Redis keep their data.
Crash ==
  /\ \E w \in Workers : pc[w] # "idle"
  /\ faults < MaxFaults
  /\ faults' = faults + 1
  /\ pc' = [w \in Workers |-> "idle"]
  /\ job' = [w \in Workers |-> NoJob]
  /\ UNCHANGED <<tables, cache>>

\* The bound on uuids again: an INSERT for which racing requests left none
\* counts as failed.
OutOfIds(w) ==
  /\ pc[w] \in {"insert", "item"}
  /\ issued = Ids
  /\ Finish(w)
  /\ UNCHANGED <<tables, cache, faults>>

-----------------------------------------------------------------------------
Begin(w) ==
  \E a \in Accounts :
    \/ \E in \in CreateInputs : BeginCreate(w, a, in)
    \/ \E doc \in ImportDocs : BeginImport(w, a, doc)
    \/ \E id \in Ids :
         \/ \E in \in UpdateInputs : BeginUpdate(w, a, id, in)
         \/ BeginRollback(w, a, id)
         \/ BeginDelete(w, a, id)

\* The next statement or call of the request at hand.
Continue(w) ==
  \/ GenerateSchema(w)
  \/ ListForUpdate(w)
  \/ ListForRollback(w)
  \/ InsertRow(w)
  \/ InsertItem(w)
  \/ WriteRow(w)
  \/ InsertVersion(w)
  \/ Commit(w)
  \/ EraseRow(w)
  \/ DropOld(w)
  \/ DropNew(w)
  \/ Sweep(w)

Next == \/ Crash
        \/ \E w \in Workers : \/ Begin(w)
                              \/ Continue(w)
                              \/ FailStatement(w)
                              \/ OutOfIds(w)

Spec == Init /\ [][Next]_vars

-----------------------------------------------------------------------------
(* Correctness.                                                            *)

TablesTyped == /\ endpoints \in [Ids -> Row \cup {NoRow}]
               /\ versions \subseteq Version
               /\ issued \subseteq Ids

CacheTyped ==
  /\ DOMAIN cache = Methods
  /\ \A m \in Methods : cache[m] = NotCached \/ cache[m] \subseteq Listed

\* The request of w is about an existing endpoint, or one it has inserted.
Targeted(w) ==
  \/ pc[w] = "version"
  \/ pc[w] # "idle" /\ job[w].op \in {"update", "rollback", "delete"}

JobTyped(w) ==
  \/ pc[w] = "idle" /\ job[w] = NoJob
  \/ /\ pc[w] \in Steps
     /\ job[w] \in Job
     /\ Targeted(w) => job[w].id \in Ids
     /\ pc[w] = "item" => job[w].items # <<>>
     /\ pc[w] = "schema" => job[w].op \in {"create", "update"}
     /\ pc[w] = "write" => job[w].op \in {"update", "rollback"}

\* Every variable has its type, and a request in progress has the local
\* variables its step reads.
TypeOK == /\ TablesTyped
          /\ CacheTyped
          /\ pc \in [Workers -> Steps \cup {"idle"}]
          /\ job \in [Workers -> Job \cup {NoJob}]
          /\ \A w \in Workers : JobTyped(w)
          /\ faults \in 0 .. MaxFaults

Numbers(id) == {v.num : v \in {u \in versions : u.ep = id}}

UpTo(S) == S = {} \/ \E n \in S : S = 1 .. n

\* The version numbers of an endpoint are 1 .. n without a gap, and each is
\* one snapshot, whichever requests race and wherever one fails: what
\* findVersion, versions[0] and nextVersion (service.go:197-258, 583) rely on.
VersionsContiguous ==
  /\ \A id \in Ids : UpTo(Numbers(id))
  /\ \A u, v \in versions : u.ep = v.ep /\ u.num = v.num => u = v

\* A snapshot belongs to the account of its endpoint, and exists only while
\* the endpoint does: ListVersions (repository.go:175) filters by both, so a
\* snapshot of another owner would be invisible and its number taken.
SnapshotsOwned ==
  \A v \in versions : v.ep \in Live /\ endpoints[v.ep].owner = v.owner

\* A request that has recorded its version still finds that very snapshot
\* when it goes on to invalidate and answer, unless the endpoint was deleted
\* under it (service.go:206-218).
RecordedKept ==
  \A w \in Workers :
    /\ pc[w] \in {"commit", "dropOld", "dropNew"}
    /\ job[w].op \in {"create", "update", "rollback"}
    /\ job[w].id \in Live
    => snapshotVersion(job[w]) \in versions

HistoryInv == VersionsContiguous /\ SnapshotsOwned /\ Live \subseteq issued

\* The target of a request keeps its owner and is never inserted anew, and
\* the history the request has seen is still there when it writes.
JobInv(w) ==
  Targeted(w) =>
    /\ job[w].id \in issued
    /\ job[w].id \in Live =>
         /\ endpoints[job[w].id].owner = job[w].owner
         /\ job[w].next = 1 \/ job[w].next - 1 \in Numbers(job[w].id)

\* The inductive invariant of RegistryProofs: the tables are in order, and
\* every request in progress still knows enough to keep them so
\* (service.go:151-262: what FindByID and ListVersions returned is used
\* after other requests have run).
IInv == TypeOK /\ HistoryInv /\ \A w \in Workers : JobInv(w)

Quiet == \A w \in Workers : pc[w] = "idle"

\* Between requests every endpoint is what its latest version says
\* (models/endpoint_version.go:10, "every modification of an endpoint
\* produces a new version").
RowIsLatestVersion ==
  Quiet => \A id \in Live :
             LET vs == ListVersions(endpoints[id].owner, id)
             IN  vs # {} /\ Latest(vs).cfg = endpoints[id].cfg

\* The schema a version carries was inferred from that version's prompt
\* (service.go:197-198, "it is derived from the prompt").
SchemaOfOwnPrompt ==
  \A v \in versions : v.schema \in {v.cfg.prompt, NoSchema}
=============================================================================
