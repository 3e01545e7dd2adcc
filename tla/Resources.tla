------------------------------ MODULE Resources ------------------------------
(***************************************************************************)
(* Stateful mock endpoints (internal/generator/stateful.go over            *)
(* internal/state/state.go): POST, GET, PUT, PATCH and DELETE on the       *)
(* resources of one collection of one account.  Every statement names      *)
(* account, collection and id, so collections never meet and one is        *)
(* modelled.  PUT and PATCH read with one autocommitted statement and      *)
(* write with another; requests of other clients, failures of statements   *)
(* and a stop of the process come between.                                 *)
(*                                                                         *)
(* A JSON object is the function from the key paths of its leaves to the   *)
(* leaves, so {"id":1,"b":{"x":2}} has the paths <<"id">> and <<"b","x">>. *)
(* Leaves are pairs of a JSON type and a text.                             *)
(***************************************************************************)
EXTENDS Naturals, Sequences, FiniteSets

CONSTANTS
  Clients,    \* mock requests being served
  PathIds,    \* ids callers use
  Uuids,      \* ids uuid.NewString can return
  Paths,      \* key paths of the documents
  Leaves,     \* leaves: pairs of type and text
  Bodies,     \* objects callers send and generators answer
  NoDoc,      \* no resource under an id, no object in a body
  NullBody,   \* the JSON text null
  NoId,       \* the path names no id
  NoJob       \* a client between two requests

IdPath == <<"id">>
Ids == PathIds \cup Uuids

ASSUME PathAssumption == IdPath \in Paths /\ Paths \subseteq Seq(STRING) \ {<<>>}
ASSUME IdAssumption == /\ \A id \in Ids : <<"string", id>> \in Leaves
                       /\ NoDoc \notin Ids
                       /\ NoId \notin Ids

VARIABLES
  resources,  \* table mock_resources: the data column of each id
  job,        \* the update a PUT or PATCH is about to execute
  issued,     \* uuids handed out
  answer,     \* history: the last answer given
  overlapped  \* history: the resource changed since this client read it

vars == <<resources, job, issued, answer, overlapped>>

Prefix(p, q) == Len(p) <= Len(q) /\ \A i \in 1..Len(p) : p[i] = q[i]

\* An object has one value per key: no leaf lies below another.
Docs == {d \in UNION {[S -> Leaves] : S \in SUBSET Paths} :
           \A p, q \in DOMAIN d : Prefix(p, q) => p = q}

ASSUME BodyAssumption ==
  /\ Bodies \subseteq Docs
  /\ {NoDoc, NullBody} \cap Docs = {}

-----------------------------------------------------------------------------
\* Mutant of mergeObjects: nested objects are replaced instead of merged.
ShallowMerge(dst, src) ==
  LET kept == {p \in DOMAIN dst : \A q \in DOMAIN src : p[1] # q[1]}
  IN  [p \in kept \cup DOMAIN src |-> IF p \in DOMAIN src THEN src[p] ELSE dst[p]]

\* Mutant of mergeObjects: a value and what it replaces both stay.
UnionMerge(dst, src) ==
  [p \in DOMAIN dst \cup DOMAIN src |-> IF p \in DOMAIN src THEN src[p] ELSE dst[p]]

\* The deep merge: what src says replaces what dst holds at, above or below.
mergeObjects(dst, src) ==
  LET kept == {p \in DOMAIN dst :
                 \A q \in DOMAIN src : ~Prefix(p, q) /\ ~Prefix(q, p)}
  IN  [p \in kept \cup DOMAIN src |-> IF p \in DOMAIN src THEN src[p] ELSE dst[p]]

\* The id a document carries: only strings and numbers name one.
idOf(d) == IF IdPath \in DOMAIN d /\ d[IdPath][1] \in {"string", "number"}
           THEN d[IdPath][2]
           ELSE NoId

HasId(d) == \E p \in DOMAIN d : p[1] = "id"

SetId(d, leaf) == mergeObjects(d, [p \in {IdPath} |-> leaf])

\* Mutant of ensureID: an id of the body is kept whatever it says.
KeepBodyId(d, id) == IF HasId(d) THEN d ELSE SetId(d, <<"string", id>>)

ensureID(d, id) == IF idOf(d) = id THEN d ELSE SetId(d, <<"string", id>>)

-----------------------------------------------------------------------------
Init == /\ resources = [id \in Ids |-> NoDoc]
        /\ job = [c \in Clients |-> NoJob]
        /\ issued = {}
        /\ answer = [id |-> NoDoc, status |-> 0, doc |-> NoDoc]
        /\ overlapped = [c \in Clients |-> FALSE]

Answer(id, status, doc) ==
  answer' = [id |-> id, status |-> status, doc |-> doc]

\* The row of an id changes under the clients about to write it.
Store(id, doc) ==
  /\ resources' = [resources EXCEPT ![id] = doc]
  /\ overlapped' = [c \in Clients |->
       overlapped[c] \/ (job[c] # NoJob /\ job'[c] # NoJob /\ job[c].id = id)]

Idle(c) == job[c] = NoJob
Leave(c) == job' = [job EXCEPT ![c] = NoJob]
NoWrite == UNCHANGED <<resources, issued>>

\* The ids a POST can store its body under, and the body it stores: the id of
\* the path, that of the body, or a fresh one.
Created(pathId, body) ==
  LET data == IF body = NoDoc THEN <<>> ELSE body
      fresh == IF pathId = NoId /\ idOf(data) = NoId
               THEN Uuids \ issued ELSE {}
      id == IF pathId # NoId THEN pathId ELSE idOf(data)
  IN  IF fresh # {}
      THEN {[id |-> u, doc |-> SetId(data, <<"string", u>>)] : u \in fresh}
      ELSE {[id |-> i, doc |-> IF pathId # NoId
                               THEN SetId(data, <<"string", i>>) ELSE data] :
              i \in {id} \cap PathIds}

\* POST: the wrapped generator answers (a body that is no object counts as
\* empty), an id is found, and one INSERT decides.
Create(c) ==
  /\ Idle(c)
  /\ \E pathId \in PathIds \cup {NoId}, body \in Bodies \cup {NoDoc} :
       \E new \in Created(pathId, body) :
         \/ /\ resources[new.id] = NoDoc
            /\ UNCHANGED job
            /\ Store(new.id, new.doc)
            /\ issued' = issued \cup ({new.id} \cap Uuids)
            /\ Answer(new.id, 201, new.doc)
         \/ /\ resources[new.id] # NoDoc
            /\ Answer(new.id, 409, NoDoc)
            /\ UNCHANGED <<resources, job, issued, overlapped>>

Get(c, id) ==
  /\ Idle(c)
  /\ IF resources[id] = NoDoc THEN Answer(id, 404, NoDoc)
                              ELSE Answer(id, 200, resources[id])
  /\ NoWrite
  /\ UNCHANGED <<job, overlapped>>

Delete(c, id) ==
  /\ Idle(c)
  /\ UNCHANGED <<job, issued>>
  /\ IF resources[id] = NoDoc
     THEN Answer(id, 404, NoDoc) /\ UNCHANGED <<resources, overlapped>>
     ELSE Answer(id, 204, NoDoc) /\ Store(id, NoDoc)

\* Mutant of Replacement: an id the body omits is always written as a string.
ReplacementWithPathId(current, body, id) == ensureID(body, id)

\* The document a PUT or PATCH computes from the row it read.
Replacement(current, body, id) ==
  IF HasId(body) THEN ensureID(body, id)
  ELSE IF IdPath \in DOMAIN current THEN SetId(body, current[IdPath])
  ELSE SetId(body, <<"string", id>>)

Patched(current, body, id) == ensureID(mergeObjects(current, body), id)

\* The SELECT of a PUT or PATCH: it answers 404 and 400, or leaves the
\* document to write in the client's job.
Read(c, op, id, body) ==
  /\ Idle(c)
  /\ NoWrite
  /\ \/ /\ resources[id] = NoDoc
        /\ Answer(id, 404, NoDoc)
        /\ UNCHANGED <<job, overlapped>>
     \/ /\ resources[id] # NoDoc
        /\ body = NoDoc
        /\ Answer(id, 400, NoDoc)
        /\ UNCHANGED <<job, overlapped>>
     \/ /\ resources[id] # NoDoc
        /\ body # NoDoc
        /\ job' = [job EXCEPT ![c] =
             [op |-> op, id |-> id, body |-> body,
              doc |-> IF op = "put" THEN Replacement(resources[id], body, id)
                                    ELSE Patched(resources[id], body, id)]]
        /\ overlapped' = [overlapped EXCEPT ![c] = FALSE]
        /\ UNCHANGED answer

ReadForPut(c) == \E id \in PathIds, body \in Bodies \cup {NoDoc} :
                   Read(c, "put", id, body)

\* A patch of null merges nothing.
ReadForPatch(c) ==
  \E id \in PathIds, body \in Bodies \cup {NoDoc, NullBody} :
    Read(c, "patch", id, IF body = NullBody THEN <<>> ELSE body)

\* Mutant of Write: an UPDATE that inserts the row when it is gone.
Upsert(c) ==
  /\ ~Idle(c)
  /\ Leave(c)
  /\ Store(job[c].id, job[c].doc)
  /\ Answer(job[c].id, 200, job[c].doc)
  /\ UNCHANGED issued

\* The UPDATE.  When the row is gone meanwhile PUT answers 404; PATCH passes
\* every error on and answers 500.
Write(c) ==
  /\ ~Idle(c)
  /\ Leave(c)
  /\ UNCHANGED issued
  /\ LET id == job[c].id
     IN  \/ /\ resources[id] # NoDoc
            /\ Store(id, job[c].doc)
            /\ Answer(id, 200, job[c].doc)
         \/ /\ resources[id] = NoDoc
            /\ Answer(id, IF job[c].op = "put" THEN 404 ELSE 500, NoDoc)
            /\ UNCHANGED <<resources, overlapped>>

\* A statement of any request fails: an internal error.
FailStatement(c, id) == /\ ~Idle(c) => job[c].id = id
                        /\ Leave(c)
                        /\ Answer(id, 500, NoDoc)
                        /\ NoWrite
                        /\ UNCHANGED overlapped

\* The process stops, or a goroutine panics: a PUT of null, and a POST whose
\* generated body is null, assign to a nil map, and nothing recovers.  The
\* requests in flight are never answered; the rows stay.
Crash == /\ job' = [c \in Clients |-> NoJob]
         /\ UNCHANGED <<resources, issued, answer, overlapped>>

Next == \/ \E c \in Clients : \/ Create(c) \/ ReadForPut(c) \/ ReadForPatch(c)
                              \/ Write(c)
                              \/ \E id \in PathIds : Get(c, id)
                              \/ \E id \in PathIds : Delete(c, id)
                              \/ \E id \in PathIds : FailStatement(c, id)
        \/ Crash

Spec == Init /\ [][Next]_vars
-----------------------------------------------------------------------------
\* Type invariant of the module.
Job == [op : {"put", "patch"}, id : PathIds, body : Docs, doc : Docs]

TypeOK == /\ resources \in [Ids -> Docs \cup {NoDoc}]
          /\ job \in [Clients -> Job \cup {NoJob}]
          /\ issued \subseteq Uuids
          /\ overlapped \in [Clients -> BOOLEAN]

\* A stored document carries the id it is stored under, as a string or a
\* number, whatever ids the bodies of POST, PUT and PATCH claim and in
\* whatever order they interleave: lookups stay consistent
\* (internal/generator/stateful.go:137-139, 177-178).
IdMatchesKey == \A id \in Ids : resources[id] # NoDoc => idOf(resources[id]) = id

\* The same for the documents still to be written: IdMatchesKey depends on it.
PendingIdMatches == \A c \in Clients : job[c] # NoJob => idOf(job[c].doc) = job[c].id

\* Every answer is right at the instant of the request's last statement, and
\* no PUT or PATCH brings a deleted resource back (README.md:253-257).
Promise == INSTANCE ResourceStore WITH store <- resources
AnswersAtomic == Promise!Spec

\* c's UPDATE takes effect, and nobody changed the row since c read it.
Undisturbed(c, op) == /\ job[c] # NoJob
                      /\ job[c].op = op
                      /\ ~overlapped[c]
                      /\ Write(c)
                      /\ answer'.status = 200

PatchKeeps(c) ==
  LET old == resources[job[c].id]
      new == resources'[job[c].id]
  IN  /\ \A p \in DOMAIN old :
           (\A q \in DOMAIN job[c].body : ~Prefix(p, q) /\ ~Prefix(q, p))
           => p \in DOMAIN new /\ new[p] = old[p]
      /\ \A q \in DOMAIN job[c].body :
           q[1] # "id" => q \in DOMAIN new /\ new[q] = job[c].body[q]

\* A PATCH nobody overlapped loses no field it does not name, nested ones
\* included, and stores every field it names ("deep-merges",
\* internal/generator/stateful.go:177-178).
PatchKeepsTheRest ==
  [][\A c \in Clients : Undisturbed(c, "patch") => PatchKeeps(c)]_vars

\* A PUT nobody overlapped that names no id keeps the id and its JSON type
\* (internal/generator/stateful.go:138-139).
PutKeepsIdType ==
  [][\A c \in Clients : Undisturbed(c, "put") /\ ~HasId(job[c].body) =>
       resources'[job[c].id][IdPath] = resources[job[c].id][IdPath]]_vars
=============================================================================
