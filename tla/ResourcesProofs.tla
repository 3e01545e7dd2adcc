---------------------------- MODULE ResourcesProofs ----------------------------
(***************************************************************************)
(* Proofs about Resources, for every set of clients, ids and documents.    *)
(*                                                                         *)
(* That a stored document carries the id it is stored under is not         *)
(* inductive alone: a PUT or PATCH writes what it computed from an earlier *)
(* row.  IInv adds the same for the documents still to be written, which   *)
(* holds since an update never leaves the id it read the row under.  With  *)
(* it every step is shown to be a step of ResourceStore.  Current adds     *)
(* that the document of an update nobody overlapped is still the one its   *)
(* row asks for: what PATCH and PUT keep follows from it.                  *)
(***************************************************************************)
EXTENDS Resources, TLAPS

IInv == TypeOK /\ IdMatchesKey /\ PendingIdMatches

-----------------------------------------------------------------------------
(* Documents.                                                              *)

LEMMA DocFacts ==
  ASSUME NEW d \in Docs
  PROVE  /\ d = [p \in DOMAIN d |-> d[p]]
         /\ DOMAIN d \subseteq Paths
         /\ \A p \in DOMAIN d : d[p] \in Leaves
         /\ \A p, q \in DOMAIN d : Prefix(p, q) => p = q
<1>1. PICK S \in SUBSET Paths : d \in [S -> Leaves]
  BY DEF Docs
<1> QED
  BY <1>1 DEF Docs

LEMMA IsDoc ==
  ASSUME NEW S \in SUBSET Paths, NEW d \in [S -> Leaves],
         \A p, q \in S : Prefix(p, q) => p = q
  PROVE  d \in Docs
<1>1. DOMAIN d = S
  OBVIOUS
<1> QED
  BY <1>1 DEF Docs

LEMMA EmptyDoc == <<>> \in Docs
<1>1. <<>> \in [{} -> Leaves]
  OBVIOUS
<1> QED
  BY <1>1, IsDoc

\* A merge of two objects is an object with every leaf of the second one.
LEMMA MergeDocs ==
  ASSUME NEW d \in Docs, NEW s \in Docs
  PROVE  /\ mergeObjects(d, s) \in Docs
         /\ \A p \in DOMAIN s : /\ p \in DOMAIN mergeObjects(d, s)
                                /\ mergeObjects(d, s)[p] = s[p]
<1> DEFINE kept == {p \in DOMAIN d : \A q \in DOMAIN s : ~Prefix(p, q) /\ ~Prefix(q, p)}
           m == mergeObjects(d, s)
<1>1. m = [p \in kept \cup DOMAIN s |-> IF p \in DOMAIN s THEN s[p] ELSE d[p]]
  BY DEF mergeObjects
<1>2. kept \cup DOMAIN s \in SUBSET Paths
  BY DocFacts
<1>3. m \in [kept \cup DOMAIN s -> Leaves]
  BY <1>1, DocFacts
<1>4. \A p, q \in kept \cup DOMAIN s : Prefix(p, q) => p = q
  BY DocFacts
<1>5. m \in Docs
  BY <1>2, <1>3, <1>4, IsDoc
<1> QED
  BY <1>1, <1>5

\* The object with nothing but an id.
LEMMA IdDoc ==
  ASSUME NEW leaf \in Leaves
  PROVE  [p \in {IdPath} |-> leaf] \in Docs
<1>1. {IdPath} \in SUBSET Paths
  BY PathAssumption
<1> QED
  BY <1>1, IsDoc

\* Setting the id of a document yields a document with that id.
LEMMA SetIdDoc ==
  ASSUME NEW d \in Docs, NEW leaf \in Leaves
  PROVE  /\ SetId(d, leaf) \in Docs
         /\ IdPath \in DOMAIN SetId(d, leaf)
         /\ SetId(d, leaf)[IdPath] = leaf
<1> DEFINE idDoc == [p \in {IdPath} |-> leaf]
<1>1. idDoc \in Docs /\ IdPath \in DOMAIN idDoc /\ idDoc[IdPath] = leaf
  BY IdDoc
<1>2. SetId(d, leaf) = mergeObjects(d, idDoc)
  BY DEF SetId
<1> HIDE DEF idDoc
<1> QED
  BY <1>1, <1>2, MergeDocs

LEMMA SetIdNames ==
  ASSUME NEW d \in Docs, NEW id \in Ids
  PROVE  /\ SetId(d, <<"string", id>>) \in Docs
         /\ idOf(SetId(d, <<"string", id>>)) = id
<1>1. <<"string", id>> \in Leaves
  BY IdAssumption
<1> QED
  BY <1>1, SetIdDoc DEF idOf

LEMMA EnsureIDNames ==
  ASSUME NEW d \in Docs, NEW id \in Ids
  PROVE  ensureID(d, id) \in Docs /\ idOf(ensureID(d, id)) = id
BY SetIdNames DEF ensureID

LEMMA ReplacementNames ==
  ASSUME NEW current \in Docs, NEW body \in Docs, NEW id \in Ids, idOf(current) = id
  PROVE  Replacement(current, body, id) \in Docs /\ idOf(Replacement(current, body, id)) = id
<1>1. CASE HasId(body)
  BY <1>1, EnsureIDNames DEF Replacement
<1>2. CASE ~HasId(body) /\ IdPath \in DOMAIN current
  <2>1. current[IdPath] \in Leaves
    BY <1>2, DocFacts
  <2>2. current[IdPath][1] \in {"string", "number"} /\ current[IdPath][2] = id
    BY <1>2, IdAssumption DEF idOf
  <2>3. Replacement(current, body, id) = SetId(body, current[IdPath])
    BY <1>2 DEF Replacement
  <2> QED
    BY <2>1, <2>2, <2>3, SetIdDoc DEF idOf
<1>3. CASE ~HasId(body) /\ IdPath \notin DOMAIN current
  BY <1>3, SetIdNames DEF Replacement
<1> QED
  BY <1>1, <1>2, <1>3

LEMMA PatchedNames ==
  ASSUME NEW current \in Docs, NEW body \in Docs, NEW id \in Ids
  PROVE  Patched(current, body, id) \in Docs /\ idOf(Patched(current, body, id)) = id
BY MergeDocs, EnsureIDNames DEF Patched

\* What a POST stores is a document with the id it is stored under.
LEMMA CreatedNames ==
  ASSUME NEW pathId \in PathIds \cup {NoId}, NEW body \in Bodies \cup {NoDoc},
         NEW new \in Created(pathId, body)
  PROVE  new.id \in Ids /\ new.doc \in Docs /\ idOf(new.doc) = new.id
<1> DEFINE data == IF body = NoDoc THEN <<>> ELSE body
           fresh == IF pathId = NoId /\ idOf(data) = NoId THEN Uuids \ issued ELSE {}
           id == IF pathId # NoId THEN pathId ELSE idOf(data)
<1>1. data \in Docs
  BY EmptyDoc, BodyAssumption
<1>2. CASE fresh # {}
  <2>1. PICK u \in fresh : new = [id |-> u, doc |-> SetId(data, <<"string", u>>)]
    BY <1>2 DEF Created
  <2>2. u \in Ids
    BY DEF Ids
  <2> QED
    BY <1>1, <2>1, <2>2, SetIdNames
<1>3. CASE fresh = {}
  <2>1. PICK i \in {id} \cap PathIds :
          new = [id |-> i, doc |-> IF pathId # NoId THEN SetId(data, <<"string", i>>) ELSE data]
    BY <1>3 DEF Created
  <2>2. i \in Ids
    BY DEF Ids
  <2> QED
    BY <1>1, <2>1, <2>2, SetIdNames
<1> QED
  BY <1>2, <1>3

-----------------------------------------------------------------------------
(* Every step keeps IInv, and is a step of ResourceStore.                  *)

\* What there is to prove of a step, under one name.
Kept == IInv' /\ [Promise!Next]_<<resources, answer>>

\* Storing a document under the id it carries keeps what is said of the rows.
LEMMA StoreKeeps ==
  ASSUME IInv, NEW id \in Ids, NEW doc \in Docs \cup {NoDoc},
         doc # NoDoc => idOf(doc) = id,
         Store(id, doc)
  PROVE  /\ resources' \in [Ids -> Docs \cup {NoDoc}]
         /\ overlapped' \in [Clients -> BOOLEAN]
         /\ IdMatchesKey'
<1>1. resources' = [resources EXCEPT ![id] = doc]
  BY DEF Store
<1>2. overlapped' \in [Clients -> BOOLEAN]
  BY DEF Store, IInv, TypeOK
<1>3. IdMatchesKey'
  BY <1>1 DEF IInv, TypeOK, IdMatchesKey
<1> QED
  BY <1>1, <1>2, <1>3 DEF IInv, TypeOK

\* A client that leaves its update takes nothing of the others with it.
LEMMA LeaveKeeps ==
  ASSUME IInv, NEW c \in Clients, Leave(c)
  PROVE  job' \in [Clients -> Job \cup {NoJob}] /\ PendingIdMatches'
BY DEF IInv, TypeOK, Leave, PendingIdMatches

LEMMA CreateKeeps ==
  ASSUME IInv, NEW c \in Clients, Create(c)
  PROVE  Kept
<1>1. PICK pathId \in PathIds \cup {NoId}, body \in Bodies \cup {NoDoc} :
        \E new \in Created(pathId, body) :
          \/ /\ resources[new.id] = NoDoc
             /\ UNCHANGED job
             /\ Store(new.id, new.doc)
             /\ issued' = issued \cup ({new.id} \cap Uuids)
             /\ Answer(new.id, 201, new.doc)
          \/ /\ resources[new.id] # NoDoc
             /\ Answer(new.id, 409, NoDoc)
             /\ UNCHANGED <<resources, job, issued, overlapped>>
  BY DEF Create
<1>2. PICK new \in Created(pathId, body) :
          \/ /\ resources[new.id] = NoDoc
             /\ UNCHANGED job
             /\ Store(new.id, new.doc)
             /\ issued' = issued \cup ({new.id} \cap Uuids)
             /\ Answer(new.id, 201, new.doc)
          \/ /\ resources[new.id] # NoDoc
             /\ Answer(new.id, 409, NoDoc)
             /\ UNCHANGED <<resources, job, issued, overlapped>>
  BY <1>1
<1>3. new.id \in Ids /\ new.doc \in Docs /\ idOf(new.doc) = new.id
  BY CreatedNames
<1>4. CASE /\ resources[new.id] = NoDoc
           /\ UNCHANGED job
           /\ Store(new.id, new.doc)
           /\ issued' = issued \cup ({new.id} \cap Uuids)
           /\ Answer(new.id, 201, new.doc)
  <2>1. IInv'
    BY <1>3, <1>4, StoreKeeps DEF IInv, TypeOK, PendingIdMatches
  <2>2. Promise!Post(new.id)
    BY <1>3, <1>4 DEF Store, Answer, Promise!Post, Promise!Present,
                      Promise!Stored, Promise!Answered
  <2> QED
    BY <1>3, <2>1, <2>2 DEF Kept, Promise!Next
<1>5. CASE /\ resources[new.id] # NoDoc
           /\ Answer(new.id, 409, NoDoc)
           /\ UNCHANGED <<resources, job, issued, overlapped>>
  <2>1. IInv'
    BY <1>5 DEF IInv, TypeOK, IdMatchesKey, PendingIdMatches
  <2>2. Promise!Post(new.id)
    BY <1>5 DEF Answer, Promise!Post, Promise!Present, Promise!Answered
  <2> QED
    BY <1>3, <2>1, <2>2 DEF Kept, Promise!Next
<1> QED
  BY <1>2, <1>4, <1>5

LEMMA GetKeeps ==
  ASSUME IInv, NEW c \in Clients, NEW id \in PathIds, Get(c, id)
  PROVE  Kept
<1>1. IInv'
  BY DEF Get, NoWrite, IInv, TypeOK, IdMatchesKey, PendingIdMatches
<1>2. Promise!Get(id) \/ Promise!Refuse(id)
  BY DEF Get, NoWrite, Answer, Promise!Get, Promise!Refuse, Promise!Present,
         Promise!Answered
<1> QED
  BY <1>1, <1>2 DEF Kept, Promise!Next, Ids

LEMMA DeleteKeeps ==
  ASSUME IInv, NEW c \in Clients, NEW id \in PathIds, Delete(c, id)
  PROVE  Kept
<1>1. id \in Ids
  BY DEF Ids
<1>2. CASE resources[id] = NoDoc
  <2>1. IInv'
    BY <1>2 DEF Delete, IInv, TypeOK, IdMatchesKey, PendingIdMatches
  <2>2. Promise!Refuse(id)
    BY <1>2 DEF Delete, Answer, Promise!Refuse, Promise!Present, Promise!Answered
  <2> QED
    BY <1>1, <2>1, <2>2 DEF Kept, Promise!Next
<1>3. CASE resources[id] # NoDoc
  <2>1. Store(id, NoDoc) /\ UNCHANGED <<job, issued>> /\ Answer(id, 204, NoDoc)
    BY <1>3 DEF Delete
  <2>2. IInv'
    BY <1>1, <2>1, StoreKeeps DEF IInv, TypeOK, PendingIdMatches
  <2>3. Promise!Remove(id)
    BY <1>3, <2>1 DEF Store, Answer, Promise!Remove, Promise!Present, Promise!Answered
  <2> QED
    BY <1>1, <2>2, <2>3 DEF Kept, Promise!Next
<1> QED
  BY <1>2, <1>3

\* Reading for an update leaves a document to write that carries its id.
LEMMA ReadKeeps ==
  ASSUME IInv, NEW c \in Clients, NEW op \in {"put", "patch"}, NEW id \in PathIds,
         NEW body \in Docs \cup {NoDoc}, Read(c, op, id, body)
  PROVE  Kept
<1>1. id \in Ids
  BY DEF Ids
<1>2. CASE UNCHANGED <<resources, issued, job, overlapped>>
           /\ (\/ resources[id] = NoDoc /\ Answer(id, 404, NoDoc)
               \/ resources[id] # NoDoc /\ Answer(id, 400, NoDoc))
  <2>1. IInv'
    BY <1>2 DEF IInv, TypeOK, IdMatchesKey, PendingIdMatches
  <2>2. Promise!Refuse(id)
    BY <1>2 DEF Answer, Promise!Refuse, Promise!Present, Promise!Answered
  <2> QED
    BY <1>1, <2>1, <2>2 DEF Kept, Promise!Next
<1>3. CASE /\ resources[id] # NoDoc
           /\ body # NoDoc
           /\ job' = [job EXCEPT ![c] =
                [op |-> op, id |-> id, body |-> body,
                 doc |-> IF op = "put" THEN Replacement(resources[id], body, id)
                                       ELSE Patched(resources[id], body, id)]]
           /\ overlapped' = [overlapped EXCEPT ![c] = FALSE]
           /\ UNCHANGED <<resources, issued, answer>>
  <2> DEFINE doc == IF op = "put" THEN Replacement(resources[id], body, id)
                                  ELSE Patched(resources[id], body, id)
             new == [op |-> op, id |-> id, body |-> body, doc |-> doc]
  <2>1. resources[id] \in Docs /\ idOf(resources[id]) = id
    BY <1>1, <1>3 DEF IInv, TypeOK, IdMatchesKey
  <2>2. doc \in Docs /\ idOf(doc) = id
    BY <1>1, <1>3, <2>1, ReplacementNames, PatchedNames
  <2>3. job' = [job EXCEPT ![c] = new]
    BY <1>3
  <2> HIDE DEF doc
  <2>4. new \in Job
    BY <1>3, <2>2 DEF Job
  <2>5. TypeOK'
    BY <1>3, <2>3, <2>4 DEF IInv, TypeOK
  <2>6. PendingIdMatches'
    BY <2>2, <2>3 DEF IInv, TypeOK, PendingIdMatches
  <2>7. IdMatchesKey'
    BY <1>3 DEF IInv, IdMatchesKey
  <2> QED
    BY <1>3, <2>5, <2>6, <2>7 DEF Kept, IInv
<1> QED
  BY <1>2, <1>3 DEF Read, NoWrite

LEMMA WriteKeeps ==
  ASSUME IInv, NEW c \in Clients, Write(c)
  PROVE  Kept
<1> DEFINE id == job[c].id
           doc == job[c].doc
<1>1. job[c] \in Job /\ idOf(doc) = id
  BY DEF Write, Idle, IInv, TypeOK, PendingIdMatches
<1>2. id \in Ids /\ doc \in Docs /\ job[c].op \in {"put", "patch"}
  BY <1>1 DEF Job, Ids
<1>3. job' \in [Clients -> Job \cup {NoJob}] /\ PendingIdMatches'
  BY LeaveKeeps DEF Write
<1>4. CASE resources[id] # NoDoc /\ Store(id, doc) /\ Answer(id, 200, doc)
  <2>1. IInv'
    BY <1>1, <1>2, <1>3, <1>4, StoreKeeps DEF Write, IInv, TypeOK
  <2>2. Promise!Replace(id)
    BY <1>2, <1>4 DEF Store, Answer, Promise!Replace, Promise!Present,
                      Promise!Stored, Promise!Answered
  <2> QED
    BY <1>2, <2>1, <2>2 DEF Kept, Promise!Next
<1>5. CASE /\ resources[id] = NoDoc
           /\ Answer(id, IF job[c].op = "put" THEN 404 ELSE 500, NoDoc)
           /\ UNCHANGED <<resources, overlapped>>
  <2>1. IInv'
    BY <1>3, <1>5 DEF Write, IInv, TypeOK, IdMatchesKey
  <2>2. Promise!Refuse(id)
    BY <1>2, <1>5 DEF Answer, Promise!Refuse, Promise!Present, Promise!Answered
  <2> QED
    BY <1>2, <2>1, <2>2 DEF Kept, Promise!Next
<1> QED
  BY <1>4, <1>5 DEF Write

LEMMA FailKeeps ==
  ASSUME IInv, NEW c \in Clients, NEW id \in PathIds, FailStatement(c, id)
  PROVE  Kept
<1>1. IInv'
  BY LeaveKeeps DEF FailStatement, NoWrite, IInv, TypeOK, IdMatchesKey
<1>2. Promise!Refuse(id)
  BY DEF FailStatement, NoWrite, Answer, Promise!Refuse, Promise!Answered
<1> QED
  BY <1>1, <1>2 DEF Kept, Promise!Next, Ids

\* A stop of the process is no step of the store.
LEMMA CrashKeeps ==
  ASSUME IInv, Crash
  PROVE  Kept
<1>1. IInv'
  BY DEF Crash, IInv, TypeOK, IdMatchesKey, PendingIdMatches
<1> QED
  BY <1>1 DEF Crash, Kept

LEMMA InitIInv == Init => IInv /\ Promise!Init
BY DEF Init, IInv, TypeOK, IdMatchesKey, PendingIdMatches, Promise!Init

LEMMA NextKeeps ==
  ASSUME IInv, [Next]_vars
  PROVE  Kept
<1>1. ASSUME NEW c \in Clients, Create(c) PROVE Kept
  BY <1>1, CreateKeeps
<1>2. ASSUME NEW c \in Clients, ReadForPut(c) PROVE Kept
  BY <1>2, ReadKeeps, BodyAssumption DEF ReadForPut
<1>3. ASSUME NEW c \in Clients, ReadForPatch(c) PROVE Kept
  <2>1. PICK id \in PathIds, body \in Bodies \cup {NoDoc, NullBody} :
          Read(c, "patch", id, IF body = NullBody THEN <<>> ELSE body)
    BY <1>3 DEF ReadForPatch
  <2>2. (IF body = NullBody THEN <<>> ELSE body) \in Docs \cup {NoDoc}
    BY EmptyDoc, BodyAssumption
  <2> QED
    BY <2>1, <2>2, ReadKeeps
<1>4. ASSUME NEW c \in Clients, Write(c) PROVE Kept
  BY <1>4, WriteKeeps
<1>5. ASSUME NEW c \in Clients, NEW id \in PathIds,
             Get(c, id) \/ Delete(c, id) \/ FailStatement(c, id)
      PROVE  Kept
  BY <1>5, GetKeeps, DeleteKeeps, FailKeeps
<1>6. CASE Crash
  BY <1>6, CrashKeeps
<1>7. CASE UNCHANGED vars
  BY <1>7 DEF vars, Kept, IInv, TypeOK, IdMatchesKey, PendingIdMatches
<1> QED
  BY <1>1, <1>2, <1>3, <1>4, <1>5, <1>6, <1>7 DEF Next

LEMMA Invariance == Spec => []IInv
<1>1. Init => IInv
  BY InitIInv
<1>2. IInv /\ [Next]_vars => IInv'
  BY NextKeeps DEF Kept
<1> QED
  BY <1>1, <1>2, PTL DEF Spec

-----------------------------------------------------------------------------
\* Rows, pending updates and histories have their types: in particular every
\* document computed from a body and a row is again an object without two
\* values under one key.
THEOREM TypeCorrect == Spec => []TypeOK
<1>1. IInv => TypeOK
  BY DEF IInv
<1> QED
  BY <1>1, Invariance, PTL

\* A stored document carries the id it is stored under, for any clients and
\* bodies in any order, lost updates included: a lookup by id finds the
\* resource that says it has that id (internal/generator/stateful.go:137-139).
THEOREM IdsMatchKeys == Spec => []IdMatchesKey
<1>1. IInv => IdMatchesKey
  BY DEF IInv
<1> QED
  BY <1>1, Invariance, PTL

\* The document a PUT or PATCH is about to write carries the id it read its
\* row under: what IdsMatchKeys rests on, since the row may be another one by
\* the time of the UPDATE (internal/generator/stateful.go:147-206).
THEOREM PendingIdsMatch == Spec => []PendingIdMatches
<1>1. IInv => PendingIdMatches
  BY DEF IInv
<1> QED
  BY <1>1, Invariance, PTL

\* Stateful endpoints implement the store they promise: every answer is right
\* at one instant of the request, what is answered is what is stored, and an
\* update never brings back a resource deleted since it was read
\* (README.md:253-257; internal/state/state.go).
THEOREM ImplementsStore == Spec => AnswersAtomic
<1>1. Init => Promise!Init
  BY InitIInv
<1>2. IInv /\ [Next]_vars => [Promise!Next]_<<resources, answer>>
  BY NextKeeps DEF Kept
<1> QED
  BY <1>1, <1>2, Invariance, PTL DEF Spec, AnswersAtomic, Promise!Spec
-----------------------------------------------------------------------------
(* Updates nobody overlapped.                                              *)

\* What an update that reads this row now would write.
Update(op, current, body, id) ==
  IF op = "put" THEN Replacement(current, body, id) ELSE Patched(current, body, id)

Current ==
  \A c \in Clients : job[c] # NoJob /\ ~overlapped[c] =>
    /\ resources[job[c].id] # NoDoc
    /\ job[c].doc = Update(job[c].op, resources[job[c].id], job[c].body, job[c].id)

\* A row that changes is noticed by whoever is about to write it.
LEMMA StoreNoticed ==
  ASSUME TypeOK, Current, NEW id \in Ids, NEW doc, Store(id, doc),
         \A c \in Clients : job'[c] \in {job[c], NoJob}
  PROVE  Current'
<1> SUFFICES ASSUME NEW c \in Clients, job'[c] # NoJob, ~overlapped'[c]
             PROVE  /\ resources'[job'[c].id] # NoDoc
                    /\ job'[c].doc = Update(job'[c].op, resources'[job'[c].id],
                                            job'[c].body, job'[c].id)
  BY DEF Current
<1>1. job'[c] = job[c] /\ job[c] # NoJob
  OBVIOUS
<1>2. overlapped'[c] = (overlapped[c] \/ (job[c] # NoJob /\ job'[c] # NoJob /\ job[c].id = id))
  BY DEF Store
<1>3. ~overlapped[c] /\ job[c].id # id
  BY <1>1, <1>2
<1>4. resources'[job[c].id] = resources[job[c].id]
  BY <1>3 DEF Store, TypeOK
<1> QED
  BY <1>1, <1>3, <1>4 DEF Current

\* A step that leaves the rows alone adds nothing but what was just read.
LEMMA CurrentKept ==
  ASSUME IInv, Current, [Next]_vars
  PROVE  Current'
<1>1. ASSUME UNCHANGED <<resources, overlapped>>,
             \A c \in Clients : job'[c] \in {job[c], NoJob}
      PROVE  Current'
  BY <1>1 DEF Current
<1>2. ASSUME NEW c \in Clients, Create(c)
      PROVE  Current'
  <2>1. PICK pathId \in PathIds \cup {NoId}, body \in Bodies \cup {NoDoc} :
          \E new \in Created(pathId, body) :
            /\ UNCHANGED job
            /\ Store(new.id, new.doc) \/ UNCHANGED <<resources, overlapped>>
    BY <1>2 DEF Create
  <2>2. PICK new \in Created(pathId, body) :
            /\ UNCHANGED job
            /\ Store(new.id, new.doc) \/ UNCHANGED <<resources, overlapped>>
    BY <2>1
  <2>3. new.id \in Ids
    BY CreatedNames
  <2> QED
    BY <1>1, <2>2, <2>3, StoreNoticed DEF IInv
<1>3. ASSUME NEW c \in Clients, NEW op \in {"put", "patch"}, NEW id \in PathIds,
             NEW body \in Docs \cup {NoDoc}, Read(c, op, id, body)
      PROVE  Current'
  <2>1. CASE UNCHANGED <<resources, job, overlapped>>
    BY <1>1, <2>1
  <2>2. CASE /\ resources[id] # NoDoc
             /\ UNCHANGED resources
             /\ job' = [job EXCEPT ![c] =
                  [op |-> op, id |-> id, body |-> body,
                   doc |-> IF op = "put" THEN Replacement(resources[id], body, id)
                                         ELSE Patched(resources[id], body, id)]]
             /\ overlapped' = [overlapped EXCEPT ![c] = FALSE]
    <3> DEFINE new == [op |-> op, id |-> id, body |-> body,
                       doc |-> Update(op, resources[id], body, id)]
    <3>1. job' = [job EXCEPT ![c] = new]
      BY <2>2 DEF Update
    <3>2. /\ new.id = id /\ new.op = op /\ new.body = body
          /\ new.doc = Update(op, resources[id], body, id)
      OBVIOUS
    <3> HIDE DEF new
    <3>3. \A o \in Clients \ {c} : job'[o] = job[o] /\ overlapped'[o] = overlapped[o]
      BY <2>2, <3>1 DEF IInv, TypeOK
    <3>4. job'[c] = new
      BY <3>1 DEF IInv, TypeOK
    <3> QED
      BY <2>2, <3>2, <3>3, <3>4 DEF Current
  <2> QED
    BY <1>3, <2>1, <2>2 DEF Read, NoWrite
<1>4. ASSUME NEW c \in Clients, ReadForPut(c) \/ ReadForPatch(c)
      PROVE  Current'
  <2>1. CASE ReadForPut(c)
    BY <1>3, <2>1, BodyAssumption DEF ReadForPut
  <2>2. CASE ReadForPatch(c)
    <3>1. PICK id \in PathIds, body \in Bodies \cup {NoDoc, NullBody} :
            Read(c, "patch", id, IF body = NullBody THEN <<>> ELSE body)
      BY <2>2 DEF ReadForPatch
    <3>2. (IF body = NullBody THEN <<>> ELSE body) \in Docs \cup {NoDoc}
      BY EmptyDoc, BodyAssumption
    <3> QED
      BY <1>3, <3>1, <3>2
  <2> QED
    BY <1>4, <2>1, <2>2
<1>5. ASSUME NEW c \in Clients, Write(c)
      PROVE  Current'
  <2>1. \A o \in Clients : job'[o] \in {job[o], NoJob}
    BY <1>5 DEF Write, Leave, IInv, TypeOK
  <2>2. job[c].id \in Ids
    BY <1>5 DEF Write, Idle, IInv, TypeOK, Job, Ids
  <2>3. Store(job[c].id, job[c].doc) \/ UNCHANGED <<resources, overlapped>>
    BY <1>5 DEF Write
  <2> QED
    BY <1>1, <2>1, <2>2, <2>3, StoreNoticed DEF IInv
<1>6. ASSUME NEW c \in Clients, NEW id \in PathIds,
             Get(c, id) \/ Delete(c, id) \/ FailStatement(c, id)
      PROVE  Current'
  <2>1. \A o \in Clients : job'[o] \in {job[o], NoJob}
    BY <1>6 DEF Get, Delete, FailStatement, Leave, IInv, TypeOK
  <2>2. Store(id, NoDoc) \/ UNCHANGED <<resources, overlapped>>
    BY <1>6 DEF Get, Delete, FailStatement, NoWrite
  <2> QED
    BY <1>1, <2>1, <2>2, StoreNoticed DEF IInv, Ids
<1>7. CASE Crash
  BY <1>1, <1>7 DEF Crash
<1>8. CASE UNCHANGED vars
  BY <1>1, <1>8 DEF vars
<1> QED
  BY <1>2, <1>4, <1>5, <1>6, <1>7, <1>8 DEF Next

LEMMA CurrentAlways == Spec => []Current
<1>1. Init => Current
  BY DEF Init, Current
<1>2. IInv /\ Current /\ [Next]_vars => Current'
  BY CurrentKept
<1> QED
  BY <1>1, <1>2, Invariance, PTL DEF Spec

\* A document with an id has no other leaf at, above or below it.
LEMMA IdAlone ==
  ASSUME NEW d \in Docs, IdPath \in DOMAIN d, NEW p \in DOMAIN d, p # IdPath
  PROVE  ~Prefix(p, IdPath) /\ ~Prefix(IdPath, p)
BY DocFacts

\* What a patch keeps and what it sets.
LEMMA PatchedKeeps ==
  ASSUME NEW current \in Docs, NEW body \in Docs, NEW id \in Ids, idOf(current) = id
  PROVE  LET new == Patched(current, body, id)
         IN  /\ \A p \in DOMAIN current :
                  (\A q \in DOMAIN body : ~Prefix(p, q) /\ ~Prefix(q, p))
                  => p \in DOMAIN new /\ new[p] = current[p]
             /\ \A q \in DOMAIN body :
                  q[1] # "id" => q \in DOMAIN new /\ new[q] = body[q]
<1> DEFINE merged == mergeObjects(current, body)
           new == Patched(current, body, id)
           idDoc == [p \in {IdPath} |-> <<"string", id>>]
<1>1. IdPath \in DOMAIN current
  BY IdAssumption DEF idOf
<1>2. ASSUME NEW p \in DOMAIN current, \A q \in DOMAIN body : ~Prefix(p, q) /\ ~Prefix(q, p)
      PROVE  p \in DOMAIN merged /\ merged[p] = current[p]
  <2>1. p \notin DOMAIN body
    <3>1. p \in Seq(STRING)
      BY DocFacts, PathAssumption
    <3>2. Prefix(p, p)
      BY <3>1 DEF Prefix
    <3> QED
      BY <1>2, <3>2
  <2> QED
    BY <1>2, <2>1 DEF mergeObjects
<1>3. \A q \in DOMAIN body : q \in DOMAIN merged /\ merged[q] = body[q]
  BY MergeDocs
<1>4. CASE idOf(merged) = id
  <2>1. new = merged
    BY <1>4 DEF Patched, ensureID
  <2> QED
    BY <1>2, <1>3, <2>1
<1>5. CASE idOf(merged) # id
  <2>1. new = mergeObjects(merged, idDoc)
    BY <1>5 DEF Patched, ensureID, SetId
  <2>2. ASSUME NEW p \in DOMAIN merged, ~Prefix(p, IdPath), ~Prefix(IdPath, p)
        PROVE  p \in DOMAIN new /\ new[p] = merged[p]
    <3>1. DOMAIN idDoc = {IdPath}
      OBVIOUS
    <3>2. p # IdPath
      BY <2>2, PathAssumption DEF Prefix
    <3> HIDE DEF merged, new, idDoc
    <3> QED
      BY <2>1, <2>2, <3>1, <3>2 DEF mergeObjects
  <2>3. ASSUME NEW p \in DOMAIN current, \A q \in DOMAIN body : ~Prefix(p, q) /\ ~Prefix(q, p)
        PROVE  p \in DOMAIN new /\ new[p] = current[p]
    <3>1. p # IdPath
      <4>1. SUFFICES ASSUME p = IdPath PROVE FALSE
        OBVIOUS
      <4>2. IdPath \in DOMAIN merged /\ merged[IdPath] = current[IdPath]
        BY <1>2, <2>3, <4>1
      <4>3. idOf(merged) = idOf(current)
        BY <1>1, <4>2 DEF idOf
      <4> QED
        BY <1>5, <4>3
    <3>2. ~Prefix(p, IdPath) /\ ~Prefix(IdPath, p)
      BY <1>1, <3>1, IdAlone
    <3> QED
      BY <1>2, <2>2, <2>3, <3>2
  <2>4. ASSUME NEW q \in DOMAIN body, q[1] # "id"
        PROVE  q \in DOMAIN new /\ new[q] = body[q]
    <3>1. q \in Seq(STRING) /\ q # <<>>
      BY DocFacts, PathAssumption
    <3>2. Len(q) \in Nat /\ Len(q) >= 1
      BY <3>1
    <3>3. Len(IdPath) = 1 /\ IdPath[1] = "id"
      BY DEF IdPath
    <3>4. ~Prefix(q, IdPath) /\ ~Prefix(IdPath, q)
      BY <2>4, <3>2, <3>3 DEF Prefix
    <3> QED
      BY <1>3, <2>2, <3>4
  <2> QED
    BY <2>3, <2>4
<1> QED
  BY <1>4, <1>5

\* A PUT without an id takes the id of the row, with its JSON type.
LEMMA ReplacementKeeps ==
  ASSUME NEW current \in Docs, NEW body \in Docs, NEW id \in Ids, idOf(current) = id,
         ~HasId(body)
  PROVE  Replacement(current, body, id)[IdPath] = current[IdPath]
<1>1. IdPath \in DOMAIN current /\ current[IdPath] \in Leaves
  BY IdAssumption, DocFacts DEF idOf
<1>2. Replacement(current, body, id) = SetId(body, current[IdPath])
  BY <1>1 DEF Replacement
<1> QED
  BY <1>1, <1>2, SetIdDoc

\* What a write that succeeds stores, when nobody overlapped it.
LEMMA CurrentWrite ==
  ASSUME IInv, Current, NEW c \in Clients, NEW op, Undisturbed(c, op)
  PROVE  LET id == job[c].id
         IN  /\ id \in Ids /\ job[c].body \in Docs
             /\ resources[id] \in Docs /\ idOf(resources[id]) = id
             /\ resources'[id] = Update(op, resources[id], job[c].body, id)
<1>1. job[c] \in Job /\ job[c].op = op /\ Write(c) /\ answer'.status = 200
  BY DEF Undisturbed, IInv, TypeOK
<1>2. job[c].id \in Ids /\ job[c].body \in Docs
  BY <1>1 DEF Job, Ids
<1>3. Store(job[c].id, job[c].doc)
  BY <1>1 DEF Write, Answer
<1>4. resources'[job[c].id] = job[c].doc
  BY <1>2, <1>3 DEF Store, IInv, TypeOK
<1>5. /\ resources[job[c].id] # NoDoc
      /\ job[c].doc = Update(op, resources[job[c].id], job[c].body, job[c].id)
  BY <1>1 DEF Current, Undisturbed
<1> QED
  BY <1>2, <1>4, <1>5 DEF IInv, TypeOK, IdMatchesKey

\* A PATCH nobody overlapped keeps every field it does not name, at any depth,
\* and stores every field it names (internal/generator/stateful.go:177-206),
\* for all documents.
THEOREM PatchesKeep == Spec => PatchKeepsTheRest
<1>1. ASSUME IInv, Current, NEW c \in Clients, Undisturbed(c, "patch")
      PROVE  PatchKeeps(c)
  <2>1. /\ job[c].id \in Ids /\ job[c].body \in Docs
        /\ resources[job[c].id] \in Docs /\ idOf(resources[job[c].id]) = job[c].id
    BY <1>1, CurrentWrite
  <2>2. resources'[job[c].id] = Patched(resources[job[c].id], job[c].body, job[c].id)
    BY <1>1, CurrentWrite DEF Update
  <2> QED
    BY <2>1, <2>2, PatchedKeeps DEF PatchKeeps
<1>2. IInv /\ Current =>
        [\A c \in Clients : Undisturbed(c, "patch") => PatchKeeps(c)]_vars
  BY <1>1
<1> QED
  BY <1>2, Invariance, CurrentAlways, PTL DEF PatchKeepsTheRest

\* A PUT nobody overlapped that names no id keeps the id of the resource and
\* its JSON type (internal/generator/stateful.go:138-139), for all documents.
THEOREM PutsKeepIdType == Spec => PutKeepsIdType
<1>1. ASSUME IInv, Current, NEW c \in Clients, Undisturbed(c, "put"), ~HasId(job[c].body)
      PROVE  resources'[job[c].id][IdPath] = resources[job[c].id][IdPath]
  <2>1. /\ job[c].id \in Ids /\ job[c].body \in Docs
        /\ resources[job[c].id] \in Docs /\ idOf(resources[job[c].id]) = job[c].id
    BY <1>1, CurrentWrite
  <2>2. resources'[job[c].id] = Replacement(resources[job[c].id], job[c].body, job[c].id)
    BY <1>1, CurrentWrite DEF Update
  <2> QED
    BY <1>1, <2>1, <2>2, ReplacementKeeps
<1>2. IInv /\ Current =>
        [\A c \in Clients : Undisturbed(c, "put") /\ ~HasId(job[c].body) =>
           resources'[job[c].id][IdPath] = resources[job[c].id][IdPath]]_vars
  BY <1>1
<1> QED
  BY <1>2, Invariance, CurrentAlways, PTL DEF PutKeepsIdType
=============================================================================
