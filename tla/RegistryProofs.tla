--------------------------- MODULE RegistryProofs ---------------------------
(***************************************************************************)
(* Proofs about Registry, for every set of accounts, endpoints, workers    *)
(* and requests and for every number of faults.                            *)
(*                                                                         *)
(* Neither the types nor the contiguity of the version numbers is          *)
(* inductive alone: that nextVersion returns a number at all needs the     *)
(* maximum of the numbers read, and that the number still fits when the    *)
(* version is inserted needs what the worker read to be a lower bound of   *)
(* what the table holds.  IInv adds the latter for every request in        *)
(* progress (JobInv).                                                      *)
(***************************************************************************)
EXTENDS Registry, FiniteSetTheorems, TLAPS

-----------------------------------------------------------------------------
(* The initial states.                                                     *)

\* An empty database with idle workers satisfies the invariant.
LEMMA InitIInv == Init => IInv
<1> SUFFICES ASSUME Init PROVE IInv
  OBVIOUS
<1> USE DEF Init
<1>1. TypeOK
  BY BoundsAssumption DEF TypeOK, TablesTyped, CacheTyped, JobTyped
<1>2. Live = {}
  BY DEF Live
<1>3. \A id \in Ids : Numbers(id) = 1 .. 0
  BY DEF Numbers
<1>4. HistoryInv
  BY <1>2, <1>3 DEF HistoryInv, VersionsContiguous, UpTo, SnapshotsOwned
<1>5. \A w \in Workers : JobInv(w)
  BY DEF JobInv, Targeted
<1> QED
  BY <1>1, <1>4, <1>5 DEF IInv

-----------------------------------------------------------------------------
(* Steps that change one worker and leave the tables alone.                *)

Alone(w) == /\ pc' = [pc EXCEPT ![w] = pc'[w]]
            /\ job' = [job EXCEPT ![w] = job'[w]]

\* A step that changes only what one worker knows keeps the invariant, if that
\* worker ends up knowing enough.
LEMMA LocalStep ==
  ASSUME IInv, NEW w \in Workers, Alone(w), UNCHANGED tables,
         CacheTyped', faults' \in 0 .. MaxFaults,
         JobTyped(w)', JobInv(w)'
  PROVE  IInv'
<1>1. TablesTyped' /\ HistoryInv'
  BY DEF IInv, TypeOK, tables, TablesTyped, HistoryInv, VersionsContiguous,
         UpTo, Numbers, Live, SnapshotsOwned
<1>2. ASSUME NEW x \in Workers PROVE JobTyped(x)' /\ JobInv(x)'
  <2>1. CASE x = w
    BY <2>1
  <2>2. CASE x # w
    <3>1. pc'[x] = pc[x] /\ job'[x] = job[x]
      BY <2>2 DEF Alone, IInv, TypeOK
    <3> QED
      BY <3>1 DEF IInv, TypeOK, tables, JobTyped, JobInv, Targeted, Live,
                  Numbers
  <2> QED
    BY <2>1, <2>2
<1>3. pc' \in [Workers -> Steps \cup {"idle"}]
  BY <1>2 DEF Alone, IInv, TypeOK, JobTyped
<1>4. job' \in [Workers -> Job \cup {NoJob}]
  BY <1>2 DEF Alone, IInv, TypeOK, JobTyped
<1> QED
  BY <1>1, <1>2, <1>3, <1>4 DEF IInv, TypeOK

\* Answering a request, whatever its outcome, keeps the invariant.
LEMMA FinishStep ==
  ASSUME IInv, NEW w \in Workers, Finish(w), UNCHANGED tables,
         CacheTyped', faults' \in 0 .. MaxFaults
  PROVE  IInv'
<1>1. pc'[w] = "idle" /\ job'[w] = NoJob /\ Alone(w)
  BY DEF Finish, Goto, Alone, IInv, TypeOK
<1>2. JobTyped(w)' /\ JobInv(w)'
  BY <1>1 DEF JobTyped, JobInv, Targeted
<1> QED
  BY <1>1, <1>2, LocalStep

\* Goto(w, ...) concerns worker w only.
LEMMA GotoAlone ==
  ASSUME IInv, NEW w \in Workers, NEW s, NEW j, Goto(w, s, j)
  PROVE  Alone(w) /\ pc'[w] = s /\ job'[w] = j
BY DEF Goto, Alone, IInv, TypeOK

\* The untouched cache and fault count keep their types.
LEMMA Untouched ==
  ASSUME IInv, UNCHANGED <<cache, faults>>
  PROVE  CacheTyped' /\ faults' \in 0 .. MaxFaults
BY DEF IInv, TypeOK, CacheTyped

\* A request merged with an endpoint (Create, Update) is a full snapshot.
LEMMA InputsRequest ==
  ASSUME NEW in \in Input, NEW public \in BOOLEAN
  PROVE  Requested(in, public) \in Snapshot
BY SentinelsAssumption
   DEF Input, Requested, Default, Snapshot, Statuses

\* An imported item becomes a full snapshot (Import).
LEMMA ItemsImport ==
  ASSUME NEW item \in Item PROVE Imported(item) \in Snapshot
BY DEF Item, Imported, Snapshot, Statuses

\* A request starts with typed local variables.
LEMMA NewJobsTyped ==
  ASSUME NEW op \in Ops, NEW a \in Accounts, NEW id \in Ids \cup {NoId},
         NEW before \in Snapshot, NEW cfg \in Snapshot
  PROVE  NewJob(op, a, id, before, cfg) \in Job
BY DEF NewJob, Job, Schemas

-----------------------------------------------------------------------------
(* Requests arrive.                                                        *)

\* A POST that starts keeps the invariant (service.go:112).
LEMMA BeginCreateStep ==
  ASSUME IInv, NEW w \in Workers, NEW a \in Accounts, NEW in \in CreateInputs,
         BeginCreate(w, a, in)
  PROVE  IInv'
<1> DEFINE cfg == Requested(in, TRUE)
           j   == NewJob("create", a, NoId, cfg, cfg)
<1>1. j \in Job
  BY InputsAssumption, InputsRequest, NewJobsTyped DEF Ops
<1>2. Goto(w, "schema", j) /\ UNCHANGED tables /\ UNCHANGED <<cache, faults>>
  BY DEF BeginCreate
<1>3. pc'[w] = "schema" /\ job'[w] = j /\ Alone(w)
  BY <1>2, GotoAlone
<1>4. j.op = "create"
  BY DEF NewJob
<1>5. JobTyped(w)' /\ JobInv(w)'
  BY <1>1, <1>3, <1>4 DEF JobTyped, JobInv, Targeted, Steps
<1> QED
  BY <1>2, <1>3, <1>5, Untouched, LocalStep

\* An import that starts keeps the invariant (service.go:363).
LEMMA BeginImportStep ==
  ASSUME IInv, NEW w \in Workers, NEW a \in Accounts, NEW doc \in ImportDocs,
         BeginImport(w, a, doc)
  PROVE  IInv'
<1> DEFINE first == Imported(Head(doc))
           j0    == NewJob("import", a, NoId, first, first)
           j     == [j0 EXCEPT !.items = doc]
<1>1. doc \in Seq(Item) /\ doc # <<>> /\ Head(doc) \in Item
  BY InputsAssumption
<1>2. j0 \in Job /\ j0.op = "import"
  BY <1>1, ItemsImport, NewJobsTyped DEF Ops, NewJob
<1>3. j \in Job /\ j.op = "import" /\ j.items = doc
  BY <1>1, <1>2 DEF Job
<1>4. Goto(w, "item", j) /\ UNCHANGED tables /\ UNCHANGED <<cache, faults>>
  BY DEF BeginImport
<1>5. pc'[w] = "item" /\ job'[w] = j /\ Alone(w)
  BY <1>4, GotoAlone
<1>6. JobTyped(w)' /\ JobInv(w)'
  BY <1>1, <1>3, <1>5 DEF JobTyped, JobInv, Targeted, Steps
<1> QED
  BY <1>4, <1>5, <1>6, Untouched, LocalStep

\* A request about an endpoint FindByID returned.
LEMMA BeginTargeted ==
  ASSUME IInv, NEW w \in Workers, NEW a \in Accounts, NEW id \in Ids,
         FindByID(a, id),
         NEW op \in {"update", "rollback", "delete"},
         NEW s \in {"list", "erase"}, NEW cfg \in Snapshot,
         Goto(w, s, NewJob(op, a, id, endpoints[id].cfg, cfg)),
         UNCHANGED tables, UNCHANGED <<cache, faults>>
  PROVE  IInv'
<1> DEFINE j == NewJob(op, a, id, endpoints[id].cfg, cfg)
<1>1. id \in Live /\ endpoints[id].owner = a /\ id \in issued
  BY DEF FindByID, IInv, HistoryInv
<1>2. endpoints[id].cfg \in Snapshot
  BY <1>1 DEF IInv, TypeOK, TablesTyped, Row, Live
<1>3. j \in Job
  BY <1>2, NewJobsTyped DEF Ops
<1>4. j.id = id /\ j.owner = a /\ j.next = 1
  BY DEF NewJob
<1>5. pc'[w] = s /\ job'[w] = j /\ Alone(w)
  BY GotoAlone
<1>6. JobTyped(w)'
  BY <1>3, <1>4, <1>5 DEF JobTyped, Steps
<1>7. JobInv(w)'
  BY <1>1, <1>4, <1>5 DEF JobInv, tables, Live
<1> QED
  BY <1>5, <1>6, <1>7, Untouched, LocalStep

\* A PUT that has found its endpoint keeps the invariant (service.go:151).
LEMMA BeginUpdateStep ==
  ASSUME IInv, NEW w \in Workers, NEW a \in Accounts, NEW id \in Ids,
         NEW in \in UpdateInputs, BeginUpdate(w, a, id, in)
  PROVE  IInv'
<1>1. endpoints[id].cfg.public \in BOOLEAN
  BY DEF BeginUpdate, FindByID, Live, IInv, TypeOK, TablesTyped, Row, Snapshot
<1>2. Requested(in, endpoints[id].cfg.public) \in Snapshot
  BY <1>1, InputsAssumption, InputsRequest
<1> QED
  BY <1>2, BeginTargeted DEF BeginUpdate

\* So does a rollback (service.go:225).
LEMMA BeginRollbackStep ==
  ASSUME IInv, NEW w \in Workers, NEW a \in Accounts, NEW id \in Ids,
         BeginRollback(w, a, id)
  PROVE  IInv'
<1>1. endpoints[id].cfg \in Snapshot
  BY DEF BeginRollback, FindByID, Live, IInv, TypeOK, TablesTyped, Row
<1> QED
  BY <1>1, BeginTargeted DEF BeginRollback

\* So does a DELETE (service.go:291).
LEMMA BeginDeleteStep ==
  ASSUME IInv, NEW w \in Workers, NEW a \in Accounts, NEW id \in Ids,
         BeginDelete(w, a, id)
  PROVE  IInv'
<1>1. endpoints[id].cfg \in Snapshot
  BY DEF BeginDelete, FindByID, Live, IInv, TypeOK, TablesTyped, Row
<1> QED
  BY <1>1, BeginTargeted DEF BeginDelete

\* Hence every request that starts does.
LEMMA BeginStep ==
  ASSUME IInv, NEW w \in Workers, Begin(w)
  PROVE  IInv'
BY BeginCreateStep, BeginImportStep, BeginUpdateStep, BeginRollbackStep,
   BeginDeleteStep DEF Begin

-----------------------------------------------------------------------------
(* Reads.                                                                  *)

\* UpTo(S) in the form the proofs use: S is an interval from 1, maybe empty.
LEMMA UpToInterval ==
  ASSUME NEW S
  PROVE  UpTo(S) => \E n \in Nat : S = 1 .. n
<1> SUFFICES ASSUME UpTo(S) PROVE \E n \in Nat : S = 1 .. n
  OBVIOUS
<1>1. CASE S = {}
  BY <1>1, 1 .. 0 = {}
<1>2. ASSUME NEW n \in S, S = 1 .. n PROVE \E k \in Nat : S = 1 .. k
  BY <1>2
<1> QED
  BY <1>1, <1>2 DEF UpTo

\* The numbers of an endpoint's versions are an interval from 1.
LEMMA NumbersInterval ==
  ASSUME IInv, NEW id \in Ids
  PROVE  \E n \in Nat : Numbers(id) = 1 .. n
BY UpToInterval DEF IInv, HistoryInv, VersionsContiguous

\* The loop of nextVersion finds the upper end of an interval.
LEMMA MaxOfInterval ==
  ASSUME NEW n \in Nat
  PROVE  Max((1 .. n) \cup {0}) = n
<1> DEFINE S == (1 .. n) \cup {0}
<1>1. n \in S /\ \A y \in S : n >= y
  OBVIOUS
<1>2. \A x \in S : (\A y \in S : x >= y) => x = n
  OBVIOUS
<1> QED
  BY <1>1, <1>2 DEF Max

\* The number nextVersion gives a request fits the endpoint's history at
\* that moment.
LEMMA NextNumber ==
  ASSUME IInv, NEW w \in Workers, Targeted(w),
         NEW vs, vs = ListVersions(job[w].owner, job[w].id)
  PROVE  /\ nextVersion(vs) \in Nat \ {0}
         /\ job[w].id \in Live => \/ nextVersion(vs) = 1
                                  \/ nextVersion(vs) - 1 \in Numbers(job[w].id)
<1> DEFINE id == job[w].id
<1>1. id \in Ids
  <2>1. JobTyped(w)
    BY DEF IInv, TypeOK
  <2> QED
    BY <2>1 DEF JobTyped, Targeted
<1>2. PICK n \in Nat : {v.num : v \in vs} = 1 .. n /\ (id \in Live => Numbers(id) = 1 .. n)
  <2>1. CASE id \in Live
    <3>1. vs = {u \in versions : u.ep = id}
      BY <2>1 DEF ListVersions, IInv, HistoryInv, SnapshotsOwned, JobInv
    <3>2. {v.num : v \in vs} = Numbers(id)
      BY <3>1 DEF Numbers
    <3> QED
      BY <1>1, <3>2, NumbersInterval
  <2>2. CASE id \notin Live
    <3>1. vs = {}
      BY <2>2 DEF ListVersions, IInv, HistoryInv, SnapshotsOwned
    <3>2. {v.num : v \in vs} = 1 .. 0
      BY <3>1
    <3> QED
      BY <2>2, <3>2
  <2> QED
    BY <2>1, <2>2
<1>3. nextVersion(vs) = n + 1
  BY <1>2, MaxOfInterval DEF nextVersion
<1> QED
  BY <1>2, <1>3

\* versions[0] (service.go:203) is one of the versions that were listed.
LEMMA LatestTyped ==
  ASSUME IInv, NEW w \in Workers, Targeted(w),
         NEW vs, vs = ListVersions(job[w].owner, job[w].id), vs # {}
  PROVE  Latest(vs) \in vs /\ Latest(vs) \in Version
<1> DEFINE id == job[w].id
<1>1. vs \subseteq versions /\ vs \subseteq Version
  BY DEF ListVersions, IInv, TypeOK, TablesTyped
<1>2. id \in Live /\ id \in Ids
  BY DEF ListVersions, IInv, HistoryInv, SnapshotsOwned, Live
<1>3. vs = {u \in versions : u.ep = id}
  BY <1>2 DEF ListVersions, IInv, HistoryInv, SnapshotsOwned, JobInv
<1>4. PICK n \in Nat : Numbers(id) = 1 .. n
  BY <1>2, NumbersInterval
<1>5. {u.num : u \in vs} = 1 .. n
  BY <1>3, <1>4 DEF Numbers
<1>6. PICK top \in vs : top.num = n
  <2>1. PICK u \in vs : TRUE
    OBVIOUS
  <2>2. u.num \in 1 .. n
    BY <1>5
  <2>3. n \in 1 .. n
    BY <2>2
  <2> QED
    BY <1>5, <2>3
<1>7. \A u \in vs : u.num <= top.num
  BY <1>5, <1>6
<1> QED
  BY <1>1, <1>6, <1>7 DEF Latest

\* A busy worker has typed local variables.
LEMMA JobAt ==
  ASSUME IInv, NEW w \in Workers, pc[w] # "idle"
  PROVE  job[w] \in Job
<1>1. JobTyped(w)
  BY DEF IInv, TypeOK
<1> QED
  BY <1>1 DEF JobTyped

\* The answer of the AI provider keeps the invariant (service.go:547).
LEMMA GenerateSchemaStep ==
  ASSUME IInv, NEW w \in Workers, GenerateSchema(w)
  PROVE  IInv'
<1>1. pc[w] = "schema" /\ job[w] \in Job
  BY JobAt DEF GenerateSchema
<1>2. PICK s \in {job[w].cfg.prompt, NoSchema} :
        Goto(w, IF job[w].op = "create" THEN "insert" ELSE "write",
             [job[w] EXCEPT !.schema = s])
  BY DEF GenerateSchema
<1>3. s \in Schemas
  BY <1>1 DEF Job, Snapshot, Schemas
<1> DEFINE j == [job[w] EXCEPT !.schema = s]
<1>4. j \in Job /\ j.op = job[w].op /\ j.id = job[w].id
      /\ j.next = job[w].next /\ j.owner = job[w].owner
  BY <1>1, <1>3 DEF Job
<1>5. UNCHANGED tables /\ UNCHANGED <<cache, faults>>
  BY DEF GenerateSchema
<1>6. pc'[w] = (IF job[w].op = "create" THEN "insert" ELSE "write")
      /\ job'[w] = j /\ Alone(w)
  BY <1>2, GotoAlone
<1>7. Targeted(w)' => Targeted(w)
  BY <1>1, <1>4, <1>6 DEF Targeted
<1>8. JobTyped(w)'
  BY <1>1, <1>4, <1>6, <1>7 DEF JobTyped, Steps, IInv, TypeOK
<1>9. JobInv(w)'
  BY <1>4, <1>5, <1>6, <1>7 DEF JobInv, IInv, tables, Live, Numbers
<1> QED
  BY <1>5, <1>6, <1>8, <1>9, Untouched, LocalStep

\* A targeted request that has read the versions goes on with the next number.
LEMMA ListedStep ==
  ASSUME IInv, NEW w \in Workers, Targeted(w),
         job[w].op \in {"update", "rollback"},
         NEW s \in {"schema", "write"}, s = "schema" => job[w].op = "update",
         NEW j \in Job, Goto(w, s, j),
         j.op = job[w].op, j.id = job[w].id, j.owner = job[w].owner,
         j.next = nextVersion(ListVersions(job[w].owner, job[w].id)),
         UNCHANGED tables, UNCHANGED <<cache, faults>>
  PROVE  IInv'
<1>1. pc'[w] = s /\ job'[w] = j /\ Alone(w)
  BY GotoAlone
<1>2. j.id \in Live => j.next = 1 \/ j.next - 1 \in Numbers(j.id)
  BY NextNumber
<1>3. job[w].id \in Ids
  BY DEF IInv, TypeOK, JobTyped, Targeted
<1>4. JobTyped(w)'
  BY <1>1, <1>3 DEF JobTyped, Steps
<1>5. JobInv(w)'
  BY <1>1, <1>2 DEF JobInv, IInv, tables, Live, Numbers
<1> QED
  BY <1>1, <1>4, <1>5, Untouched, LocalStep

\* Update's ListVersions keeps the invariant (service.go:192).
LEMMA ListForUpdateStep ==
  ASSUME IInv, NEW w \in Workers, ListForUpdate(w)
  PROVE  IInv'
<1> DEFINE vs == ListVersions(job[w].owner, job[w].id)
           n  == nextVersion(vs)
           s  == IF vs = {} THEN NoSchema ELSE Latest(vs).schema
<1>1. pc[w] = "list" /\ job[w] \in Job /\ Targeted(w)
  BY JobAt DEF ListForUpdate, Targeted
<1>0. job[w].op = "update"
  BY DEF ListForUpdate
<1>2. n \in Nat \ {0}
  BY <1>1, NextNumber
<1>3. s \in Schemas
  BY <1>1, LatestTyped DEF Version, Schemas
<1>4. UNCHANGED tables /\ UNCHANGED <<cache, faults>>
  BY DEF ListForUpdate
<1>5. CASE Goto(w, "schema", [job[w] EXCEPT !.next = n])
  <2> DEFINE j == [job[w] EXCEPT !.next = n]
  <2>1. j \in Job /\ j.op = job[w].op /\ j.id = job[w].id
        /\ j.owner = job[w].owner /\ j.next = n
    BY <1>1, <1>2 DEF Job
  <2> QED
    BY <1>1, <1>4, <1>5, <2>1, <1>0, ListedStep
<1>6. CASE Goto(w, "write", [job[w] EXCEPT !.next = n, !.schema = s])
  <2> DEFINE j == [job[w] EXCEPT !.next = n, !.schema = s]
  <2>1. j \in Job /\ j.op = job[w].op /\ j.id = job[w].id
        /\ j.owner = job[w].owner /\ j.next = n
    BY <1>1, <1>2, <1>3 DEF Job
  <2> QED
    BY <1>1, <1>4, <1>6, <2>1, <1>0, ListedStep
<1> QED
  BY <1>5, <1>6 DEF ListForUpdate

\* Rollback's ListVersions and findVersion keep it (service.go:231).
LEMMA ListForRollbackStep ==
  ASSUME IInv, NEW w \in Workers, ListForRollback(w)
  PROVE  IInv'
<1> DEFINE vs == ListVersions(job[w].owner, job[w].id)
           n  == nextVersion(vs)
<1>1. pc[w] = "list" /\ job[w] \in Job /\ Targeted(w)
  BY JobAt DEF ListForRollback, Targeted
<1>0. job[w].op = "rollback"
  BY DEF ListForRollback
<1>2. n \in Nat \ {0}
  BY <1>1, NextNumber
<1>3. UNCHANGED tables /\ UNCHANGED <<cache, faults>>
  BY DEF ListForRollback
<1>4. CASE Finish(w)
  BY <1>3, <1>4, Untouched, FinishStep
<1>5. ASSUME NEW target \in vs,
             Goto(w, "write", [job[w] EXCEPT !.cfg = target.cfg,
                                             !.schema = target.schema,
                                             !.next = n])
      PROVE  IInv'
  <2> DEFINE j == [job[w] EXCEPT !.cfg = target.cfg,
                                 !.schema = target.schema, !.next = n]
  <2>1. target \in Version
    BY DEF ListVersions, IInv, TypeOK, TablesTyped
  <2>2. j \in Job /\ j.op = job[w].op /\ j.id = job[w].id
        /\ j.owner = job[w].owner /\ j.next = n
    BY <1>1, <1>2, <2>1 DEF Job, Version
  <2> QED
    BY <1>1, <1>3, <1>5, <2>2, <1>0, ListedStep
<1> QED
  BY <1>4, <1>5 DEF ListForRollback

-----------------------------------------------------------------------------
(* Steps that change the tables: what the other workers know stays true.   *)

\* A step of one worker that changes tables keeps the invariant, if what every
\* other worker knows stays true.
LEMMA OthersAlone ==
  ASSUME IInv, NEW w \in Workers, Alone(w), JobTyped(w)', JobInv(w)',
         \A x \in Workers \ {w} : JobInv(x)',
         TablesTyped', HistoryInv', CacheTyped', faults' \in 0 .. MaxFaults
  PROVE  IInv'
<1>1. ASSUME NEW x \in Workers PROVE JobTyped(x)' /\ JobInv(x)'
  <2>1. CASE x = w
    BY <2>1
  <2>2. CASE x # w
    <3>1. pc'[x] = pc[x] /\ job'[x] = job[x]
      BY <2>2 DEF Alone, IInv, TypeOK
    <3> QED
      BY <2>2, <3>1 DEF IInv, TypeOK, JobTyped, Targeted
  <2> QED
    BY <2>1, <2>2
<1>2. pc' \in [Workers -> Steps \cup {"idle"}]
  BY <1>1 DEF Alone, IInv, TypeOK, JobTyped
<1>3. job' \in [Workers -> Job \cup {NoJob}]
  BY <1>1 DEF Alone, IInv, TypeOK, JobTyped
<1> QED
  BY <1>1, <1>2, <1>3 DEF IInv, TypeOK

\* What JobInv(x) depends on, for a worker that does not move.
LEMMA OtherJob ==
  ASSUME IInv, NEW w \in Workers, Alone(w), NEW x \in Workers, x # w
  PROVE  /\ pc'[x] = pc[x] /\ job'[x] = job[x]
         /\ Targeted(x)' = Targeted(x)
BY DEF Alone, IInv, TypeOK, Targeted

\* Inserting an endpoint under a new uuid keeps the invariant: no request in
\* progress can be about that uuid (repository.go:78).
LEMMA InsertStep ==
  ASSUME IInv, NEW w \in Workers, NEW id \in Ids, NEW a \in Accounts,
         NEW cfg \in Snapshot, Insert(id, a, cfg),
         UNCHANGED <<versions, cache, faults>>, Alone(w),
         pc'[w] = "version", job'[w] \in Job, job'[w].id = id,
         job'[w].owner = a, job'[w].next = 1
  PROVE  IInv'
<1>1. id \notin issued /\ id \notin Live /\ issued' = issued \cup {id}
  BY DEF Insert, IInv, HistoryInv
<1>2. endpoints' = [endpoints EXCEPT ![id] = [owner |-> a, cfg |-> cfg]]
  BY DEF Insert
<1>3. endpoints'[id] = [owner |-> a, cfg |-> cfg] /\ endpoints'[id] # NoRow
      /\ \A i \in Ids \ {id} : endpoints'[i] = endpoints[i]
  BY <1>2, SentinelsAssumption DEF IInv, TypeOK, TablesTyped, Row
<1>4. Live' = Live \cup {id}
  BY <1>1, <1>3 DEF Live
<1>5. TablesTyped'
  BY <1>1, <1>2 DEF IInv, TypeOK, TablesTyped, Row
<1>6. SnapshotsOwned'
  BY <1>1, <1>3, <1>4 DEF IInv, HistoryInv, SnapshotsOwned, Live
<1>7. HistoryInv'
  BY <1>1, <1>4, <1>6
     DEF IInv, HistoryInv, VersionsContiguous, UpTo, Numbers
<1>8. JobTyped(w)' /\ JobInv(w)'
  BY <1>1, <1>3 DEF JobTyped, JobInv, Targeted, Steps
<1>9. ASSUME NEW x \in Workers \ {w} PROVE JobInv(x)'
  <2>1. pc'[x] = pc[x] /\ job'[x] = job[x] /\ Targeted(x)' = Targeted(x)
    BY OtherJob
  <2>2. Targeted(x) => job[x].id \in issued /\ job[x].id # id
    BY <1>1 DEF IInv, JobInv
  <2>3. SUFFICES ASSUME Targeted(x)
                 PROVE  /\ job[x].id \in issued'
                        /\ job[x].id \in Live' =>
                             /\ endpoints'[job[x].id].owner = job[x].owner
                             /\ \/ job[x].next = 1
                                \/ job[x].next - 1 \in Numbers(job[x].id)
    BY <2>1 DEF JobInv, Numbers
  <2>4. job[x].id \in Live' => /\ job[x].id \in Live
                               /\ endpoints'[job[x].id] = endpoints[job[x].id]
    BY <1>3, <1>4, <2>2, <2>3 DEF Live
  <2> QED
    BY <1>1, <2>2, <2>3, <2>4 DEF IInv, JobInv
<1> QED
  BY <1>5, <1>7, <1>8, <1>9, Untouched, OthersAlone

\* Create's insert keeps the invariant (service.go:138).
LEMMA InsertRowStep ==
  ASSUME IInv, NEW w \in Workers, InsertRow(w)
  PROVE  IInv'
<1>1. pc[w] = "insert" /\ job[w] \in Job
  BY JobAt DEF InsertRow
<1>2. CASE Finish(w) /\ UNCHANGED <<endpoints, issued>>
  BY <1>2, Untouched, FinishStep DEF InsertRow, tables
<1>3. ASSUME NEW id \in Ids, Insert(id, job[w].owner, job[w].cfg),
             Goto(w, "version", [job[w] EXCEPT !.id = id, !.next = 1])
      PROVE  IInv'
  <2> DEFINE j == [job[w] EXCEPT !.id = id, !.next = 1]
  <2>0. job[w].owner \in Accounts /\ job[w].cfg \in Snapshot
    BY <1>1 DEF Job
  <2>5. PICK first \in Nat \ {0} : first = 1
    OBVIOUS
  <2>6. j = [job[w] EXCEPT !.id = id, !.next = first]
    BY <2>5
  <2>7. Goto(w, "version", j)
    BY <1>3
  <2> HIDE DEF j
  <2>1. j \in Job
    BY <1>1, <2>6 DEF Job
  <2>4. j.id = id /\ j.next = 1 /\ j.owner = job[w].owner
    BY <1>1, <2>5, <2>6 DEF Job
  <2>2. pc'[w] = "version" /\ job'[w] = j /\ Alone(w)
    BY <2>7, GotoAlone
  <2>3. UNCHANGED <<versions, cache, faults>>
    BY DEF InsertRow
  <2> QED
    BY <1>3, <2>0, <2>1, <2>2, <2>3, <2>4, InsertStep
<1> QED
  BY <1>2, <1>3 DEF InsertRow

\* The insert of Import's loop keeps the invariant (service.go:399).
LEMMA InsertItemStep ==
  ASSUME IInv, NEW w \in Workers, InsertItem(w)
  PROVE  IInv'
<1> DEFINE item == Head(job[w].items)
           rest == Tail(job[w].items)
           cfg  == Imported(item)
<1>1. pc[w] = "item" /\ job[w] \in Job /\ job[w].items # <<>>
  BY JobAt DEF InsertItem, IInv, TypeOK, JobTyped
<1>2. job[w].items \in Seq(Item)
  BY <1>1 DEF Job
<1>3. item \in Item /\ rest \in Seq(Item)
  BY <1>1, <1>2
<1>4. cfg \in Snapshot
  BY <1>3, ItemsImport
<1>5. CASE /\ Goto(w, NextItem(rest), [job[w] EXCEPT !.items = rest])
           /\ UNCHANGED <<endpoints, issued>>
  <2> DEFINE j == [job[w] EXCEPT !.items = rest]
  <2>1. j \in Job /\ j.items = rest /\ j.op = job[w].op /\ j.id = job[w].id
        /\ j.owner = job[w].owner /\ j.next = job[w].next
    BY <1>1, <1>3 DEF Job
  <2>2. pc'[w] = NextItem(rest) /\ job'[w] = j /\ Alone(w)
    BY <1>5, GotoAlone
  <2>3. UNCHANGED tables /\ UNCHANGED <<cache, faults>>
    BY <1>5 DEF InsertItem, tables
  <2>4. Targeted(w)' => Targeted(w)
    BY <1>1, <2>1, <2>2 DEF Targeted, NextItem
  <2>5. JobTyped(w)'
    BY <1>1, <2>1, <2>2, <2>4 DEF JobTyped, NextItem, Steps, IInv, TypeOK
  <2>6. JobInv(w)'
    BY <2>1, <2>2, <2>3, <2>4 DEF JobInv, IInv, tables, Live, Numbers
  <2> QED
    BY <2>2, <2>3, <2>5, <2>6, Untouched, LocalStep
<1>6. ASSUME NEW id \in Ids, Insert(id, job[w].owner, cfg),
             Goto(w, "version",
                  [job[w] EXCEPT !.id = id, !.cfg = cfg, !.next = 1,
                                 !.schema = item.schema, !.items = rest])
      PROVE  IInv'
  <2> DEFINE j == [job[w] EXCEPT !.id = id, !.cfg = cfg, !.next = 1,
                                 !.schema = item.schema, !.items = rest]
  <2>1. item.schema \in Schemas
    BY <1>3 DEF Item
  <2>5. PICK first \in Nat \ {0} : first = 1
    OBVIOUS
  <2>6. j = [job[w] EXCEPT !.id = id, !.cfg = cfg, !.next = first,
                           !.schema = item.schema, !.items = rest]
    BY <2>5
  <2>7. Goto(w, "version", j)
    BY <1>6
  <2> HIDE DEF j, item, rest, cfg
  <2>8. j \in Job
    BY <1>1, <1>3, <1>4, <2>1, <2>6 DEF Job
  <2>2. j.id = id /\ j.next = 1 /\ j.owner = job[w].owner
        /\ job[w].owner \in Accounts
    BY <1>1, <2>5, <2>6 DEF Job
  <2>3. pc'[w] = "version" /\ job'[w] = j /\ Alone(w)
    BY <2>7, GotoAlone
  <2>4. UNCHANGED <<versions, cache, faults>>
    BY DEF InsertItem
  <2> QED
    BY <1>4, <1>6, <2>2, <2>3, <2>4, <2>8, InsertStep
<1> QED
  BY <1>5, <1>6 DEF InsertItem

\* repo.Update keeps the invariant: the row keeps its owner (repository.go:88).
LEMMA WriteRowStep ==
  ASSUME IInv, NEW w \in Workers, WriteRow(w)
  PROVE  IInv'
<1> DEFINE id  == job[w].id
           row == [owner |-> job[w].owner, cfg |-> job[w].cfg]
<1>1. pc[w] = "write" /\ job[w] \in Job
  BY JobAt DEF WriteRow
<1>2. CASE Finish(w) /\ UNCHANGED endpoints
  BY <1>2, Untouched, FinishStep DEF WriteRow, tables
<1>3. CASE /\ FindByID(job[w].owner, id)
           /\ endpoints' = [endpoints EXCEPT ![id] = row]
           /\ Goto(w, "version", job[w])
  <2>1. id \in Live /\ id \in Ids /\ endpoints[id].owner = job[w].owner
        /\ row \in Row
    BY <1>1, <1>3 DEF FindByID, Live, Job, Row
  <2>2. UNCHANGED <<versions, issued, cache, faults>>
    BY DEF WriteRow
  <2>3. pc'[w] = "version" /\ job'[w] = job[w] /\ Alone(w)
    BY <1>3, GotoAlone
  <2>4. endpoints'[id] = row
        /\ \A i \in Ids \ {id} : endpoints'[i] = endpoints[i]
    BY <1>3, <2>1 DEF IInv, TypeOK, TablesTyped
  <2>5. Live' = Live
    BY <2>1, <2>4, SentinelsAssumption DEF Live
  <2>6. \A i \in Live : endpoints'[i].owner = endpoints[i].owner
    BY <2>1, <2>4 DEF Live
  <2>7. TablesTyped'
    BY <1>3, <2>1, <2>2 DEF IInv, TypeOK, TablesTyped
  <2>8. HistoryInv'
    BY <2>2, <2>5, <2>6
       DEF IInv, HistoryInv, VersionsContiguous, UpTo, Numbers, SnapshotsOwned
  <2>9. JobTyped(w)'
    BY <1>1, <2>1, <2>3 DEF JobTyped, Steps
  <2>10. ASSUME NEW x \in Workers, Targeted(x)' => Targeted(x) \/ x = w,
                job'[x] = job[x]
         PROVE  JobInv(x)'
    <3>1. issued' = issued /\ \A i : Numbers(i)' = Numbers(i)
      BY <2>2 DEF Numbers
    <3>2. Targeted(w)
      BY <1>1 DEF Targeted, IInv, TypeOK, JobTyped
    <3> QED
      BY <2>5, <2>6, <2>10, <3>1, <3>2 DEF IInv, JobInv
  <2> QED
    BY <2>2, <2>3, <2>7, <2>8, <2>9, <2>10, OtherJob, Untouched, OthersAlone
<1> QED
  BY <1>2, <1>3 DEF WriteRow

\* What snapshotVersion builds is a row of endpoint_versions.
LEMMA VersionTyped ==
  ASSUME IInv, NEW w \in Workers, pc[w] = "version"
  PROVE  snapshotVersion(job[w]) \in Version
<1>1. job[w] \in Job /\ job[w].id \in Ids
  BY DEF IInv, TypeOK, JobTyped, Targeted
<1> QED
  BY <1>1 DEF snapshotVersion, Version, Job

\* Inserting an accepted version keeps the numbers an interval: the number
\* is new and its predecessor is there.
LEMMA AcceptedExtends ==
  ASSUME IInv, NEW v \in Version, VersionAccepted(v),
         endpoints[v.ep].owner = v.owner,
         v.num = 1 \/ v.num - 1 \in Numbers(v.ep),
         versions' = versions \cup {v}, UNCHANGED <<endpoints, issued>>
  PROVE  /\ HistoryInv'
         /\ \A i \in Ids : Numbers(i) \subseteq Numbers(i)'
<1>1. v.ep \in Live /\ v.ep \in Ids /\ v.num \notin Numbers(v.ep)
      /\ v.num \in Nat \ {0}
  BY DEF VersionAccepted, Numbers, Live, Version
<1>2. Numbers(v.ep)' = Numbers(v.ep) \cup {v.num}
  BY DEF Numbers
<1>3. \A i \in Ids \ {v.ep} : Numbers(i)' = Numbers(i)
  BY DEF Numbers
<1>4. UpTo(Numbers(v.ep)')
  <2>1. PICK top \in Nat : Numbers(v.ep) = 1 .. top
    BY <1>1, NumbersInterval
  <2>2. v.num = top + 1
    BY <1>1, <2>1
  <2>3. Numbers(v.ep)' = 1 .. v.num /\ v.num \in Numbers(v.ep)'
    BY <1>1, <1>2, <2>1, <2>2
  <2> QED
    BY <2>3 DEF UpTo
<1>5. \A i \in Ids : UpTo(Numbers(i)')
  BY <1>3, <1>4 DEF IInv, HistoryInv, VersionsContiguous
<1>6. \A u, t \in versions' : u.ep = t.ep /\ u.num = t.num => u = t
  BY DEF VersionAccepted, IInv, HistoryInv, VersionsContiguous
<1>7. Live' = Live
  BY DEF Live
<1>8. SnapshotsOwned'
  BY <1>1, <1>7 DEF IInv, HistoryInv, SnapshotsOwned
<1>9. VersionsContiguous'
  BY <1>5, <1>6 DEF VersionsContiguous, UpTo
<1> QED
  BY <1>2, <1>3, <1>7, <1>8, <1>9 DEF IInv, HistoryInv

\* CreateVersion keeps the invariant, whatever happened since the request
\* computed the number (service.go:210, repository.go:168).
LEMMA InsertVersionStep ==
  ASSUME IInv, NEW w \in Workers, InsertVersion(w)
  PROVE  IInv'
<1> DEFINE v == snapshotVersion(job[w])
<1>1. pc[w] = "version" /\ job[w] \in Job /\ job[w].id \in Ids
  BY DEF InsertVersion, IInv, TypeOK, JobTyped, Targeted
<1>2. UNCHANGED <<endpoints, issued, cache, faults>>
  BY DEF InsertVersion
<1>3. CASE ~VersionAccepted(v) /\ Finish(w) /\ UNCHANGED versions
  BY <1>2, <1>3, Untouched, FinishStep DEF tables
<1>4. ASSUME VersionAccepted(v), versions' = versions \cup {v},
             NEW s \in {"item", "commit"}, NEW j \in Job, Goto(w, s, j),
             j.op = job[w].op, j.id = job[w].id, j.owner = job[w].owner,
             j.next = job[w].next, s = "item" => j.items # <<>>
      PROVE  IInv'
  <2>1. pc'[w] = s /\ job'[w] = j /\ Alone(w)
    BY <1>4, GotoAlone
  <2>2. HistoryInv' /\ \A i \in Ids : Numbers(i) \subseteq Numbers(i)'
    <3>1. v \in Version /\ v.ep = job[w].id /\ v.num = job[w].next
          /\ v.owner = job[w].owner
      BY <1>1, VersionTyped DEF snapshotVersion
    <3>2. Targeted(w) /\ v.ep \in Live
      BY <1>1, <1>4 DEF Targeted, VersionAccepted
    <3>3. endpoints[v.ep].owner = v.owner
          /\ (v.num = 1 \/ v.num - 1 \in Numbers(v.ep))
      BY <3>1, <3>2 DEF IInv, JobInv
    <3> HIDE DEF v
    <3> QED
      BY <1>2, <1>4, <3>1, <3>3, AcceptedExtends
  <2>3. TablesTyped'
    BY <1>1, <1>2, <1>4, VersionTyped DEF IInv, TypeOK, TablesTyped
  <2>4. JobTyped(w)'
    BY <1>1, <1>4, <2>1 DEF JobTyped, Steps
  <2>5. Live' = Live /\ issued' = issued /\ endpoints' = endpoints
    BY <1>2 DEF Live
  <2>6. JobInv(w)'
    <3>1. Targeted(w)
      BY <1>1 DEF Targeted
    <3> QED
      BY <1>1, <1>4, <2>1, <2>2, <2>5, <3>1 DEF IInv, JobInv
  <2>7. ASSUME NEW x \in Workers \ {w} PROVE JobInv(x)'
    <3>1. job'[x] = job[x] /\ Targeted(x)' = Targeted(x)
      BY <2>1, OtherJob
    <3>2. Targeted(x) => job[x].id \in Ids
      BY DEF IInv, TypeOK, TablesTyped, JobInv
    <3> QED
      BY <2>2, <2>5, <3>1, <3>2 DEF IInv, JobInv
  <2> QED
    BY <1>2, <2>1, <2>2, <2>3, <2>4, <2>6, <2>7, Untouched, OthersAlone
<1>5. CASE /\ VersionAccepted(v) /\ versions' = versions \cup {v}
           /\ job[w].op = "import"
           /\ Goto(w, NextItem(job[w].items),
                   [job[w] EXCEPT !.made = @ \cup {job[w].cfg.method}])
  <2> DEFINE j == [job[w] EXCEPT !.made = @ \cup {job[w].cfg.method}]
  <2>1. job[w].cfg.method \in Methods
    BY <1>1 DEF Job, Snapshot
  <2>2. j \in Job /\ j.op = job[w].op /\ j.id = job[w].id
        /\ j.owner = job[w].owner /\ j.next = job[w].next
        /\ j.items = job[w].items
    BY <1>1, <2>1 DEF Job
  <2>3. NextItem(job[w].items) \in {"item", "commit"}
        /\ (NextItem(job[w].items) = "item" => job[w].items # <<>>)
    BY DEF NextItem
  <2> QED
    BY <1>4, <1>5, <2>2, <2>3
<1>6. CASE /\ VersionAccepted(v) /\ versions' = versions \cup {v}
           /\ Goto(w, "commit", job[w])
  BY <1>1, <1>4, <1>6
<1> QED
  BY <1>3, <1>5, <1>6 DEF InsertVersion

\* Deleting an endpoint with its versions keeps the invariant, although other
\* requests may be about it (repository.go:107).
LEMMA EraseRowStep ==
  ASSUME IInv, NEW w \in Workers, EraseRow(w)
  PROVE  IInv'
<1>1. pc[w] = "erase" /\ job[w] \in Job
  BY JobAt DEF EraseRow
<1>2. CASE Finish(w) /\ UNCHANGED <<endpoints, versions>>
  BY <1>2, Untouched, FinishStep DEF EraseRow, tables
<1>3. ASSUME NEW id, id = job[w].id, FindByID(job[w].owner, id),
             endpoints' = [endpoints EXCEPT ![id] = NoRow],
             versions' = {v \in versions : v.ep # id},
             Goto(w, "dropOld", job[w])
      PROVE  IInv'
  <2>1. id \in Live /\ id \in Ids
    BY <1>3 DEF FindByID, Live
  <2>2. UNCHANGED <<issued, cache, faults>>
    BY DEF EraseRow
  <2>3. pc'[w] = "dropOld" /\ job'[w] = job[w] /\ Alone(w)
    BY <1>3, GotoAlone
  <2>4. Live' = Live \ {id} /\ \A i \in Live' : endpoints'[i] = endpoints[i]
    BY <1>3, <2>1 DEF Live, IInv, TypeOK, TablesTyped
  <2>5. \A i \in Ids \ {id} : Numbers(i)' = Numbers(i)
    BY <1>3 DEF Numbers
  <2>6. Numbers(id)' = {}
    BY <1>3 DEF Numbers
  <2>7. TablesTyped'
    BY <1>3, <2>2 DEF IInv, TypeOK, TablesTyped
  <2>8. SnapshotsOwned'
    BY <1>3, <2>4 DEF IInv, HistoryInv, SnapshotsOwned
  <2>9. VersionsContiguous'
    BY <1>3, <2>5, <2>6 DEF IInv, HistoryInv, VersionsContiguous, UpTo
  <2>10. HistoryInv'
    BY <2>2, <2>4, <2>8, <2>9 DEF IInv, HistoryInv
  <2>11. JobTyped(w)'
    BY <1>1, <2>3 DEF JobTyped, Targeted, Steps, IInv, TypeOK
  <2>12. ASSUME NEW x \in Workers, job'[x] = job[x], Targeted(x)' => Targeted(x)
         PROVE  JobInv(x)'
    <3>1. Targeted(x) => job[x].id \in Ids
      BY DEF IInv, TypeOK, TablesTyped, JobInv
    <3> QED
      BY <2>2, <2>4, <2>5, <2>12, <3>1 DEF IInv, JobInv
  <2>13. Targeted(w)' => Targeted(w)
    BY <1>1, <2>3 DEF Targeted
  <2> QED
    BY <2>2, <2>3, <2>7, <2>10, <2>11, <2>12, <2>13,
       OtherJob, Untouched, OthersAlone
<1> QED
  BY <1>2, <1>3 DEF EraseRow

-----------------------------------------------------------------------------
(* Commit and invalidation.                                                *)

\* A request that goes on to a later step with what it knows.
LEMMA OnwardStep ==
  ASSUME IInv, NEW w \in Workers, pc[w] \in {"commit", "dropOld", "sweep"},
         NEW s \in {"dropOld", "dropNew", "sweep"}, NEW j \in Job,
         Goto(w, s, j), j.op = job[w].op, j.id = job[w].id,
         j.owner = job[w].owner, j.next = job[w].next,
         UNCHANGED tables, CacheTyped', faults' \in 0 .. MaxFaults
  PROVE  IInv'
<1>1. pc'[w] = s /\ job'[w] = j /\ Alone(w)
  BY GotoAlone
<1>2. Targeted(w)' => Targeted(w)
  BY <1>1 DEF Targeted
<1>3. JobTyped(w)'
  BY <1>1, <1>2 DEF JobTyped, Steps, IInv, TypeOK
<1>4. JobInv(w)'
  BY <1>1, <1>2 DEF JobInv, IInv, tables, Live, Numbers
<1> QED
  BY <1>1, <1>3, <1>4, LocalStep

\* The commit of the empty transaction keeps the invariant (repository.go:72).
LEMMA CommitStep ==
  ASSUME IInv, NEW w \in Workers, Commit(w)
  PROVE  IInv'
<1>1. pc[w] = "commit" /\ job[w] \in Job
  BY JobAt DEF Commit
<1>2. \E s \in {"dropOld", "dropNew", "sweep"} : Goto(w, s, job[w])
  BY DEF Commit
<1>3. UNCHANGED tables /\ CacheTyped' /\ faults' \in 0 .. MaxFaults
  BY Untouched DEF Commit
<1> QED
  BY <1>1, <1>2, <1>3, OnwardStep

\* Invalidation keeps the types of the cache and of the fault count.
LEMMA Invalidated ==
  ASSUME IInv, NEW m, invalidateMethod(m)
  PROVE  CacheTyped' /\ faults' \in 0 .. MaxFaults
<1>1. CASE cache' = [cache EXCEPT ![m] = NotCached] /\ UNCHANGED faults
  BY <1>1 DEF IInv, TypeOK, CacheTyped
<1>2. CASE faults < MaxFaults /\ faults' = faults + 1 /\ UNCHANGED cache
  BY <1>2, BoundsAssumption DEF IInv, TypeOK, CacheTyped
<1> QED
  BY <1>1, <1>2 DEF invalidateMethod

\* Invalidating the old method keeps the invariant (service.go:216).
LEMMA DropOldStep ==
  ASSUME IInv, NEW w \in Workers, DropOld(w)
  PROVE  IInv'
<1>1. pc[w] = "dropOld" /\ job[w] \in Job
  BY JobAt DEF DropOld
<1>2. UNCHANGED tables /\ CacheTyped' /\ faults' \in 0 .. MaxFaults
  BY Invalidated DEF DropOld
<1>3. CASE Finish(w)
  BY <1>2, <1>3, FinishStep
<1>4. CASE Goto(w, "dropNew", job[w])
  BY <1>1, <1>2, <1>4, OnwardStep
<1> QED
  BY <1>3, <1>4 DEF DropOld

\* Invalidating the new method keeps the invariant (service.go:217).
LEMMA DropNewStep ==
  ASSUME IInv, NEW w \in Workers, DropNew(w)
  PROVE  IInv'
BY Invalidated, FinishStep DEF DropNew

\* Import's invalidations keep the invariant (service.go:423).
LEMMA SweepStep ==
  ASSUME IInv, NEW w \in Workers, Sweep(w)
  PROVE  IInv'
<1>1. pc[w] = "sweep" /\ job[w] \in Job /\ UNCHANGED tables
  BY JobAt DEF Sweep
<1>2. ASSUME NEW m \in job[w].made, invalidateMethod(m),
             Goto(w, "sweep", [job[w] EXCEPT !.made = @ \ {m}])
      PROVE  IInv'
  <2> DEFINE j == [job[w] EXCEPT !.made = @ \ {m}]
  <2>1. j \in Job /\ j.op = job[w].op /\ j.id = job[w].id
        /\ j.owner = job[w].owner /\ j.next = job[w].next
    BY <1>1 DEF Job
  <2>2. CacheTyped' /\ faults' \in 0 .. MaxFaults
    BY <1>2, Invalidated
  <2> QED
    BY <1>1, <1>2, <2>1, <2>2, OnwardStep
<1>3. CASE Finish(w) /\ UNCHANGED <<cache, faults>>
  BY <1>1, <1>3, Untouched, FinishStep
<1> QED
  BY <1>2, <1>3 DEF Sweep

\* Hence every next statement or call of a request does.
LEMMA ContinueStep ==
  ASSUME IInv, NEW w \in Workers, Continue(w)
  PROVE  IInv'
BY GenerateSchemaStep, ListForUpdateStep, ListForRollbackStep, InsertRowStep,
   InsertItemStep, WriteRowStep, InsertVersionStep, CommitStep, EraseRowStep,
   DropOldStep, DropNewStep, SweepStep DEF Continue

-----------------------------------------------------------------------------
(* Faults.                                                                 *)

\* A failed statement keeps the invariant.
LEMMA FailStatementStep ==
  ASSUME IInv, NEW w \in Workers, FailStatement(w)
  PROVE  IInv'
<1>1. CacheTyped' /\ faults' \in 0 .. MaxFaults
  BY BoundsAssumption DEF FailStatement, IInv, TypeOK, CacheTyped
<1> QED
  BY <1>1, FinishStep DEF FailStatement

\* So does running out of uuids.
LEMMA OutOfIdsStep ==
  ASSUME IInv, NEW w \in Workers, OutOfIds(w)
  PROVE  IInv'
BY Untouched, FinishStep DEF OutOfIds

\* So does a crash with restart: nothing the tables need is lost.
LEMMA CrashStep ==
  ASSUME IInv, Crash
  PROVE  IInv'
<1>1. TablesTyped' /\ HistoryInv'
  BY DEF Crash, tables, IInv, TypeOK, TablesTyped, HistoryInv,
         VersionsContiguous, UpTo, Numbers, Live, SnapshotsOwned
<1>2. CacheTyped' /\ faults' \in 0 .. MaxFaults
  BY BoundsAssumption DEF Crash, IInv, TypeOK, CacheTyped
<1>3. \A w \in Workers : pc'[w] = "idle" /\ job'[w] = NoJob
  BY DEF Crash
<1>4. \A w \in Workers : JobTyped(w)' /\ JobInv(w)'
  BY <1>3 DEF JobTyped, JobInv, Targeted
<1>5. /\ pc' \in [Workers -> Steps \cup {"idle"}]
      /\ job' \in [Workers -> Job \cup {NoJob}]
  BY DEF Crash
<1> QED
  BY <1>1, <1>2, <1>4, <1>5 DEF IInv, TypeOK

-----------------------------------------------------------------------------
(* Which steps a request goes through.                                     *)

\* The operations whose requests get to a step (service.go:112-304, 363-427).
OnTrack(w) ==
  /\ pc[w] \in {"item", "sweep"} => job[w].op = "import"
  /\ pc[w] = "insert" => job[w].op = "create"
  /\ pc[w] = "list" => job[w].op \in {"update", "rollback"}
  /\ pc[w] = "erase" => job[w].op = "delete"
  /\ pc[w] \in {"version", "commit"} => job[w].op # "delete"
  /\ pc[w] = "dropOld" => job[w].op \in {"update", "rollback", "delete"}
  /\ pc[w] = "dropNew" => job[w].op \in {"create", "update", "rollback"}

Acts(w) == Begin(w) \/ Continue(w) \/ FailStatement(w) \/ OutOfIds(w)

\* A step of one worker moves no other.
LEMMA ActsAlone ==
  ASSUME IInv, NEW w \in Workers, Acts(w)
  PROVE  Alone(w)
<1>1. CASE Begin(w)
  BY <1>1, GotoAlone DEF Begin, BeginCreate, BeginUpdate, BeginRollback,
                         BeginDelete, BeginImport
<1>2. CASE Continue(w)
  <2>1. CASE GenerateSchema(w) \/ ListForUpdate(w) \/ ListForRollback(w)
    BY <2>1, GotoAlone DEF GenerateSchema, ListForUpdate, ListForRollback, Finish
  <2>2. CASE InsertRow(w) \/ InsertItem(w) \/ WriteRow(w) \/ InsertVersion(w)
    BY <2>2, GotoAlone DEF InsertRow, InsertItem, WriteRow, InsertVersion, Finish
  <2>3. CASE Commit(w) \/ EraseRow(w) \/ DropOld(w) \/ DropNew(w) \/ Sweep(w)
    BY <2>3, GotoAlone DEF Commit, EraseRow, DropOld, DropNew, Sweep, Finish
  <2> QED
    BY <1>2, <2>1, <2>2, <2>3 DEF Continue
<1>3. CASE FailStatement(w) \/ OutOfIds(w)
  BY <1>3, GotoAlone DEF FailStatement, OutOfIds, Finish
<1> QED
  BY <1>1, <1>2, <1>3 DEF Acts

-----------------------------------------------------------------------------
(* The theorems.                                                           *)

\* Every step keeps the invariant.
LEMMA NextIInv == IInv /\ [Next]_vars => IInv'
<1> SUFFICES ASSUME IInv, [Next]_vars PROVE IInv'
  OBVIOUS
<1>1. CASE Crash
  BY <1>1, CrashStep
<1>2. ASSUME NEW w \in Workers,
             Begin(w) \/ Continue(w) \/ FailStatement(w) \/ OutOfIds(w)
      PROVE  IInv'
  BY <1>2, BeginStep, ContinueStep, FailStatementStep, OutOfIdsStep
<1>3. CASE UNCHANGED vars
  BY <1>3 DEF vars, IInv, TypeOK, TablesTyped, CacheTyped, JobTyped, Targeted,
              HistoryInv, VersionsContiguous, UpTo, Numbers, Live,
              SnapshotsOwned, JobInv
<1> QED
  BY <1>1, <1>2, <1>3 DEF Next

\* The inductive invariant holds in every reachable state.
THEOREM InductiveInvariant == Spec => []IInv
BY InitIInv, NextIInv, PTL DEF Spec

\* Every variable keeps its type, whichever requests race and fail.
THEOREM TypeCorrect == Spec => []TypeOK
<1>1. IInv => TypeOK
  BY DEF IInv
<1> QED
  BY <1>1, InductiveInvariant, PTL

\* The version numbers of every endpoint are 1 .. n without a gap and each
\* names one snapshot, although CreateVersion runs outside the transaction
\* and nextVersion works on a list read earlier.
THEOREM HistoryContiguous == Spec => []VersionsContiguous
<1>1. IInv => VersionsContiguous
  BY DEF IInv, HistoryInv
<1> QED
  BY <1>1, InductiveInvariant, PTL

\* Every snapshot belongs to an existing endpoint and to its owner.
THEOREM HistoryOwned == Spec => []SnapshotsOwned
<1>1. IInv => SnapshotsOwned
  BY DEF IInv, HistoryInv
<1> QED
  BY <1>1, InductiveInvariant, PTL
=============================================================================
