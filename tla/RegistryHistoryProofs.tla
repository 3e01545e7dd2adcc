---------------------- MODULE RegistryHistoryProofs ----------------------
(***************************************************************************)
(* Proofs about what requests leave in the history, in two parts.          *)
(*                                                                         *)
(* For every set of accounts, endpoints, workers and requests: a request   *)
(* finds what it recorded, a rollback records what it restores, and the    *)
(* registry implements the version log.  The first two are about a request *)
(* that wrote in one step and is looked at in a later one.  LInv says what *)
(* survives in between: the uuid of its endpoint stays issued, so that the *)
(* endpoint is deleted for good or still the one the request wrote, with   *)
(* the versions it had.  For the third, the k-th entry of an endpoint's    *)
(* log is its version number k: InsertVersion is Record, EraseRow is       *)
(* Erase, and every other step stutters.                                   *)
(*                                                                         *)
(* For one endpoint, under the condition that the requests that change it  *)
(* do not overlap, while any number of others are served: its versions are *)
(* numbered without a refusal whatever fails; and as long as none of those *)
(* requests is cut off between the row and its version, the live row is    *)
(* the latest version and every schema belongs to the prompt of its        *)
(* version.  The argument follows what a request knows of the row it is    *)
(* about to change (SeesRow).  Run registry_torn shows that two requests   *)
(* that overlap on an endpoint are enough to break the second; a crash     *)
(* between the two writes leaves the row ahead as well.                    *)
(***************************************************************************)
EXTENDS RegistryLog, RegistryProofs

Recording == {"create", "update", "rollback"}

\* What a request that has recorded its version relies on.
Recorded(w) ==
  pc[w] \in {"commit", "dropOld", "dropNew"} /\ job[w].op \in Recording =>
    /\ job[w].id \in issued
    /\ job[w].id \in Live => snapshotVersion(job[w]) \in versions

\* What a rollback that has chosen its target relies on.
Chosen(w) ==
  pc[w] \in {"write", "version"} /\ job[w].op = "rollback"
  /\ job[w].id \in Live =>
    \E v \in versions : /\ v.ep = job[w].id
                        /\ v.cfg = job[w].cfg
                        /\ v.schema = job[w].schema

Knows(w) == OnTrack(w) /\ Recorded(w) /\ Chosen(w)

LInv == IInv /\ \A w \in Workers : Knows(w)

\* What no step of any request takes from another: issued uuids stay issued,
\* deleted endpoints stay deleted, and an endpoint that is left has lost none
\* of its versions.
Grows ==
  /\ issued \subseteq issued'
  /\ \A i \in issued : i \in Live' =>
       i \in Live /\ \A v \in versions : v.ep = i => v \in versions'

-----------------------------------------------------------------------------
(* What the others know stays true.                                        *)

LEMMA TablesGrow ==
  ASSUME IInv, NEW w \in Workers, Acts(w)
  PROVE  Grows
<1>1. Live \subseteq issued
  BY DEF IInv, HistoryInv
<1>2. CASE UNCHANGED tables
  BY <1>2 DEF tables, Grows, Live
<1>3. ASSUME NEW id \in Ids, NEW a, NEW cfg, Insert(id, a, cfg), UNCHANGED versions
      PROVE  Grows
  <2>1. id \notin issued /\ issued' = issued \cup {id}
    BY <1>3 DEF Insert
  <2>2. \A i \in Ids \ {id} : endpoints'[i] = endpoints[i]
    BY <1>3 DEF Insert, IInv, TypeOK, TablesTyped
  <2>3. \A i \in Ids \ {id} : i \in Live' => i \in Live
    BY <2>2 DEF Live
  <2>4. issued \subseteq Ids
    BY DEF IInv, TypeOK, TablesTyped
  <2> QED
    BY <1>3, <2>1, <2>3, <2>4 DEF Grows
<1>4. CASE InsertRow(w) \/ InsertItem(w)
  <2>1. UNCHANGED versions
    BY <1>4 DEF InsertRow, InsertItem
  <2>2. UNCHANGED tables \/ \E id \in Ids, a \in {job[w].owner},
                               cfg \in {job[w].cfg, Imported(Head(job[w].items))} :
                              Insert(id, a, cfg)
    BY <1>4, <2>1 DEF InsertRow, InsertItem, tables
  <2> QED
    BY <1>2, <1>3, <2>1, <2>2
<1>5. CASE WriteRow(w)
  <2>1. UNCHANGED <<versions, issued>>
    BY <1>5 DEF WriteRow
  <2>2. \A i \in Ids : endpoints'[i] = endpoints[i] \/ i \in Live
    BY <1>5 DEF WriteRow, FindByID, IInv, TypeOK, TablesTyped
  <2>3. \A i \in Ids : i \in Live' => i \in Live
    BY <2>2 DEF Live
  <2> QED
    BY <2>1, <2>3 DEF Grows, Live
<1>6. CASE InsertVersion(w)
  <2>1. UNCHANGED <<endpoints, issued>> /\ versions \subseteq versions'
    BY <1>6 DEF InsertVersion
  <2> QED
    BY <2>1 DEF Grows, Live
<1>7. CASE EraseRow(w)
  <2>1. UNCHANGED issued
    BY <1>7 DEF EraseRow
  <2>2. CASE UNCHANGED tables
    BY <2>2, <1>2
  <2>3. CASE /\ endpoints' = [endpoints EXCEPT ![job[w].id] = NoRow]
             /\ versions' = {v \in versions : v.ep # job[w].id}
    <3>1. \A i \in Live' : i \in Live /\ i # job[w].id
      BY <2>3 DEF Live, IInv, TypeOK, TablesTyped
    <3> QED
      BY <2>1, <2>3, <3>1 DEF Grows
  <2> QED
    BY <1>7, <2>2, <2>3 DEF EraseRow, tables
<1>8. CASE Begin(w)
  BY <1>2, <1>8 DEF Begin, BeginCreate, BeginUpdate, BeginRollback, BeginDelete,
                    BeginImport
<1>9. CASE GenerateSchema(w) \/ ListForUpdate(w) \/ ListForRollback(w)
           \/ Commit(w) \/ DropOld(w) \/ DropNew(w) \/ Sweep(w)
  BY <1>2, <1>9 DEF GenerateSchema, ListForUpdate, ListForRollback, Commit,
                    DropOld, DropNew, Sweep
<1>10. CASE FailStatement(w) \/ OutOfIds(w)
  BY <1>2, <1>10 DEF FailStatement, OutOfIds
<1> QED
  BY <1>4, <1>5, <1>6, <1>7, <1>8, <1>9, <1>10 DEF Acts, Continue

\* A request that does not move still knows what it knew.
LEMMA OthersKnow ==
  ASSUME LInv, NEW w \in Workers, Alone(w), Grows, NEW x \in Workers \ {w}
  PROVE  Knows(x)'
<1>1. pc'[x] = pc[x] /\ job'[x] = job[x]
  BY OtherJob DEF LInv
<1>2. OnTrack(x)'
  BY <1>1 DEF LInv, Knows, OnTrack
<1>3. Recorded(x)'
  <2> SUFFICES ASSUME pc[x] \in {"commit", "dropOld", "dropNew"},
                      job[x].op \in Recording
               PROVE  /\ job[x].id \in issued'
                      /\ job[x].id \in Live' => snapshotVersion(job[x]) \in versions'
    BY <1>1 DEF Recorded
  <2>1. /\ job[x].id \in issued
        /\ job[x].id \in Live => snapshotVersion(job[x]) \in versions
    BY DEF LInv, Knows, Recorded
  <2>2. snapshotVersion(job[x]).ep = job[x].id
    BY DEF snapshotVersion
  <2> QED
    BY <2>1, <2>2 DEF Grows
<1>4. Chosen(x)'
  <2> SUFFICES ASSUME pc[x] \in {"write", "version"}, job[x].op = "rollback",
                      job[x].id \in Live'
               PROVE  \E v \in versions' : /\ v.ep = job[x].id
                                           /\ v.cfg = job[x].cfg
                                           /\ v.schema = job[x].schema
    BY <1>1 DEF Chosen
  <2>1. job[x].id \in issued
    BY DEF LInv, IInv, JobInv, Targeted
  <2>2. job[x].id \in Live
    BY <2>1 DEF Grows
  <2>3. PICK v \in versions : /\ v.ep = job[x].id
                              /\ v.cfg = job[x].cfg
                              /\ v.schema = job[x].schema
    BY <2>2 DEF LInv, Knows, Chosen
  <2> QED
    BY <2>1, <2>3 DEF Grows
<1> QED
  BY <1>2, <1>3, <1>4 DEF Knows

-----------------------------------------------------------------------------
(* What the moving request knows afterwards.                               *)

\* An answered request needs to know nothing.
LEMMA FinishedKnows ==
  ASSUME IInv, NEW w \in Workers, Finish(w)
  PROVE  Knows(w)'
<1>1. pc'[w] = "idle"
  BY GotoAlone DEF Finish
<1> QED
  BY <1>1 DEF Knows, OnTrack, Recorded, Chosen

LEMMA BeginKnows ==
  ASSUME IInv, NEW w \in Workers, Begin(w)
  PROVE  Knows(w)'
<1> USE DEF Knows, OnTrack, Recorded, Chosen, NewJob
<1>1. ASSUME NEW a \in Accounts, NEW in \in CreateInputs, BeginCreate(w, a, in)
      PROVE  Knows(w)'
  BY <1>1, GotoAlone DEF BeginCreate
<1>2. ASSUME NEW a \in Accounts, NEW doc \in ImportDocs, BeginImport(w, a, doc)
      PROVE  Knows(w)'
  BY <1>2, GotoAlone DEF BeginImport
<1>3. ASSUME NEW a \in Accounts, NEW id \in Ids, NEW in \in UpdateInputs,
             BeginUpdate(w, a, id, in)
      PROVE  Knows(w)'
  BY <1>3, GotoAlone DEF BeginUpdate
<1>4. ASSUME NEW a \in Accounts, NEW id \in Ids,
             BeginRollback(w, a, id) \/ BeginDelete(w, a, id)
      PROVE  Knows(w)'
  BY <1>4, GotoAlone DEF BeginRollback, BeginDelete
<1> QED
  BY <1>1, <1>2, <1>3, <1>4 DEF Begin

LEMMA ReadKnows ==
  ASSUME LInv, NEW w \in Workers,
         GenerateSchema(w) \/ ListForUpdate(w) \/ ListForRollback(w)
  PROVE  Knows(w)'
<1>0. IInv /\ job[w] \in Job
  BY JobAt DEF LInv, GenerateSchema, ListForUpdate, ListForRollback
<1>1. CASE GenerateSchema(w)
  <2>1. PICK s : Goto(w, IF job[w].op = "create" THEN "insert" ELSE "write",
                      [job[w] EXCEPT !.schema = s])
    BY <1>1 DEF GenerateSchema
  <2>2. /\ pc'[w] = (IF job[w].op = "create" THEN "insert" ELSE "write")
        /\ job'[w].op = job[w].op
    BY <1>0, <2>1, GotoAlone DEF Job
  <2>3. job[w].op \in {"create", "update"}
    BY <1>0, <1>1 DEF GenerateSchema, IInv, TypeOK, JobTyped
  <2> QED
    BY <2>2, <2>3 DEF Knows, OnTrack, Recorded, Chosen
<1>2. CASE ListForUpdate(w)
  <2> DEFINE vs == ListVersions(job[w].owner, job[w].id)
             n  == nextVersion(vs)
             c  == IF vs = {} THEN NoSchema ELSE Latest(vs).schema
             j1 == [job[w] EXCEPT !.next = n]
             j2 == [job[w] EXCEPT !.next = n, !.schema = c]
  <2>0. Goto(w, "schema", j1) \/ Goto(w, "write", j2)
    BY <1>2 DEF ListForUpdate
  <2> HIDE DEF n, c
  <2>1. j1.op = job[w].op /\ j2.op = job[w].op /\ job[w].op = "update"
    BY <1>0, <1>2 DEF Job, ListForUpdate
  <2> HIDE DEF j1, j2
  <2>2. pc'[w] \in {"schema", "write"} /\ job'[w].op = "update"
    BY <1>0, <2>0, <2>1, GotoAlone
  <2> QED
    BY <2>2 DEF Knows, OnTrack, Recorded, Chosen
<1>3. CASE ListForRollback(w)
  <2> DEFINE vs == ListVersions(job[w].owner, job[w].id)
             n  == nextVersion(vs)
  <2>1. ASSUME NEW target \in vs,
               Goto(w, "write", [job[w] EXCEPT !.cfg = target.cfg,
                                               !.schema = target.schema,
                                               !.next = n])
        PROVE  Knows(w)'
    <3> DEFINE j == [job[w] EXCEPT !.cfg = target.cfg, !.schema = target.schema,
                                   !.next = n]
    <3> HIDE DEF n
    <3>0. /\ j.op = job[w].op /\ j.id = job[w].id
          /\ j.cfg = target.cfg /\ j.schema = target.schema
      BY <1>0 DEF Job
    <3>1. /\ pc'[w] = "write" /\ job'[w].op = job[w].op
          /\ job'[w].id = job[w].id
          /\ job'[w].cfg = target.cfg /\ job'[w].schema = target.schema
      BY <1>0, <2>1, <3>0, GotoAlone
    <3>2. target \in versions' /\ target.ep = job[w].id
      BY <1>3 DEF ListForRollback, tables, ListVersions
    <3> QED
      BY <3>1, <3>2, <1>3 DEF ListForRollback, Knows, OnTrack, Recorded, Chosen
  <2> QED
    BY <1>0, <1>3, <2>1, FinishedKnows DEF ListForRollback
<1> QED
  BY <1>1, <1>2, <1>3

LEMMA InsertKnows ==
  ASSUME LInv, NEW w \in Workers, InsertRow(w) \/ InsertItem(w)
  PROVE  Knows(w)'
<1>0. IInv /\ job[w] \in Job
  BY JobAt DEF LInv, InsertRow, InsertItem
<1>1. CASE InsertRow(w)
  <2>1. job[w].op = "create"
    BY <1>1 DEF InsertRow, LInv, Knows, OnTrack
  <2>2. ASSUME NEW id, Goto(w, "version", [job[w] EXCEPT !.id = id, !.next = 1])
        PROVE  Knows(w)'
    <3> DEFINE j == [job[w] EXCEPT !.id = id, !.next = 1]
    <3>0. j.op = "create"
      BY <1>0, <2>1 DEF Job
    <3>2. Goto(w, "version", j)
      BY <2>2
    <3> HIDE DEF j
    <3>1. pc'[w] = "version" /\ job'[w].op = "create"
      BY <1>0, <3>0, <3>2, GotoAlone
    <3> QED
      BY <3>1 DEF Knows, OnTrack, Recorded, Chosen
  <2> QED
    BY <1>0, <1>1, <2>2, FinishedKnows DEF InsertRow
<1>2. CASE InsertItem(w)
  <2>1. job[w].op = "import"
    BY <1>2 DEF InsertItem, LInv, Knows, OnTrack
  <2> DEFINE item == Head(job[w].items)
             rest == Tail(job[w].items)
             cfg  == Imported(item)
             j1   == [job[w] EXCEPT !.items = rest]
  <2>2. ASSUME Goto(w, NextItem(rest), j1)
        PROVE  pc'[w] \in {"item", "commit"} /\ job'[w].op = "import"
    <3>1. j1.op = "import"
      BY <1>0, <2>1 DEF Job
    <3> HIDE DEF j1
    <3> QED
      BY <1>0, <2>2, <3>1, GotoAlone DEF NextItem
  <2>3. ASSUME NEW id \in Ids,
               Goto(w, "version",
                    [job[w] EXCEPT !.id = id, !.cfg = cfg, !.next = 1,
                                   !.schema = item.schema, !.items = rest])
        PROVE  pc'[w] = "version" /\ job'[w].op = "import"
    <3> DEFINE j == [job[w] EXCEPT !.id = id, !.cfg = cfg, !.next = 1,
                                   !.schema = item.schema, !.items = rest]
    <3>1. j.op = "import"
      BY <1>0, <2>1 DEF Job
    <3>2. Goto(w, "version", j)
      BY <2>3
    <3> HIDE DEF j
    <3> QED
      BY <1>0, <3>1, <3>2, GotoAlone
  <2>4. pc'[w] \in {"item", "commit", "version"} /\ job'[w].op = "import"
    BY <1>2, <2>2, <2>3 DEF InsertItem
  <2> QED
    BY <2>4 DEF Knows, OnTrack, Recorded, Chosen, Recording
<1> QED
  BY <1>1, <1>2

LEMMA WriteKnows ==
  ASSUME LInv, NEW w \in Workers, WriteRow(w)
  PROVE  Knows(w)'
<1>0. IInv /\ job[w] \in Job
  BY JobAt DEF LInv, WriteRow
<1>1. ASSUME FindByID(job[w].owner, job[w].id), Goto(w, "version", job[w])
      PROVE  Knows(w)'
  <2>1. pc'[w] = "version" /\ job'[w] = job[w] /\ job[w].op \in {"update", "rollback"}
    BY <1>0, <1>1, GotoAlone DEF WriteRow, IInv, TypeOK, JobTyped
  <2>2. Chosen(w)'
    BY <1>1, <2>1 DEF WriteRow, FindByID, LInv, Knows, Chosen
  <2> QED
    BY <2>1, <2>2 DEF Knows, OnTrack, Recorded
<1> QED
  BY <1>0, <1>1, FinishedKnows DEF WriteRow

LEMMA VersionKnows ==
  ASSUME LInv, NEW w \in Workers, InsertVersion(w)
  PROVE  Knows(w)'
<1>0. IInv /\ job[w] \in Job /\ pc[w] = "version" /\ job[w].op # "delete"
  BY JobAt DEF LInv, InsertVersion, Knows, OnTrack
<1>1. CASE Finish(w)
  BY <1>0, <1>1, FinishedKnows
<1>2. CASE /\ job[w].op = "import"
           /\ Goto(w, NextItem(job[w].items),
                   [job[w] EXCEPT !.made = @ \cup {job[w].cfg.method}])
  <2>1. pc'[w] \in {"item", "commit"} /\ job'[w].op = "import"
    BY <1>0, <1>2, GotoAlone DEF NextItem, Job
  <2> QED
    BY <2>1 DEF Knows, OnTrack, Recorded, Chosen, Recording
<1>3. CASE versions' = versions \cup {snapshotVersion(job[w])} /\ Goto(w, "commit", job[w])
  <2>1. pc'[w] = "commit" /\ job'[w] = job[w]
    BY <1>0, <1>3, GotoAlone
  <2>2. job[w].id \in issued /\ issued' = issued
    BY <1>0 DEF InsertVersion, IInv, JobInv, Targeted
  <2> QED
    BY <1>0, <1>3, <2>1, <2>2 DEF Knows, OnTrack, Recorded, Chosen
<1> QED
  BY <1>1, <1>2, <1>3 DEF InsertVersion

\* A request that goes on to its next invalidation.
LEMMA OnwardKnows ==
  ASSUME LInv, NEW w \in Workers,
         Commit(w) \/ EraseRow(w) \/ DropOld(w) \/ DropNew(w) \/ Sweep(w)
  PROVE  Knows(w)'
<1>0. IInv /\ job[w] \in Job /\ OnTrack(w)
  BY JobAt DEF LInv, Commit, EraseRow, DropOld, DropNew, Sweep, Knows
<1>1. CASE Commit(w)
  <2>1. job[w].op \in {"create", "update", "rollback", "import"}
    BY <1>0, <1>1 DEF Commit, OnTrack, Job, Ops
  <2>2. /\ pc'[w] = (IF job[w].op = "create" THEN "dropNew"
                     ELSE IF job[w].op = "import" THEN "sweep" ELSE "dropOld")
        /\ job'[w] = job[w]
    BY <1>0, <1>1, <2>1, GotoAlone DEF Commit
  <2>3. Recorded(w)'
    BY <1>1, <2>2 DEF Commit, tables, LInv, Knows, Recorded, Live
  <2> QED
    BY <2>1, <2>2, <2>3 DEF Knows, OnTrack, Chosen
<1>2. CASE EraseRow(w)
  <2>1. ASSUME Goto(w, "dropOld", job[w]) PROVE Knows(w)'
    <3>1. pc'[w] = "dropOld" /\ job'[w] = job[w] /\ job[w].op = "delete"
      BY <1>0, <1>2, <2>1, GotoAlone DEF EraseRow, OnTrack
    <3> QED
      BY <3>1 DEF Knows, OnTrack, Recorded, Chosen, Recording
  <2> QED
    BY <1>0, <1>2, <2>1, FinishedKnows DEF EraseRow
<1>3. CASE DropOld(w)
  <2>1. ASSUME job[w].op # "delete", Goto(w, "dropNew", job[w]) PROVE Knows(w)'
    <3>1. pc'[w] = "dropNew" /\ job'[w] = job[w] /\ job[w].op \in {"update", "rollback"}
      BY <1>0, <1>3, <2>1, GotoAlone DEF DropOld, OnTrack
    <3>2. Recorded(w)'
      BY <1>3, <3>1 DEF DropOld, tables, LInv, Knows, Recorded, Live
    <3> QED
      BY <3>1, <3>2 DEF Knows, OnTrack, Chosen
  <2> QED
    BY <1>0, <1>3, <2>1, FinishedKnows DEF DropOld
<1>4. CASE DropNew(w)
  BY <1>0, <1>4, FinishedKnows DEF DropNew
<1>5. CASE Sweep(w)
  <2>1. ASSUME NEW m, Goto(w, "sweep", [job[w] EXCEPT !.made = @ \ {m}])
        PROVE  Knows(w)'
    <3>1. pc'[w] = "sweep" /\ job'[w].op = "import"
      BY <1>0, <1>5, <2>1, GotoAlone DEF Sweep, OnTrack, Job
    <3> QED
      BY <3>1 DEF Knows, OnTrack, Recorded, Chosen
  <2> QED
    BY <1>0, <1>5, <2>1, FinishedKnows DEF Sweep
<1> QED
  BY <1>1, <1>2, <1>3, <1>4, <1>5

LEMMA ActsKnows ==
  ASSUME LInv, NEW w \in Workers, Acts(w)
  PROVE  Knows(w)'
BY BeginKnows, ReadKnows, InsertKnows, WriteKnows, VersionKnows, OnwardKnows,
   FinishedKnows DEF Acts, Continue, FailStatement, OutOfIds, LInv

LEMMA InitLInv == Init => LInv
BY InitIInv DEF Init, LInv, Knows, OnTrack, Recorded, Chosen

LEMMA NextLInv == LInv /\ [Next]_vars => LInv'
<1> SUFFICES ASSUME LInv, [Next]_vars PROVE LInv'
  OBVIOUS
<1>0. IInv'
  BY NextIInv DEF LInv
<1>1. ASSUME NEW w \in Workers, Acts(w)
      PROVE  \A x \in Workers : Knows(x)'
  <2>1. Alone(w) /\ Grows /\ Knows(w)'
    BY <1>1, ActsAlone, TablesGrow, ActsKnows DEF LInv
  <2> QED
    BY <2>1, OthersKnow
<1>2. ASSUME Crash, NEW x \in Workers PROVE Knows(x)'
  <2>1. pc'[x] = "idle"
    BY <1>2 DEF Crash
  <2> QED
    BY <2>1 DEF Knows, OnTrack, Recorded, Chosen
<1>3. ASSUME UNCHANGED vars, NEW x \in Workers PROVE Knows(x)'
  BY <1>3 DEF vars, LInv, Knows, OnTrack, Recorded, Chosen, Live
<1>4. \A x \in Workers : Knows(x)'
  BY <1>1, <1>2, <1>3 DEF LInv, Next, Acts
<1> QED
  BY <1>0, <1>4 DEF LInv

LEMMA LogInvariance == Spec => []LInv
BY InitLInv, NextLInv, PTL DEF Spec

\* A request that recorded its version finds that very snapshot when it goes
\* on to invalidate and answer, whatever others did meanwhile, unless the
\* endpoint was deleted under it (service.go:206-218).
THEOREM RecordsStay == Spec => []RecordedKept
<1>1. LInv => RecordedKept
  BY DEF LInv, Knows, Recorded, Recording, RecordedKept
<1> QED
  BY <1>1, LogInvariance, PTL

-----------------------------------------------------------------------------
(* A rollback records what it restores.                                    *)

\* What a rollback records is a snapshot the endpoint still has, schema
\* included, even when other requests moved the history on since it chose its
\* target (service.go:225-262).
THEOREM RollbacksRestore == Spec => RollbackRestores
<1>1. LInv /\ [Next]_vars =>
        [\A w \in Workers :
           /\ pc[w] = "version" /\ job[w].op = "rollback"
           /\ pc'[w] = "commit"
           => \E v \in versions : /\ v.ep = job[w].id
                                  /\ v.cfg = job[w].cfg
                                  /\ v.schema = job[w].schema]_vars
  <2> SUFFICES ASSUME LInv, Next, NEW w \in Workers,
                      pc[w] = "version", job[w].op = "rollback", pc'[w] = "commit"
               PROVE  \E v \in versions : /\ v.ep = job[w].id
                                          /\ v.cfg = job[w].cfg
                                          /\ v.schema = job[w].schema
    OBVIOUS
  <2>1. PICK x \in Workers : Acts(x)
    BY DEF Next, Acts, Crash
  <2>2. x = w
    BY <2>1, ActsAlone, OtherJob DEF LInv
  <2>3. InsertVersion(w)
    <3>1. CASE Begin(w)
      BY <3>1 DEF Begin, BeginCreate, BeginUpdate, BeginRollback, BeginDelete,
                  BeginImport
    <3>2. CASE FailStatement(w) \/ OutOfIds(w)
      <4>1. pc'[w] = "idle"
        BY <3>2, GotoAlone DEF FailStatement, OutOfIds, Finish, LInv
      <4> QED
        BY <4>1
    <3> QED
      BY <2>1, <2>2, <3>1, <3>2
         DEF Acts, Continue, GenerateSchema, ListForUpdate, ListForRollback,
             InsertRow, InsertItem, WriteRow, Commit, EraseRow, DropOld, DropNew,
             Sweep
  <2>4. VersionAccepted(snapshotVersion(job[w]))
    <3>1. ~Finish(w)
      BY GotoAlone DEF Finish, LInv
    <3> QED
      BY <2>3, <3>1 DEF InsertVersion
  <2>5. job[w].id \in Live
    BY <2>4 DEF VersionAccepted, snapshotVersion
  <2> QED
    BY <2>5 DEF LInv, Knows, Chosen
<1> QED
  BY <1>1, LogInvariance, PTL DEF Spec, RollbackRestores

-----------------------------------------------------------------------------
(* The registry implements the version log.                                *)

LEMMA OneVersion ==
  ASSUME IInv, NEW v \in versions
  PROVE  Numbered(v.ep, v.num) = v
BY DEF Numbered, IInv, HistoryInv, VersionsContiguous

LEMMA EntryAt ==
  ASSUME IInv, NEW v \in versions
  PROVE  v.num \in Numbers(v.ep) /\ LogOf(v.ep)[v.num] = AsEntry(v)
BY OneVersion DEF LogOf, Numbers

LEMMA VersionAt ==
  ASSUME NEW id, NEW k \in Numbers(id)
  PROVE  \E v \in versions : v.ep = id /\ v.num = k
BY DEF Numbers

LEMMA EntryTyped ==
  ASSUME NEW v \in Version
  PROVE  AsEntry(v) \in History!Entry /\ AsEntry(v).owner = v.owner
BY DEF AsEntry, History!Entry, Content, Version, Schemas

\* The log of an endpoint is a sequence.
LEMMA LogIsSequence ==
  ASSUME IInv, NEW id \in Ids, NEW n \in Nat, Numbers(id) = 1 .. n
  PROVE  LogOf(id) \in Seq(History!Entry) /\ Len(LogOf(id)) = n
<1>1. LogOf(id) = [k \in 1 .. n |-> AsEntry(Numbered(id, k))]
  BY DEF LogOf
<1>2. \A k \in 1 .. n : AsEntry(Numbered(id, k)) \in History!Entry
  <2> SUFFICES ASSUME NEW k \in 1 .. n
               PROVE  AsEntry(Numbered(id, k)) \in History!Entry
    OBVIOUS
  <2>1. PICK v \in versions : v.ep = id /\ v.num = k
    BY VersionAt
  <2>2. Numbered(id, k) = v /\ v \in Version
    BY <2>1, OneVersion DEF IInv, TypeOK, TablesTyped
  <2> QED
    BY <2>2, EntryTyped
<1>3. LogOf(id) \in [1 .. n -> History!Entry]
  BY <1>1, <1>2
<1> QED
  BY <1>3

\* A step that leaves the versions of an endpoint alone leaves its log alone.
LEMMA LogUnchanged ==
  ASSUME NEW id,
         {v \in versions' : v.ep = id} = {v \in versions : v.ep = id}
  PROVE  LogOf(id)' = LogOf(id)
<1>1. Numbers(id)' = Numbers(id)
  BY DEF Numbers
<1>2. ASSUME NEW k PROVE Numbered(id, k)' = Numbered(id, k)
  <2>1. \A v : (v \in versions' /\ v.ep = id /\ v.num = k)
               <=> (v \in versions /\ v.ep = id /\ v.num = k)
    OBVIOUS
  <2> QED
    BY <2>1 DEF Numbered
<1> QED
  BY <1>1, <1>2 DEF LogOf

\* The two facts about logs for the state before a step and the one after it.
LogRead ==
  /\ \A id \in Ids : \A n \in Nat : Numbers(id) = 1 .. n =>
       LogOf(id) \in Seq(History!Entry) /\ Len(LogOf(id)) = n
  /\ \A v \in versions : LogOf(v.ep)[v.num] = AsEntry(v)

LEMMA LogReadNow == IInv => LogRead
BY LogIsSequence, EntryAt DEF LogRead

LEMMA LogReadNext == IInv' => LogRead'
BY LogReadNow, PTL

\* An accepted version is one more entry, of the account the earlier ones
\* belong to.
LEMMA AcceptedIsRecord ==
  ASSUME IInv, IInv', NEW v \in Version, VersionAccepted(v),
         endpoints[v.ep].owner = v.owner,
         v.num = 1 \/ v.num - 1 \in Numbers(v.ep),
         versions' = versions \cup {v}, UNCHANGED <<endpoints, issued>>
  PROVE  History!Record(v.ep)
<1> DEFINE id == v.ep
           s  == LogOf(id)
           t  == LogOf(id)'
<1>1. id \in Ids /\ id \in Live /\ v \in versions' /\ v.num \in Nat \ {0}
  BY DEF VersionAccepted, Live, Version
<1>2. PICK n \in Nat : Numbers(id) = 1 .. n
  BY <1>1, NumbersInterval
<1>3. v.num = n + 1 /\ Numbers(id)' = 1 .. n + 1
  <2>1. v.num \notin Numbers(id)
    BY DEF VersionAccepted, Numbers
  <2>2. Numbers(id)' = Numbers(id) \cup {v.num}
    BY DEF Numbers
  <2> QED
    BY <1>1, <1>2, <2>1, <2>2
<1>0. LogRead /\ LogRead'
  BY LogReadNow, LogReadNext
<1>4. Len(s) = n /\ Len(t) = n + 1
  BY <1>0, <1>1, <1>2, <1>3 DEF LogRead
<1>5. t[n + 1] = AsEntry(v) /\ AsEntry(v) \in History!Entry
  <2>1. LogOf(v.ep)'[v.num] = AsEntry(v)
    BY <1>0, <1>1 DEF LogRead
  <2> QED
    BY <1>3, <2>1, EntryTyped
<1>6. ASSUME NEW k \in 1 .. n
      PROVE  t[k] = s[k] /\ t[k].owner = t[n + 1].owner
  <2>1. PICK u \in versions : u.ep = id /\ u.num = k
    <3>1. k \in Numbers(id)
      BY <1>2, <1>6
    <3> QED
      BY <3>1, VersionAt
  <2>2. s[k] = AsEntry(u) /\ t[k] = AsEntry(u)
    <3>1. LogOf(u.ep)[u.num] = AsEntry(u)
      BY <1>0 DEF LogRead
    <3>2. (LogOf(u.ep))'[u.num] = AsEntry(u)
      BY <1>0 DEF LogRead
    <3>3. LogOf(u.ep) = s /\ (LogOf(u.ep))' = t
      BY <2>1
    <3> QED
      BY <2>1, <3>1, <3>2, <3>3
  <2>4. u \in Version
    BY DEF IInv, TypeOK, TablesTyped
  <2>3. u.owner = v.owner
    BY <2>1 DEF IInv, HistoryInv, SnapshotsOwned
  <2> QED
    BY <2>2, <2>3, <2>4, <1>5, EntryTyped
<1>7. id \notin issued \ Live
  BY <1>1
<1>8. UNCHANGED (issued \ Live)
  BY DEF Live
<1>9. [i \in Ids |-> LogOf(i)]' = [[i \in Ids |-> LogOf(i)] EXCEPT ![id] = t]
  <2>1. \A i \in Ids \ {id} : LogOf(i)' = LogOf(i)
    BY LogUnchanged
  <2> QED
    BY <1>1, <2>1
<1> QED
  BY <1>1, <1>4, <1>5, <1>6, <1>7, <1>8, <1>9 DEF History!Record, History!Extends

\* The mapped variables.
Log  == [id \in Ids |-> LogOf(id)]
Gone == issued \ Live

\* Erasing an endpoint with its versions empties its log for good.
LEMMA ErasedIsErase ==
  ASSUME IInv, NEW id \in Live,
         endpoints' = [endpoints EXCEPT ![id] = NoRow],
         versions' = {v \in versions : v.ep # id},
         UNCHANGED issued
  PROVE  History!Erase(id)
<1>1. id \in Ids /\ id \in issued
  BY DEF Live, IInv, HistoryInv
<1>2. Live' = Live \ {id}
  BY <1>1 DEF Live, IInv, TypeOK, TablesTyped
<1>3. Gone' = Gone \cup {id} /\ id \notin Gone
  BY <1>1, <1>2 DEF Gone
<1>4. LogOf(id)' = <<>>
  <2>1. Numbers(id)' = {}
    BY DEF Numbers
  <2> QED
    BY <2>1 DEF LogOf
<1>5. \A i \in Ids \ {id} : LogOf(i)' = LogOf(i)
  BY LogUnchanged
<1>6. Log' = [Log EXCEPT ![id] = <<>>]
  BY <1>1, <1>4, <1>5 DEF Log
<1> QED
  BY <1>3, <1>6 DEF History!Erase, Log, Gone

\* A step that changes neither versions nor which uuids were deleted.
LEMMA LogStutters ==
  ASSUME UNCHANGED versions, Gone' = Gone
  PROVE  UNCHANGED <<Log, Gone>>
<1>1. \A i \in Ids : LogOf(i)' = LogOf(i)
  BY LogUnchanged
<1> QED
  BY <1>1 DEF Log

\* Every step of a request is a step of the log or leaves it alone.
LEMMA ActsLog ==
  ASSUME IInv, IInv', NEW w \in Workers, Acts(w)
  PROVE  History!Next \/ UNCHANGED <<Log, Gone>>
<1>1. ASSUME UNCHANGED tables PROVE UNCHANGED <<Log, Gone>>
  BY <1>1, LogStutters DEF tables, Gone, Live
<1>2. ASSUME NEW id \in Ids, NEW a \in Accounts, NEW cfg \in Snapshot,
             Insert(id, a, cfg), UNCHANGED versions
      PROVE  UNCHANGED <<Log, Gone>>
  <2>1. id \notin issued /\ issued' = issued \cup {id}
    BY <1>2 DEF Insert
  <2>2. endpoints'[id] # NoRow /\ \A i \in Ids \ {id} : endpoints'[i] = endpoints[i]
    BY <1>2, SentinelsAssumption DEF Insert, IInv, TypeOK, TablesTyped, Row
  <2>3. Live' = Live \cup {id}
    BY <2>2 DEF Live
  <2>4. Gone' = Gone
    BY <2>1, <2>3 DEF Gone, IInv, HistoryInv
  <2> QED
    BY <1>2, <2>4, LogStutters
<1>3. CASE InsertRow(w)
  <2>1. job[w].owner \in Accounts /\ job[w].cfg \in Snapshot
    BY <1>3, JobAt DEF InsertRow, Job
  <2> QED
    BY <1>1, <1>2, <1>3, <2>1 DEF InsertRow, tables
<1>4. CASE InsertItem(w)
  <2>1. job[w] \in Job /\ job[w].items # <<>>
    BY <1>4, JobAt DEF InsertItem, IInv, TypeOK, JobTyped
  <2>2. job[w].owner \in Accounts /\ Head(job[w].items) \in Item
    BY <2>1 DEF Job
  <2>3. Imported(Head(job[w].items)) \in Snapshot
    BY <2>2, ItemsImport
  <2> QED
    BY <1>1, <1>2, <1>4, <2>2, <2>3 DEF InsertItem, tables
<1>5. CASE WriteRow(w)
  <2>1. CASE UNCHANGED tables
    BY <2>1, <1>1
  <2>2. CASE /\ FindByID(job[w].owner, job[w].id)
             /\ endpoints' = [endpoints EXCEPT
                                ![job[w].id] = [owner |-> job[w].owner,
                                                cfg |-> job[w].cfg]]
    <3>1. job[w] \in Job
      BY <1>5, JobAt DEF WriteRow
    <3>2. [owner |-> job[w].owner, cfg |-> job[w].cfg] # NoRow
      BY <3>1, SentinelsAssumption DEF Job, Row
    <3>3. Live' = Live
      BY <2>2, <3>2 DEF FindByID, Live, IInv, TypeOK, TablesTyped
    <3> QED
      BY <1>5, <3>3, LogStutters DEF WriteRow, Gone
  <2> QED
    BY <1>5, <2>1, <2>2 DEF WriteRow, tables
<1>6. CASE InsertVersion(w)
  <2> DEFINE v == snapshotVersion(job[w])
  <2>1. CASE UNCHANGED versions
    BY <1>1, <1>6, <2>1 DEF InsertVersion, tables
  <2>2. CASE VersionAccepted(v) /\ versions' = versions \cup {v}
    <3>1. pc[w] = "version"
      BY <1>6 DEF InsertVersion
    <3>2. v \in Version /\ v.ep = job[w].id /\ v.num = job[w].next
          /\ v.owner = job[w].owner
      BY <3>1, VersionTyped DEF snapshotVersion
    <3>3. endpoints[v.ep].owner = v.owner /\ (v.num = 1 \/ v.num - 1 \in Numbers(v.ep))
      BY <2>2, <3>1, <3>2 DEF VersionAccepted, IInv, JobInv, Targeted
    <3>4. UNCHANGED <<endpoints, issued>>
      BY <1>6 DEF InsertVersion
    <3> HIDE DEF v
    <3>5. History!Record(v.ep) /\ v.ep \in Ids
      BY <2>2, <3>2, <3>3, <3>4, AcceptedIsRecord DEF Version
    <3> QED
      BY <3>5 DEF History!Next
  <2> QED
    BY <1>6, <2>1, <2>2 DEF InsertVersion
<1>7. CASE EraseRow(w)
  <2>1. CASE UNCHANGED tables
    BY <2>1, <1>1
  <2>2. CASE /\ FindByID(job[w].owner, job[w].id)
             /\ endpoints' = [endpoints EXCEPT ![job[w].id] = NoRow]
             /\ versions' = {v \in versions : v.ep # job[w].id}
    <3>1. job[w].id \in Live /\ job[w].id \in Ids /\ UNCHANGED issued
      BY <1>7, <2>2 DEF EraseRow, FindByID, Live
    <3> QED
      BY <2>2, <3>1, ErasedIsErase DEF History!Next
  <2> QED
    BY <1>7, <2>1, <2>2 DEF EraseRow, tables
<1>8. CASE Begin(w) \/ FailStatement(w) \/ OutOfIds(w)
  BY <1>1, <1>8 DEF Begin, BeginCreate, BeginUpdate, BeginRollback, BeginDelete,
                    BeginImport, FailStatement, OutOfIds
<1>9. CASE GenerateSchema(w) \/ ListForUpdate(w) \/ ListForRollback(w)
           \/ Commit(w) \/ DropOld(w) \/ DropNew(w) \/ Sweep(w)
  BY <1>1, <1>9 DEF GenerateSchema, ListForUpdate, ListForRollback, Commit,
                    DropOld, DropNew, Sweep
<1> QED
  BY <1>3, <1>4, <1>5, <1>6, <1>7, <1>8, <1>9 DEF Acts, Continue

\* Every step of every request, fault or crash is a step of the version log
\* or leaves it alone: a snapshot is never overwritten, renumbered or moved to
\* another account, and no write brings a deleted endpoint back
\* (service.go:206-211, 257-262; repository.go:88-124, 168-173).
THEOREM ImplementsLog == Spec => HistoryIsLog
<1>1. Init => History!Init
  <2> SUFFICES ASSUME Init PROVE History!Init
    OBVIOUS
  <2>1. \A id \in Ids : LogOf(id) = <<>>
    BY DEF Init, LogOf, Numbers
  <2> QED
    BY <2>1 DEF Init, History!Init
<1>2. IInv /\ IInv' /\ [Next]_vars => [History!Next]_<<Log, Gone>>
  <2> SUFFICES ASSUME IInv, IInv', [Next]_vars
               PROVE  History!Next \/ UNCHANGED <<Log, Gone>>
    OBVIOUS
  <2>1. CASE UNCHANGED tables
    BY <2>1, LogStutters DEF tables, Gone, Live
  <2> QED
    BY <2>1, ActsLog DEF Next, Acts, Crash, vars, tables
<1>3. IInv /\ IInv' /\ [Next]_vars
      => [History!Next]_<<[id \in Ids |-> LogOf(id)], issued \ Live>>
  BY <1>2 DEF Log, Gone
<1> QED
  BY <1>1, <1>3, InductiveInvariant, PTL DEF Spec, HistoryIsLog, History!Spec

-----------------------------------------------------------------------------

(***************************************************************************)
(* One endpoint, and the requests that change it.                          *)
(***************************************************************************)

\* The row is what the highest version of the endpoint says.
UpToDate(id) ==
  \E v \in versions : /\ v.ep = id
                      /\ v.cfg = endpoints[id].cfg
                      /\ \A u \in versions : u.ep = id => u.num <= v.num

\* w has read the endpoint it is going to change and not changed it yet.
Updates(w) == pc[w] = "write" \/ (pc[w] = "schema" /\ job[w].op = "update")
Reads(w) == pc[w] \in {"list", "erase"} \/ Updates(w)

\* w is between its first read of the endpoint and its last write to it.
Touches(w, id) == (Reads(w) \/ pc[w] = "version") /\ job[w].id = id

\* No two requests overlap on the endpoint, on any endpoint.
AloneOn(id) == \A v, w \in Workers : Touches(v, id) /\ Touches(w, id) => v = w
Apart == \A id \in Ids : AloneOn(id)

\* w has written the row and not the version.
Unwritten(w, id) == pc[w] = "version" /\ job[w].id = id

\* A request on the endpoint fails, or the process dies, between the row and
\* its version.
Cut(id) == \E w \in Workers : Unwritten(w, id) /\ (FailStatement(w) \/ Crash)

\* The row is still as w read it, later as w wrote it, and the number of its
\* version is the next one.
SeesRow(w) ==
  LET j == job[w]
  IN  /\ Reads(w) => j.id \in Live /\ endpoints[j.id].cfg = j.before
      /\ pc[w] = "version" => j.id \in Live /\ endpoints[j.id].cfg = j.cfg
      /\ Updates(w) \/ pc[w] = "version" => Numbers(j.id) = 1 .. j.next - 1

Seen(id) == \A w \in Workers : Touches(w, id) => SeesRow(w)

\* The row is up to date unless a request has just written it.
Recent(id) == id \in Live => UpToDate(id) \/ \E w \in Workers : Unwritten(w, id)

\* The step keeps what is known of the endpoint.
Kept(id) == Seen(id)' /\ (Recent(id) => Recent(id)')

-----------------------------------------------------------------------------
(* The row of an endpoint, for steps that leave it alone.                  *)

SameRow(id) ==
  /\ endpoints'[id] = endpoints[id]
  /\ {v \in versions' : v.ep = id} = {v \in versions : v.ep = id}

LEMMA SameRowSame ==
  ASSUME NEW id \in Ids, SameRow(id)
  PROVE  /\ id \in Live' <=> id \in Live
         /\ UpToDate(id)' <=> UpToDate(id)
         /\ Numbers(id)' = Numbers(id)
<1>1. UpToDate(id)' <=> UpToDate(id)
  <2> DEFINE vs == {v \in versions : v.ep = id}
  <2>1. UpToDate(id) <=> \E v \in vs : /\ v.cfg = endpoints[id].cfg
                                       /\ \A u \in vs : u.num <= v.num
    BY DEF UpToDate
  <2>2. UpToDate(id)' <=> \E v \in vs' : /\ v.cfg = endpoints'[id].cfg
                                         /\ \A u \in vs' : u.num <= v.num
    BY DEF UpToDate
  <2>3. vs' = vs /\ endpoints'[id] = endpoints[id]
    BY DEF SameRow
  <2> HIDE DEF vs
  <2> QED
    BY <2>1, <2>2, <2>3
<1>2. Numbers(id)' = Numbers(id)
  BY DEF Numbers, SameRow
<1> QED
  BY <1>1, <1>2 DEF Live, SameRow

\* A step of w that does not write the row, and after which w, if it is about
\* the endpoint, has seen it.
LEMMA SeenLeft ==
  ASSUME IInv, NEW id \in Ids, Seen(id), NEW w \in Workers, Alone(w),
         SameRow(id), Touches(w, id)' => SeesRow(w)'
  PROVE  Seen(id)' /\ (Recent(id) /\ ~Unwritten(w, id) => Recent(id)')
<1>1. ASSUME NEW x \in Workers, x # w
      PROVE  /\ Touches(x, id)' <=> Touches(x, id)
             /\ Unwritten(x, id)' <=> Unwritten(x, id)
             /\ Touches(x, id) /\ SeesRow(x) => SeesRow(x)'
  <2>1. pc'[x] = pc[x] /\ job'[x] = job[x]
    BY <1>1, OtherJob
  <2>2. (Reads(x)' <=> Reads(x)) /\ (Updates(x)' <=> Updates(x))
    BY <2>1 DEF Reads, Updates
  <2>3. Touches(x, id) /\ SeesRow(x) => SeesRow(x)'
    <3> SUFFICES ASSUME Touches(x, id), SeesRow(x) PROVE SeesRow(x)'
      OBVIOUS
    <3>1. job[x].id = id
      BY DEF Touches
    <3>2. endpoints'[id] = endpoints[id]
      BY DEF SameRow
    <3> QED
      BY <2>1, <2>2, <3>1, <3>2, SameRowSame DEF SeesRow
  <2> QED
    BY <2>1, <2>2, <2>3 DEF Touches, Unwritten
<1>2. \A x \in Workers : Touches(x, id)' => SeesRow(x)'
  BY <1>1 DEF Seen
<1>3. ASSUME Recent(id), ~Unwritten(w, id), id \in Live'
      PROVE  UpToDate(id)' \/ \E x \in Workers : Unwritten(x, id)'
  BY <1>1, <1>3, SameRowSame DEF Recent
<1> QED
  BY <1>2, <1>3 DEF Seen, Recent

LEMMA RowLeft ==
  ASSUME IInv, NEW id \in Ids, Seen(id), NEW w \in Workers, Alone(w),
         SameRow(id), ~Unwritten(w, id), Touches(w, id)' => SeesRow(w)'
  PROVE  Kept(id)
BY SeenLeft DEF Kept

LEMMA SameTables ==
  ASSUME UNCHANGED tables, NEW id
  PROVE  SameRow(id)
BY DEF SameRow, tables

\* At these steps a request is about no row.
LEMMA TouchesNothing ==
  ASSUME NEW w \in Workers, NEW id,
         \/ pc'[w] \in {"idle", "insert", "item", "commit", "dropOld", "dropNew", "sweep"}
         \/ pc'[w] = "schema" /\ job'[w].op = "create"
  PROVE  ~Touches(w, id)'
BY DEF Touches, Reads, Updates

LEMMA RowFinish ==
  ASSUME IInv, NEW id \in Ids, Seen(id), NEW w \in Workers, ~Unwritten(w, id),
         UNCHANGED tables, Finish(w)
  PROVE  Kept(id)
<1>1. pc'[w] = "idle" /\ Alone(w)
  BY GotoAlone DEF Finish
<1> QED
  BY <1>1, TouchesNothing, SameTables, RowLeft

\* FindByID has returned the row as it is.
LEMMA BeginSees ==
  ASSUME IInv, NEW w \in Workers, Begin(w), NEW id \in Ids, Touches(w, id)'
  PROVE  SeesRow(w)'
<1>0. UNCHANGED tables
  BY DEF Begin, BeginCreate, BeginUpdate, BeginRollback, BeginDelete, BeginImport
<1>1. ASSUME NEW a \in Accounts, NEW in \in CreateInputs, BeginCreate(w, a, in)
      PROVE  FALSE
  <2>1. pc'[w] = "schema" /\ job'[w].op = "create"
    BY <1>1, GotoAlone DEF BeginCreate, NewJob
  <2> QED
    BY <2>1, TouchesNothing
<1>2. ASSUME NEW a \in Accounts, NEW doc \in ImportDocs, BeginImport(w, a, doc)
      PROVE  FALSE
  <2>1. pc'[w] = "item"
    BY <1>2, GotoAlone DEF BeginImport
  <2> QED
    BY <2>1, TouchesNothing
<1>3. ASSUME NEW a \in Accounts, NEW i \in Ids, FindByID(a, i),
             NEW op, NEW cfg, NEW s \in {"list", "erase"},
             Goto(w, s, NewJob(op, a, i, endpoints[i].cfg, cfg))
      PROVE  SeesRow(w)'
  <2> DEFINE j == NewJob(op, a, i, endpoints[i].cfg, cfg)
  <2>1. pc'[w] = s /\ job'[w] = j
    BY <1>3, GotoAlone
  <2>2. j.id = i /\ j.before = endpoints[i].cfg
    BY DEF NewJob
  <2>3. i \in Live' /\ endpoints'[i] = endpoints[i]
    BY <1>0, <1>3 DEF FindByID, tables, Live
  <2> HIDE DEF j
  <2> QED
    BY <2>1, <2>2, <2>3 DEF SeesRow, Updates
<1> QED
  BY <1>1, <1>2, <1>3 DEF Begin, BeginUpdate, BeginRollback, BeginDelete

LEMMA RowBegin ==
  ASSUME IInv, NEW id \in Ids, Seen(id), NEW w \in Workers, Begin(w)
  PROVE  Kept(id)
<1>1. pc[w] = "idle" /\ UNCHANGED tables
  BY DEF Begin, BeginCreate, BeginUpdate, BeginRollback, BeginDelete, BeginImport
<1>2. Alone(w)
  BY ActsAlone DEF Acts
<1> QED
  BY <1>1, <1>2, BeginSees, SameTables, RowLeft DEF Unwritten

\* Nobody moved the history on: the number nextVersion gives is the next one.
LEMMA NextExact ==
  ASSUME IInv, NEW w \in Workers, Targeted(w), job[w].id \in Live,
         NEW vs, vs = ListVersions(job[w].owner, job[w].id)
  PROVE  Numbers(job[w].id) = 1 .. nextVersion(vs) - 1
<1>1. PICK n \in Nat : Numbers(job[w].id) = 1 .. n
  BY NumbersInterval DEF Live
<1>2. vs = {u \in versions : u.ep = job[w].id}
  BY DEF ListVersions, IInv, HistoryInv, SnapshotsOwned, JobInv
<1>3. {v.num : v \in vs} = 1 .. n
  BY <1>1, <1>2 DEF Numbers
<1>4. nextVersion(vs) = n + 1
  BY <1>3, MaxOfInterval DEF nextVersion
<1> QED
  BY <1>1, <1>4

LEMMA ListedSees ==
  ASSUME LInv, NEW w \in Workers, pc[w] = "list", SeesRow(w),
         NEW s \in {"schema", "write"}, NEW j, Goto(w, s, j),
         j.id = job[w].id, j.before = job[w].before,
         j.next = nextVersion(ListVersions(job[w].owner, job[w].id)),
         UNCHANGED tables
  PROVE  SeesRow(w)'
<1>1. pc'[w] = s /\ job'[w] = j
  BY GotoAlone DEF LInv
<1>2. Targeted(w)
  BY DEF Targeted, LInv, Knows, OnTrack
<1>3. job[w].id \in Live /\ endpoints[job[w].id].cfg = job[w].before
  BY DEF SeesRow, Reads
<1>4. Numbers(job[w].id) = 1 .. j.next - 1
  BY <1>2, <1>3, NextExact DEF LInv
<1>5. PICK i : i = job[w].id
  OBVIOUS
<1>6. i \in Live' /\ Numbers(i)' = Numbers(i) /\ endpoints' = endpoints
  BY <1>3, <1>5 DEF tables, Live, Numbers
<1> QED
  BY <1>1, <1>3, <1>4, <1>5, <1>6 DEF SeesRow

\* The reads of a request and the AI call leave it the row it has seen.
LEMMA ReadSees ==
  ASSUME LInv, NEW w \in Workers, NEW id \in Ids,
         GenerateSchema(w) \/ ListForUpdate(w) \/ ListForRollback(w),
         Touches(w, id) => SeesRow(w), Touches(w, id)'
  PROVE  SeesRow(w)'
<1>0. IInv /\ job[w] \in Job /\ UNCHANGED tables
  BY JobAt DEF LInv, GenerateSchema, ListForUpdate, ListForRollback
<1> DEFINE vs == ListVersions(job[w].owner, job[w].id)
           n  == nextVersion(vs)
<1>1. CASE GenerateSchema(w)
  <2>1. PICK x : Goto(w, IF job[w].op = "create" THEN "insert" ELSE "write",
                      [job[w] EXCEPT !.schema = x])
    BY <1>1 DEF GenerateSchema
  <2> DEFINE j == [job[w] EXCEPT !.schema = x]
  <2>2. j.id = job[w].id /\ j.before = job[w].before /\ j.next = job[w].next
    BY <1>0 DEF Job
  <2> HIDE DEF j
  <2>3. pc'[w] = (IF job[w].op = "create" THEN "insert" ELSE "write") /\ job'[w] = j
    BY <1>0, <2>1, GotoAlone DEF j
  <2>4. job[w].op \in {"create", "update"} /\ pc[w] = "schema"
    BY <1>0, <1>1 DEF GenerateSchema, IInv, TypeOK, JobTyped
  <2>5. job[w].op = "update"
    BY <2>3, <2>4, TouchesNothing
  <2>6. SeesRow(w)
    BY <2>2, <2>3, <2>4, <2>5 DEF Touches, Reads, Updates
  <2>7. PICK i : i = job[w].id
    OBVIOUS
  <2>8. Live' = Live /\ Numbers(i)' = Numbers(i) /\ endpoints' = endpoints
    BY <1>0 DEF tables, Live, Numbers
  <2> QED
    BY <1>0, <2>2, <2>3, <2>4, <2>5, <2>6, <2>7, <2>8
       DEF SeesRow, Reads, Updates
<1>a. ASSUME pc[w] = "list", job'[w].id = job[w].id PROVE SeesRow(w)
  BY <1>a DEF Touches, Reads
<1>2. CASE ListForUpdate(w)
  <2> DEFINE c  == IF vs = {} THEN NoSchema ELSE Latest(vs).schema
             j1 == [job[w] EXCEPT !.next = n]
             j2 == [job[w] EXCEPT !.next = n, !.schema = c]
  <2>0. pc[w] = "list" /\ (Goto(w, "schema", j1) \/ Goto(w, "write", j2))
    BY <1>2 DEF ListForUpdate
  <2> HIDE DEF n, c
  <2>1. /\ j1.id = job[w].id /\ j1.before = job[w].before /\ j1.next = n
        /\ j2.id = job[w].id /\ j2.before = job[w].before /\ j2.next = n
    BY <1>0 DEF Job
  <2> HIDE DEF j1, j2
  <2>2. job'[w] \in {j1, j2}
    BY <1>0, <2>0, GotoAlone
  <2>3. SeesRow(w)
    BY <1>a, <2>0, <2>1, <2>2
  <2> QED
    BY <1>0, <2>0, <2>1, <2>3, ListedSees DEF n
<1>3. CASE ListForRollback(w)
  <2>1. ASSUME NEW target \in vs,
               Goto(w, "write", [job[w] EXCEPT !.cfg = target.cfg,
                                               !.schema = target.schema,
                                               !.next = n])
        PROVE  SeesRow(w)'
    <3> DEFINE j == [job[w] EXCEPT !.cfg = target.cfg, !.schema = target.schema,
                                   !.next = n]
    <3> HIDE DEF n
    <3>1. j.id = job[w].id /\ j.before = job[w].before /\ j.next = n
      BY <1>0 DEF Job
    <3>2. Goto(w, "write", j) /\ pc[w] = "list"
      BY <1>3, <2>1 DEF ListForRollback
    <3> HIDE DEF j
    <3>3. SeesRow(w)
      BY <1>0, <1>a, <3>1, <3>2, GotoAlone
    <3> QED
      BY <1>0, <3>1, <3>2, <3>3, ListedSees DEF n
  <2>2. ~Finish(w)
    BY <1>0, GotoAlone, TouchesNothing DEF Finish
  <2> QED
    BY <1>3, <2>1, <2>2 DEF ListForRollback
<1> QED
  BY <1>1, <1>2, <1>3

LEMMA RowRead ==
  ASSUME LInv, NEW id \in Ids, Seen(id), NEW w \in Workers,
         GenerateSchema(w) \/ ListForUpdate(w) \/ ListForRollback(w)
  PROVE  Kept(id)
<1>1. IInv /\ UNCHANGED tables /\ ~Unwritten(w, id)
  BY DEF LInv, GenerateSchema, ListForUpdate, ListForRollback, Unwritten
<1>2. Alone(w)
  BY <1>1, ActsAlone DEF Acts, Continue
<1>3. Touches(w, id) => SeesRow(w)
  BY DEF Seen
<1>4. Touches(w, id)' => SeesRow(w)'
  BY <1>3, ReadSees
<1> QED
  BY <1>1, <1>2, <1>4, SameTables, RowLeft

-----------------------------------------------------------------------------
(* The row of an endpoint, for the writes.                                 *)

\* A request that has just written its row, which no other request is about:
\* only the row is ahead.
LEMMA RowWritten ==
  ASSUME IInv, NEW id \in Ids, NEW w \in Workers, Alone(w),
         \A x \in Workers \ {w} : ~Touches(x, id), UNCHANGED versions,
         pc'[w] = "version", job'[w].id = id, id \in Live',
         endpoints'[id].cfg = job'[w].cfg, Numbers(id) = 1 .. job'[w].next - 1
  PROVE  Kept(id)
<1>1. Numbers(id)' = Numbers(id)
  BY DEF Numbers
<1>2. SeesRow(w)'
  BY <1>1 DEF SeesRow, Reads, Updates
<1>3. ASSUME NEW x \in Workers, x # w PROVE ~Touches(x, id)'
  <2>1. pc'[x] = pc[x] /\ job'[x] = job[x]
    BY <1>3, OtherJob
  <2> QED
    BY <1>3, <2>1 DEF Touches, Reads, Updates
<1> QED
  BY <1>2, <1>3 DEF Seen, Recent, Kept, Unwritten

\* An endpoint inserted under a new uuid, which no request has read yet.
LEMMA RowInserted ==
  ASSUME LInv, NEW id \in Ids, Seen(id), NEW w \in Workers, Alone(w),
         ~Unwritten(w, id), NEW x \in Ids, NEW a, NEW cfg, Insert(x, a, cfg),
         [owner |-> a, cfg |-> cfg] # NoRow,
         UNCHANGED versions, pc'[w] = "version", job'[w].id = x,
         job'[w].cfg = cfg, job'[w].next = 1
  PROVE  Kept(id)
<1>0. IInv
  BY DEF LInv
<1>1. /\ endpoints'[x] = [owner |-> a, cfg |-> cfg]
      /\ \A i \in Ids \ {x} : endpoints'[i] = endpoints[i]
  BY <1>0 DEF Insert, IInv, TypeOK, TablesTyped
<1>2. CASE x # id
  <2>1. SameRow(id)
    BY <1>1, <1>2 DEF SameRow
  <2>2. ~Touches(w, id)'
    BY <1>2 DEF Touches
  <2> QED
    BY <1>0, <2>1, <2>2, RowLeft
<1>3. CASE x = id
  <2>1. id \notin Live
    BY <1>0, <1>3 DEF Insert, IInv, HistoryInv
  <2>2. Numbers(id) = {}
    BY <1>0, <2>1 DEF Numbers, IInv, HistoryInv, SnapshotsOwned
  <2>3. \A v \in Workers : ~Touches(v, id)
    <3>1. ASSUME NEW v \in Workers, Touches(v, id) PROVE Targeted(v)
      BY <3>1 DEF LInv, Knows, OnTrack, Targeted, Touches, Reads, Updates,
                  IInv, TypeOK, JobTyped
    <3>2. \A v \in Workers : Targeted(v) => job[v].id \in issued
      BY <1>0 DEF IInv, JobInv
    <3> QED
      BY <1>3, <3>1, <3>2 DEF Insert, Touches
  <2>4. id \in Live' /\ endpoints'[id].cfg = job'[w].cfg
    BY <1>1, <1>3 DEF Live
  <2>5. Numbers(id) = 1 .. job'[w].next - 1
    BY <2>2
  <2> QED
    BY <1>0, <1>3, <2>3, <2>4, <2>5, RowWritten
<1> QED
  BY <1>2, <1>3

LEMMA RowInsert ==
  ASSUME LInv, NEW id \in Ids, Seen(id), NEW w \in Workers,
         InsertRow(w) \/ InsertItem(w)
  PROVE  Kept(id)
<1>0. /\ IInv /\ job[w] \in Job /\ UNCHANGED versions /\ ~Unwritten(w, id)
      /\ Alone(w)
  BY JobAt, ActsAlone DEF LInv, InsertRow, InsertItem, Unwritten, Acts, Continue
<1>1. CASE InsertRow(w)
  <2>1. CASE Finish(w) /\ UNCHANGED <<endpoints, issued>>
    BY <1>0, <2>1, RowFinish DEF tables
  <2>2. ASSUME NEW x \in Ids, Insert(x, job[w].owner, job[w].cfg),
               Goto(w, "version", [job[w] EXCEPT !.id = x, !.next = 1])
        PROVE  Kept(id)
    <3> DEFINE j == [job[w] EXCEPT !.id = x, !.next = 1]
    <3>1. j.id = x /\ j.cfg = job[w].cfg /\ j.next = 1
      BY <1>0 DEF Job
    <3>2. Goto(w, "version", j)
      BY <2>2
    <3> HIDE DEF j
    <3>3. pc'[w] = "version" /\ job'[w] = j
      BY <1>0, <3>2, GotoAlone
    <3>4. [owner |-> job[w].owner, cfg |-> job[w].cfg] # NoRow
      BY <1>0, SentinelsAssumption DEF Job, Row
    <3> QED
      BY <1>0, <2>2, <3>1, <3>3, <3>4, RowInserted
  <2> QED
    BY <1>1, <2>1, <2>2 DEF InsertRow
<1>2. CASE InsertItem(w)
  <2> DEFINE item == Head(job[w].items)
             rest == Tail(job[w].items)
             cfg  == Imported(item)
             j1   == [job[w] EXCEPT !.items = rest]
  <2>1. CASE Goto(w, NextItem(rest), j1) /\ UNCHANGED <<endpoints, issued>>
    <3> HIDE DEF j1
    <3>1. pc'[w] \in {"item", "commit"}
      BY <1>0, <2>1, GotoAlone DEF NextItem
    <3> QED
      BY <1>0, <2>1, <3>1, TouchesNothing, SameTables, RowLeft DEF tables
  <2>2. ASSUME NEW x \in Ids, Insert(x, job[w].owner, cfg),
               Goto(w, "version",
                    [job[w] EXCEPT !.id = x, !.cfg = cfg, !.next = 1,
                                   !.schema = item.schema, !.items = rest])
        PROVE  Kept(id)
    <3> DEFINE j == [job[w] EXCEPT !.id = x, !.cfg = cfg, !.next = 1,
                                   !.schema = item.schema, !.items = rest]
    <3>1. job[w].items # <<>>
      BY <1>2 DEF InsertItem, LInv, IInv, TypeOK, JobTyped
    <3>2. item \in Item /\ job[w].owner \in Accounts
      BY <1>0, <3>1 DEF Job
    <3>3. [owner |-> job[w].owner, cfg |-> cfg] # NoRow
      BY <3>2, ItemsImport, SentinelsAssumption DEF Row
    <3> HIDE DEF item, rest, cfg
    <3>4. j.id = x /\ j.cfg = cfg /\ j.next = 1
      BY <1>0 DEF Job
    <3>5. Goto(w, "version", j)
      BY <2>2 DEF cfg, item, rest
    <3> HIDE DEF j
    <3>6. pc'[w] = "version" /\ job'[w] = j
      BY <1>0, <3>5, GotoAlone
    <3> QED
      BY <1>0, <2>2, <3>3, <3>4, <3>6, RowInserted
  <2> QED
    BY <1>2, <2>1, <2>2 DEF InsertItem
<1> QED
  BY <1>1, <1>2

\* The only request about an endpoint has seen its row.
LEMMA OnlyOne ==
  ASSUME NEW id \in Ids, Seen(id), AloneOn(id), NEW w \in Workers, Touches(w, id)
  PROVE  /\ SeesRow(w)
         /\ \A x \in Workers \ {w} : ~Touches(x, id)
BY DEF Seen, AloneOn

LEMMA RowWrite ==
  ASSUME LInv, NEW id \in Ids, Seen(id), AloneOn(id), NEW w \in Workers,
         WriteRow(w)
  PROVE  Kept(id)
<1>0. /\ IInv /\ job[w] \in Job /\ pc[w] = "write"
      /\ UNCHANGED <<versions, issued>> /\ ~Unwritten(w, id) /\ Alone(w)
  BY JobAt, ActsAlone DEF LInv, WriteRow, Unwritten, Acts, Continue
<1>1. CASE Finish(w) /\ UNCHANGED endpoints
  BY <1>0, <1>1, RowFinish DEF tables
<1>2. CASE /\ FindByID(job[w].owner, job[w].id)
           /\ endpoints' = [endpoints EXCEPT
                              ![job[w].id] = [owner |-> job[w].owner, cfg |-> job[w].cfg]]
           /\ Goto(w, "version", job[w])
  <2>1. pc'[w] = "version" /\ job'[w] = job[w] /\ job[w].id \in Ids
    BY <1>0, <1>2, GotoAlone DEF FindByID, Live
  <2>2. /\ endpoints'[job[w].id] = [owner |-> job[w].owner, cfg |-> job[w].cfg]
        /\ \A i \in Ids \ {job[w].id} : endpoints'[i] = endpoints[i]
    BY <1>0, <1>2, <2>1 DEF IInv, TypeOK, TablesTyped
  <2>3. CASE job[w].id # id
    <3>1. SameRow(id) /\ ~Touches(w, id)'
      BY <1>0, <2>1, <2>2, <2>3 DEF SameRow, Touches
    <3> QED
      BY <1>0, <3>1, RowLeft
  <2>4. CASE job[w].id = id
    <3>1. [owner |-> job[w].owner, cfg |-> job[w].cfg] # NoRow
      BY <1>0, SentinelsAssumption DEF Job, Row
    <3>2. id \in Live' /\ endpoints'[id].cfg = job'[w].cfg
      BY <2>1, <2>2, <2>4, <3>1 DEF Live
    <3>3. Touches(w, id)
      BY <1>0, <2>4 DEF Touches, Reads, Updates
    <3>4. Numbers(id) = 1 .. job'[w].next - 1
      BY <1>0, <2>1, <2>4, <3>3, OnlyOne DEF SeesRow, Updates
    <3> QED
      BY <1>0, <2>1, <2>4, <3>2, <3>3, <3>4, OnlyOne, RowWritten
  <2> QED
    BY <2>3, <2>4
<1> QED
  BY <1>1, <1>2 DEF WriteRow

\* The version is accepted, and it is the highest one.
LEMMA VersionFits ==
  ASSUME LInv, NEW w \in Workers, pc[w] = "version", SeesRow(w)
  PROVE  LET v == snapshotVersion(job[w])
         IN  /\ VersionAccepted(v)
             /\ v.ep \in Live /\ v.cfg = endpoints[v.ep].cfg
             /\ \A u \in versions : u.ep = v.ep => u.num <= v.num
<1> DEFINE v == snapshotVersion(job[w])
<1>1. v.ep = job[w].id /\ v.num = job[w].next /\ v.cfg = job[w].cfg
  BY DEF snapshotVersion
<1>2. /\ v.ep \in Live /\ endpoints[v.ep].cfg = v.cfg
      /\ Numbers(v.ep) = 1 .. v.num - 1
  BY <1>1 DEF SeesRow
<1>3. v.num \in Nat \ {0}
  BY VersionTyped DEF LInv, Version
<1> HIDE DEF v
<1>4. \A u \in versions : u.ep = v.ep => u.num \in 1 .. v.num - 1
  BY <1>2 DEF Numbers
<1>5. \A u \in versions : u.ep = v.ep => u.num # v.num /\ u.num <= v.num
  BY <1>3, <1>4
<1>6. VersionAccepted(v)
  BY <1>2, <1>5 DEF VersionAccepted
<1> QED
  BY <1>2, <1>5, <1>6 DEF v

LEMMA RowVersion ==
  ASSUME LInv, NEW id \in Ids, Seen(id), AloneOn(id), NEW w \in Workers,
         InsertVersion(w)
  PROVE  Kept(id)
<1>a. PICK v : v = snapshotVersion(job[w])
  OBVIOUS
<1>0. /\ IInv /\ job[w] \in Job /\ pc[w] = "version" /\ v.ep = job[w].id
      /\ UNCHANGED <<endpoints, issued>> /\ Alone(w)
  BY <1>a, JobAt, ActsAlone
     DEF LInv, InsertVersion, snapshotVersion, Acts, Continue
<1>1. pc'[w] \in {"item", "commit", "idle"}
  <2> DEFINE j == [job[w] EXCEPT !.made = @ \cup {job[w].cfg.method}]
  <2>1. \/ Goto(w, NextItem(job[w].items), j) \/ Goto(w, "commit", job[w])
        \/ Finish(w)
    BY <1>a, <1>0 DEF InsertVersion
  <2> HIDE DEF j
  <2> QED
    BY <1>0, <2>1, GotoAlone DEF NextItem, Finish
<1>2. ~Touches(w, id)'
  BY <1>1, TouchesNothing
<1>3. versions' = versions \/ versions' = versions \cup {v}
  BY <1>a DEF InsertVersion
<1>4. CASE v.ep # id
  <2>1. SameRow(id) /\ ~Unwritten(w, id)
    BY <1>0, <1>3, <1>4 DEF SameRow, Unwritten
  <2> QED
    BY <1>0, <1>2, <2>1, RowLeft
<1>5. CASE v.ep = id
  <2>0. Touches(w, id)
    BY <1>0, <1>5 DEF Touches
  <2>1. /\ VersionAccepted(v) /\ id \in Live /\ v.cfg = endpoints[id].cfg
        /\ \A u \in versions : u.ep = id => u.num <= v.num
    BY <1>a, <1>0, <1>5, <2>0, OnlyOne, VersionFits
  <2>2. versions' = versions \cup {v} /\ v \in Version
    BY <1>a, <1>0, <2>1, VersionTyped DEF InsertVersion
  <2>3. v.num \in Nat /\ \A u \in versions' : u.ep = id => u.num <= v.num
    <3>1. v.num \in Nat
      BY <2>2 DEF Version
    <3>2. v.num <= v.num
      BY <3>1
    <3> QED
      BY <2>1, <2>2, <3>1, <3>2
  <2>4. UpToDate(id)'
    <3>1. v \in versions' /\ v.cfg = endpoints'[id].cfg
      BY <1>0, <2>1, <2>2
    <3> QED
      BY <1>5, <2>3, <3>1 DEF UpToDate
  <2>5. ASSUME NEW x \in Workers PROVE ~Touches(x, id)'
    <3>1. CASE x # w
      <4>1. pc'[x] = pc[x] /\ job'[x] = job[x]
        BY <1>0, <3>1, OtherJob
      <4>2. ~Touches(x, id)
        BY <2>0, <3>1, OnlyOne
      <4> QED
        BY <4>1, <4>2 DEF Touches, Reads, Updates
    <3> QED
      BY <1>2, <3>1
  <2> QED
    BY <2>4, <2>5 DEF Seen, Recent, Kept
<1> QED
  BY <1>4, <1>5

LEMMA RowErase ==
  ASSUME LInv, NEW id \in Ids, Seen(id), AloneOn(id), NEW w \in Workers,
         EraseRow(w)
  PROVE  Kept(id)
<1>0. /\ IInv /\ pc[w] = "erase" /\ ~Unwritten(w, id) /\ Alone(w)
      /\ UNCHANGED issued
  BY ActsAlone DEF LInv, EraseRow, Unwritten, Acts, Continue
<1>1. CASE Finish(w) /\ UNCHANGED <<endpoints, versions>>
  BY <1>0, <1>1, RowFinish DEF tables
<1>2. CASE /\ endpoints' = [endpoints EXCEPT ![job[w].id] = NoRow]
           /\ versions' = {v \in versions : v.ep # job[w].id}
           /\ Goto(w, "dropOld", job[w])
  <2>1. ~Touches(w, id)'
    BY <1>0, <1>2, GotoAlone, TouchesNothing
  <2>2. CASE job[w].id # id
    <3>1. endpoints'[id] = endpoints[id]
      BY <1>0, <1>2, <2>2 DEF IInv, TypeOK, TablesTyped
    <3>2. SameRow(id)
      BY <1>2, <2>2, <3>1 DEF SameRow
    <3> QED
      BY <1>0, <2>1, <3>2, RowLeft
  <2>3. CASE job[w].id = id
    <3>1. id \notin Live'
      BY <1>0, <1>2, <2>3 DEF Live, IInv, TypeOK, TablesTyped
    <3>2. Touches(w, id)
      BY <1>0, <2>3 DEF Touches, Reads
    <3>3. ASSUME NEW x \in Workers PROVE ~Touches(x, id)'
      <4>1. CASE x # w
        <5>1. pc'[x] = pc[x] /\ job'[x] = job[x]
          BY <1>0, <4>1, OtherJob
        <5>2. ~Touches(x, id)
          BY <3>2, <4>1, OnlyOne
        <5> QED
          BY <5>1, <5>2 DEF Touches, Reads, Updates
      <4> QED
        BY <2>1, <4>1
    <3> QED
      BY <3>1, <3>3 DEF Seen, Recent, Kept
  <2> QED
    BY <2>2, <2>3
<1> QED
  BY <1>1, <1>2 DEF EraseRow

LEMMA RowOnward ==
  ASSUME IInv, NEW id \in Ids, Seen(id), NEW w \in Workers, ~Unwritten(w, id),
         Commit(w) \/ DropOld(w) \/ DropNew(w) \/ Sweep(w) \/ OutOfIds(w)
  PROVE  Kept(id)
<1>0. UNCHANGED tables
  BY DEF Commit, DropOld, DropNew, Sweep, OutOfIds
<1>1. ASSUME NEW s \in {"idle", "dropOld", "dropNew", "sweep"}, NEW j, Goto(w, s, j)
      PROVE  Kept(id)
  <2>1. pc'[w] = s /\ Alone(w)
    BY <1>1, GotoAlone
  <2> QED
    BY <1>0, <2>1, TouchesNothing, SameTables, RowLeft
<1> QED
  BY <1>1 DEF Commit, DropOld, DropNew, Sweep, OutOfIds, Finish

\* A request that is cut off between its two writes, and every other step.
LEMMA RowActs ==
  ASSUME LInv, NEW id \in Ids, Seen(id), AloneOn(id), NEW w \in Workers, Acts(w)
  PROVE  /\ Seen(id)'
         /\ Recent(id) /\ ~(Unwritten(w, id) /\ FailStatement(w)) => Recent(id)'
<1>0. IInv
  BY DEF LInv
<1>1. CASE Commit(w) \/ DropOld(w) \/ DropNew(w) \/ Sweep(w) \/ OutOfIds(w)
  <2>1. ~Unwritten(w, id)
    BY <1>1 DEF Unwritten, Commit, DropOld, DropNew, Sweep, OutOfIds
  <2> QED
    BY <1>0, <1>1, <2>1, RowOnward DEF Kept
<1>2. CASE FailStatement(w)
  <2>1. ~Touches(w, id)' /\ SameRow(id) /\ Alone(w)
    BY <1>0, <1>2, GotoAlone, TouchesNothing, SameTables
       DEF FailStatement, Finish, tables
  <2> QED
    BY <1>0, <1>2, <2>1, SeenLeft
<1> QED
  BY <1>0, <1>1, <1>2, RowBegin, RowRead, RowInsert, RowWrite, RowVersion, RowErase
     DEF Acts, Continue, Kept

LEMMA RowCrash ==
  ASSUME NEW id \in Ids, Crash
  PROVE  /\ Seen(id)'
         /\ Recent(id) /\ (\A w \in Workers : ~Unwritten(w, id)) => Recent(id)'
<1>1. SameRow(id)
  BY SameTables DEF Crash
<1>2. \A w \in Workers : ~Touches(w, id)'
  BY DEF Crash, Touches, Reads, Updates
<1> QED
  BY <1>1, <1>2, SameRowSame DEF Seen, Recent

-----------------------------------------------------------------------------
(* Rows in every reachable state.                                          *)

LEMMA InitRow ==
  ASSUME NEW id \in Ids
  PROVE  Init => Seen(id) /\ Recent(id)
<1> SUFFICES ASSUME Init PROVE Seen(id) /\ Recent(id)
  OBVIOUS
<1> QED
  BY DEF Init, Live, Seen, Recent, Touches, Reads, Updates

\* A step that changes nothing.
LEMMA RowSame ==
  ASSUME NEW id \in Ids, Seen(id), UNCHANGED vars
  PROVE  Kept(id)
<1>0. UNCHANGED tables /\ UNCHANGED <<pc, job>>
  BY DEF vars, tables
<1>1. SameRow(id)
  BY <1>0, SameTables
<1>2. \A w \in Workers : /\ Touches(w, id)' <=> Touches(w, id)
                         /\ Unwritten(w, id)' <=> Unwritten(w, id)
                         /\ SeesRow(w)' <=> SeesRow(w)
  BY DEF vars, tables, Touches, Unwritten, SeesRow, Reads, Updates, Live, Numbers
<1> QED
  BY <1>1, <1>2, SameRowSame DEF Seen, Recent, Kept

LEMMA NextRow ==
  ASSUME NEW id \in Ids
  PROVE  LInv /\ Seen(id) /\ AloneOn(id) /\ [Next]_vars
           => Seen(id)' /\ (Recent(id) /\ [~Cut(id)]_vars => Recent(id)')
<1> SUFFICES ASSUME LInv, Seen(id), AloneOn(id), [Next]_vars
             PROVE  Seen(id)' /\ (Recent(id) /\ [~Cut(id)]_vars => Recent(id)')
  OBVIOUS
<1>1. CASE UNCHANGED vars
  BY <1>1, RowSame DEF Kept
<1>2. CASE Crash
  BY <1>1, <1>2, RowCrash DEF Cut
<1>3. ASSUME NEW w \in Workers, Acts(w)
      PROVE  Seen(id)' /\ (Recent(id) /\ [~Cut(id)]_vars => Recent(id)')
  BY <1>1, <1>3, RowActs DEF Cut
<1> QED
  BY <1>1, <1>2, <1>3 DEF Next, Acts

\* However many calls fail and however often the process dies: as long as
\* requests do not overlap on an endpoint, its next version gets the next
\* number, and UNIQUE (endpoint_id, version) does not refuse it
\* (service.go:159-214, 363-427; 000002_create_endpoint_versions.up.sql:8).
THEOREM VersionsFit ==
  ASSUME NEW id \in Ids
  PROVE  Spec /\ []AloneOn(id) =>
           [](\A w \in Workers : Unwritten(w, id) =>
                VersionAccepted(snapshotVersion(job[w])))
<1>1. LInv /\ Seen(id) /\ AloneOn(id) /\ [Next]_vars => (LInv /\ Seen(id))'
  BY NextLInv, NextRow
<1>2. Init => LInv /\ Seen(id)
  BY InitLInv, InitRow
<1>3. LInv /\ Seen(id) =>
        \A w \in Workers : Unwritten(w, id) => VersionAccepted(snapshotVersion(job[w]))
  BY VersionFits DEF Seen, Unwritten, Touches
<1> QED
  BY <1>1, <1>2, <1>3, PTL DEF Spec

\* Faults are counted and never forgotten.
LEMMA FaultsCounted ==
  ASSUME LInv, Next
  PROVE  faults' = 0 => faults = 0 /\ \E w \in Workers : Acts(w)
<1>0. faults \in Nat
  BY BoundsAssumption DEF LInv, IInv, TypeOK
<1>1. CASE Crash
  BY <1>0, <1>1 DEF Crash
<1>2. ASSUME NEW w \in Workers, Acts(w) PROVE faults' \in {faults, faults + 1}
  <2>1. ASSUME NEW m, invalidateMethod(m) PROVE faults' \in {faults, faults + 1}
    BY <2>1 DEF invalidateMethod
  <2>2. CASE DropOld(w) \/ DropNew(w) \/ Sweep(w)
    BY <2>1, <2>2 DEF DropOld, DropNew, Sweep
  <2>3. CASE Begin(w) \/ FailStatement(w) \/ OutOfIds(w)
    BY <2>3 DEF Begin, BeginCreate, BeginUpdate, BeginRollback, BeginDelete,
                BeginImport, FailStatement, OutOfIds
  <2>4. CASE GenerateSchema(w) \/ ListForUpdate(w) \/ ListForRollback(w)
             \/ InsertRow(w) \/ InsertItem(w) \/ WriteRow(w) \/ InsertVersion(w)
             \/ EraseRow(w) \/ Commit(w)
    BY <2>4 DEF GenerateSchema, ListForUpdate, ListForRollback, InsertRow,
                InsertItem, WriteRow, InsertVersion, EraseRow, Commit
  <2> QED
    BY <1>2, <2>2, <2>3, <2>4 DEF Acts, Continue
<1>3. CASE \E w \in Workers : Acts(w)
  BY <1>0, <1>2, <1>3
<1> QED
  BY <1>1, <1>3 DEF Next, Acts

\* Nothing is cut off without a fault.
LEMMA CutIsFault ==
  ASSUME LInv, Next, faults' = 0, NEW id
  PROVE  ~Cut(id)
<1>1. faults = 0
  BY FaultsCounted
<1> QED
  BY <1>1 DEF Cut, FailStatement, Crash

RInv == /\ LInv
        /\ \A id \in Ids : Seen(id)
        /\ faults = 0 => \A id \in Ids : Recent(id)

LEMMA InitRInv == Init => RInv
BY InitLInv, InitRow DEF RInv

LEMMA NextRInv == RInv /\ Apart /\ [Next]_vars => RInv'
<1> SUFFICES ASSUME RInv, Apart, [Next]_vars PROVE RInv'
  OBVIOUS
<1>1. LInv'
  BY NextLInv DEF RInv
<1>2. \A id \in Ids : Seen(id)'
  BY NextRow DEF RInv, Apart
<1>3. ASSUME faults' = 0, NEW id \in Ids PROVE Recent(id)'
  <2>1. [~Cut(id)]_vars
    BY <1>3, CutIsFault DEF RInv
  <2>2. faults = 0
    BY <1>3, FaultsCounted DEF RInv, vars
  <2> QED
    BY <2>1, <2>2, NextRow DEF RInv, Apart
<1> QED
  BY <1>1, <1>2, <1>3 DEF RInv

\* ListVersions returns all of an endpoint's versions, and versions[0] is the
\* one its row came from.
LEMMA LatestIsRow ==
  ASSUME IInv, NEW id \in Live, UpToDate(id),
         NEW vs, vs = ListVersions(endpoints[id].owner, id)
  PROVE  /\ vs # {} /\ Latest(vs) \in vs
         /\ Latest(vs).cfg = endpoints[id].cfg
<1>1. vs = {v \in versions : v.ep = id}
  BY DEF ListVersions, IInv, HistoryInv, SnapshotsOwned
<1>2. PICK v \in vs : /\ v.cfg = endpoints[id].cfg
                     /\ \A u \in vs : u.num <= v.num
  BY <1>1 DEF UpToDate
<1>3. Latest(vs) \in vs /\ \A u \in vs : u.num <= Latest(vs).num
  BY <1>2 DEF Latest
<1>4. \A u \in vs : u.num \in Nat
  BY <1>1 DEF IInv, TypeOK, TablesTyped, Version
<1>5. Latest(vs).num = v.num
  BY <1>2, <1>3, <1>4
<1>6. Latest(vs) = v
  BY <1>1, <1>3, <1>5 DEF IInv, HistoryInv, VersionsContiguous
<1> QED
  BY <1>2, <1>6

LEMMA RowIsLatest ==
  ASSUME NEW id \in Ids, LInv, Recent(id), id \in Live,
         \A w \in Workers : ~Unwritten(w, id)
  PROVE  LET vs == ListVersions(endpoints[id].owner, id)
         IN  vs # {} /\ Latest(vs).cfg = endpoints[id].cfg
BY LatestIsRow DEF LInv, Recent

\* Whatever happens to other endpoints, and whichever calls fail: an endpoint
\* whose requests do not overlap, and none of whose requests is cut off between
\* the row and its version, is what its latest version says whenever no
\* request is between the two (models/endpoint_version.go:10;
\* service.go:112-262, 363-427).
THEOREM RowIsOwnVersion ==
  ASSUME NEW id \in Ids
  PROVE  Spec /\ []AloneOn(id) /\ [][~Cut(id)]_vars =>
           [](id \in Live /\ (\A w \in Workers : ~Unwritten(w, id)) =>
                LET vs == ListVersions(endpoints[id].owner, id)
                IN  vs # {} /\ Latest(vs).cfg = endpoints[id].cfg)
<1>1. LInv /\ Seen(id) /\ Recent(id) /\ AloneOn(id) /\ [Next]_vars /\ [~Cut(id)]_vars
        => (LInv /\ Seen(id) /\ Recent(id))'
  BY NextLInv, NextRow
<1>2. Init => LInv /\ Seen(id) /\ Recent(id)
  BY InitLInv, InitRow
<1>3. LInv /\ Recent(id) =>
        (id \in Live /\ (\A w \in Workers : ~Unwritten(w, id)) =>
           LET vs == ListVersions(endpoints[id].owner, id)
           IN  vs # {} /\ Latest(vs).cfg = endpoints[id].cfg)
  BY RowIsLatest
<1> QED
  BY <1>1, <1>2, <1>3, PTL DEF Spec

\* With requests that do not overlap on an endpoint, however many are served at
\* once, and until a call fails, every endpoint is between requests what its
\* latest version says.
THEOREM RowsAreVersions == Spec /\ []Apart => [](faults = 0 => RowIsLatestVersion)
<1>1. RInv => (faults = 0 => RowIsLatestVersion)
  <2> SUFFICES ASSUME RInv, faults = 0, Quiet, NEW id \in Live
               PROVE  LET vs == ListVersions(endpoints[id].owner, id)
                      IN  vs # {} /\ Latest(vs).cfg = endpoints[id].cfg
    BY DEF RowIsLatestVersion
  <2>1. id \in Ids /\ LInv /\ Recent(id)
    BY DEF RInv, Live
  <2>2. \A w \in Workers : ~Unwritten(w, id)
    BY DEF Quiet, Unwritten
  <2> QED
    BY <2>1, <2>2, RowIsLatest
<1> QED
  BY <1>1, InitRInv, NextRInv, PTL DEF Spec

\* Requests are served one after the other.
OneWorker == \A v, w \in Workers : v = w

LEMMA SerialApart ==
  ASSUME OneWorker
  PROVE  Apart
BY DEF OneWorker, Apart, AloneOn

\* So it is with one worker.
COROLLARY SerialRowsAreVersions ==
  ASSUME OneWorker
  PROVE  Spec => [](faults = 0 => RowIsLatestVersion)
BY SerialApart, RowsAreVersions, PTL

-----------------------------------------------------------------------------
(***************************************************************************)
(* The schemas of an endpoint's versions.                                  *)
(***************************************************************************)

\* A document's schemas are those of its own operations.
DocsOwnSchemas ==
  \A doc \in ImportDocs : \A i \in 1 .. Len(doc) :
    doc[i].schema \in {doc[i].prompt, NoSchema}

Owned(cfg, schema) == schema \in {cfg.prompt, NoSchema}

\* The schemas a request is about to store are of the prompts it stores.
CarriesOwn(w) ==
  LET j == job[w]
  IN  /\ pc[w] \in {"insert", "write", "version"} => Owned(j.cfg, j.schema)
      /\ pc[w] = "item" \/ (pc[w] = "version" /\ j.op = "import") =>
           \A i \in 1 .. Len(j.items) : j.items[i].schema \in {j.items[i].prompt, NoSchema}

\* w is for the endpoint, or for one it has yet to insert.
MayStore(w, id) == job[w].op \in {"create", "import"} \/ job[w].id = id

SchemasOf(id) == /\ \A v \in versions : v.ep = id => Owned(v.cfg, v.schema)
                 /\ \A w \in Workers : MayStore(w, id) => CarriesOwn(w)

LEMMA CarriesNothing ==
  ASSUME NEW w \in Workers,
         pc'[w] \in {"idle", "schema", "list", "commit", "erase", "dropOld",
                     "dropNew", "sweep"}
  PROVE  CarriesOwn(w)'
BY DEF CarriesOwn

\* Answering a request carries nothing on.
LEMMA FinishOwn ==
  ASSUME IInv, NEW w \in Workers, Finish(w)
  PROVE  CarriesOwn(w)'
<1>1. pc'[w] = "idle"
  BY GotoAlone DEF Finish
<1> QED
  BY <1>1, CarriesNothing

LEMMA BeginOwn ==
  ASSUME DocsOwnSchemas, IInv, NEW w \in Workers, Begin(w)
  PROVE  CarriesOwn(w)'
<1>1. ASSUME NEW a \in Accounts, NEW doc \in ImportDocs, BeginImport(w, a, doc)
      PROVE  CarriesOwn(w)'
  <2> DEFINE first == Imported(Head(doc))
             j     == [NewJob("import", a, NoId, first, first) EXCEPT !.items = doc]
  <2>1. j.items = doc
    BY DEF NewJob
  <2>2. pc'[w] = "item" /\ job'[w] = j
    BY <1>1, GotoAlone DEF BeginImport
  <2> HIDE DEF j
  <2> QED
    BY <2>1, <2>2 DEF DocsOwnSchemas, CarriesOwn
<1>2. ASSUME NEW s \in {"schema", "list", "erase"}, NEW j, Goto(w, s, j)
      PROVE  CarriesOwn(w)'
  BY <1>2, GotoAlone, CarriesNothing
<1> QED
  BY <1>1, <1>2 DEF Begin, BeginCreate, BeginUpdate, BeginRollback, BeginDelete

\* What a request reads to store it under id is owned: the latest version is
\* that of the row it has read.
LEMMA ReadOwn ==
  ASSUME LInv, NEW id \in Ids, Seen(id), Recent(id), AloneOn(id), SchemasOf(id),
         NEW w \in Workers, MayStore(w, id)',
         GenerateSchema(w) \/ ListForUpdate(w) \/ ListForRollback(w)
  PROVE  CarriesOwn(w)'
<1>0. IInv /\ job[w] \in Job
  BY JobAt DEF LInv, GenerateSchema, ListForUpdate, ListForRollback
<1>1. CASE GenerateSchema(w)
  <2>1. PICK x \in {job[w].cfg.prompt, NoSchema} :
          Goto(w, IF job[w].op = "create" THEN "insert" ELSE "write",
               [job[w] EXCEPT !.schema = x])
    BY <1>1 DEF GenerateSchema
  <2> DEFINE j == [job[w] EXCEPT !.schema = x]
  <2>2. j.cfg = job[w].cfg /\ j.schema = x
    BY <1>0 DEF Job
  <2> HIDE DEF j
  <2>3. pc'[w] \in {"insert", "write"} /\ job'[w] = j
    BY <1>0, <2>1, GotoAlone DEF j
  <2> QED
    BY <2>2, <2>3 DEF CarriesOwn, Owned
<1> DEFINE vs == ListVersions(job[w].owner, job[w].id)
           n  == nextVersion(vs)
<1>2. CASE ListForUpdate(w)
  <2> DEFINE c  == IF vs = {} THEN NoSchema ELSE Latest(vs).schema
             j1 == [job[w] EXCEPT !.next = n]
             j2 == [job[w] EXCEPT !.next = n, !.schema = c]
  <2>1. \/ Goto(w, "schema", j1)
        \/ job[w].cfg.prompt = job[w].before.prompt /\ Goto(w, "write", j2)
    BY <1>2 DEF ListForUpdate
  <2>2. job[w].id = id /\ job[w].cfg.prompt = job[w].before.prompt =>
          Owned(job[w].cfg, c)
    <3> SUFFICES ASSUME job[w].id = id, job[w].cfg.prompt = job[w].before.prompt
                 PROVE  Owned(job[w].cfg, c)
      OBVIOUS
    <3>1. pc[w] = "list" /\ Touches(w, id)
      BY <1>2 DEF ListForUpdate, Touches, Reads
    <3>2. id \in Live /\ endpoints[id].cfg = job[w].before
      BY <3>1, OnlyOne DEF SeesRow, Reads
    <3>3. endpoints[id].owner = job[w].owner
      BY <1>0, <1>2, <3>2 DEF ListForUpdate, IInv, JobInv, Targeted
    <3>4. \A x \in Workers : ~Unwritten(x, id)
      BY <3>1, OnlyOne DEF Unwritten, Touches
    <3>5. vs # {} /\ Latest(vs) \in vs /\ Latest(vs).cfg = job[w].before
      BY <1>0, <3>2, <3>3, <3>4, LatestIsRow DEF Recent
    <3>6. Owned(job[w].before, Latest(vs).schema)
      BY <3>5 DEF SchemasOf, ListVersions
    <3> QED
      BY <3>5, <3>6 DEF Owned
  <2> HIDE DEF n, c
  <2>3. /\ j2.cfg = job[w].cfg /\ j2.schema = c
        /\ j2.op = job[w].op /\ j2.id = job[w].id
    BY <1>0 DEF Job
  <2> HIDE DEF j1, j2
  <2>4. CASE Goto(w, "schema", j1)
    BY <1>0, <2>4, GotoAlone, CarriesNothing
  <2>5. CASE job[w].cfg.prompt = job[w].before.prompt /\ Goto(w, "write", j2)
    <3>1. pc'[w] = "write" /\ job'[w] = j2
      BY <1>0, <2>5, GotoAlone
    <3>2. job[w].id = id
      BY <1>2, <2>3, <3>1 DEF MayStore, ListForUpdate
    <3> QED
      BY <2>2, <2>3, <2>5, <3>1, <3>2 DEF CarriesOwn
  <2> QED
    BY <2>1, <2>4, <2>5
<1>3. CASE ListForRollback(w)
  <2>1. ASSUME NEW target \in vs,
               Goto(w, "write", [job[w] EXCEPT !.cfg = target.cfg,
                                               !.schema = target.schema,
                                               !.next = n])
        PROVE  CarriesOwn(w)'
    <3> DEFINE j == [job[w] EXCEPT !.cfg = target.cfg, !.schema = target.schema,
                                   !.next = n]
    <3> HIDE DEF n
    <3>1. /\ j.cfg = target.cfg /\ j.schema = target.schema
          /\ j.op = job[w].op /\ j.id = job[w].id
      BY <1>0 DEF Job
    <3>2. Goto(w, "write", j)
      BY <2>1
    <3> HIDE DEF j
    <3>3. pc'[w] = "write" /\ job'[w] = j
      BY <1>0, <3>2, GotoAlone
    <3>4. job[w].id = id
      BY <1>3, <3>1, <3>3 DEF MayStore, ListForRollback
    <3>5. Owned(target.cfg, target.schema)
      BY <3>4 DEF SchemasOf, ListVersions
    <3> QED
      BY <3>1, <3>3, <3>5 DEF CarriesOwn
  <2> QED
    BY <1>0, <1>3, <2>1, FinishOwn DEF ListForRollback
<1> QED
  BY <1>1, <1>2, <1>3

LEMMA InsertOwn ==
  ASSUME LInv, NEW w \in Workers, CarriesOwn(w), InsertRow(w) \/ InsertItem(w)
  PROVE  CarriesOwn(w)'
<1>0. IInv /\ job[w] \in Job
  BY JobAt DEF LInv, InsertRow, InsertItem
<1>1. CASE InsertRow(w)
  <2>1. ASSUME NEW id, Goto(w, "version", [job[w] EXCEPT !.id = id, !.next = 1])
        PROVE  CarriesOwn(w)'
    <3> DEFINE j == [job[w] EXCEPT !.id = id, !.next = 1]
    <3>1. j.cfg = job[w].cfg /\ j.schema = job[w].schema /\ j.op = "create"
      BY <1>0, <1>1 DEF InsertRow, LInv, Knows, OnTrack, Job
    <3>2. Goto(w, "version", j)
      BY <2>1
    <3> HIDE DEF j
    <3>3. pc'[w] = "version" /\ job'[w] = j
      BY <1>0, <3>2, GotoAlone
    <3> QED
      BY <1>1, <3>1, <3>3 DEF InsertRow, CarriesOwn
  <2> QED
    BY <1>0, <1>1, <2>1, FinishOwn DEF InsertRow
<1>2. CASE InsertItem(w)
  <2> DEFINE item == Head(job[w].items)
             rest == Tail(job[w].items)
             cfg  == Imported(item)
             j1   == [job[w] EXCEPT !.items = rest]
  <2>0. job[w].items \in Seq(Item) /\ job[w].items # <<>> /\ pc[w] = "item"
    BY <1>0, <1>2 DEF InsertItem, IInv, TypeOK, JobTyped, Job
  <2>1. /\ item.schema \in {item.prompt, NoSchema}
        /\ \A i \in 1 .. Len(rest) : rest[i].schema \in {rest[i].prompt, NoSchema}
    <3>1. \A i \in 1 .. Len(job[w].items) :
             job[w].items[i].schema \in {job[w].items[i].prompt, NoSchema}
      BY <2>0 DEF CarriesOwn
    <3>2. item = job[w].items[1] /\ 1 \in 1 .. Len(job[w].items)
      BY <2>0
    <3>3. \A i \in 1 .. Len(rest) : /\ rest[i] = job[w].items[i + 1]
                                   /\ i + 1 \in 1 .. Len(job[w].items)
      BY <2>0
    <3> HIDE DEF item, rest
    <3> QED
      BY <3>1, <3>2, <3>3
  <2>2. Owned(cfg, item.schema)
    BY <2>1 DEF Owned, Imported
  <2> HIDE DEF item, rest, cfg
  <2>3. CASE Goto(w, NextItem(rest), j1)
    <3>1. j1.items = rest
      BY <1>0 DEF Job
    <3> HIDE DEF j1
    <3>2. pc'[w] \in {"item", "commit"} /\ job'[w] = j1
      BY <1>0, <2>3, GotoAlone DEF NextItem
    <3> QED
      BY <2>1, <3>1, <3>2 DEF CarriesOwn
  <2>4. ASSUME NEW id \in Ids,
               Goto(w, "version",
                    [job[w] EXCEPT !.id = id, !.cfg = cfg, !.next = 1,
                                   !.schema = item.schema, !.items = rest])
        PROVE  CarriesOwn(w)'
    <3> DEFINE j == [job[w] EXCEPT !.id = id, !.cfg = cfg, !.next = 1,
                                   !.schema = item.schema, !.items = rest]
    <3>1. j.cfg = cfg /\ j.schema = item.schema /\ j.items = rest
      BY <1>0 DEF Job
    <3>2. Goto(w, "version", j)
      BY <2>4
    <3> HIDE DEF j
    <3>3. pc'[w] = "version" /\ job'[w] = j
      BY <1>0, <3>2, GotoAlone
    <3> QED
      BY <2>1, <2>2, <3>1, <3>3 DEF CarriesOwn
  <2> QED
    BY <1>2, <2>3, <2>4 DEF InsertItem, item, rest, cfg
<1> QED
  BY <1>1, <1>2

LEMMA WriteOwn ==
  ASSUME IInv, NEW w \in Workers, CarriesOwn(w), WriteRow(w)
  PROVE  CarriesOwn(w)'
<1>1. pc[w] = "write" /\ job[w].op \in {"update", "rollback"}
  BY DEF WriteRow, IInv, TypeOK, JobTyped
<1>2. ASSUME Goto(w, "version", job[w]) PROVE CarriesOwn(w)'
  <2>1. pc'[w] = "version" /\ job'[w] = job[w]
    BY <1>2, GotoAlone
  <2> QED
    BY <1>1, <2>1 DEF CarriesOwn
<1> QED
  BY <1>2, FinishOwn DEF WriteRow

LEMMA VersionOwn ==
  ASSUME IInv, NEW w \in Workers, CarriesOwn(w), InsertVersion(w)
  PROVE  /\ CarriesOwn(w)'
         /\ Owned(job[w].cfg, job[w].schema)
<1>0. pc[w] = "version" /\ job[w] \in Job
  BY JobAt DEF InsertVersion
<1>1. ASSUME job[w].op = "import",
             Goto(w, NextItem(job[w].items),
                  [job[w] EXCEPT !.made = @ \cup {job[w].cfg.method}])
      PROVE  CarriesOwn(w)'
  <2> DEFINE j == [job[w] EXCEPT !.made = @ \cup {job[w].cfg.method}]
  <2>1. j.items = job[w].items
    BY <1>0 DEF Job
  <2>2. Goto(w, NextItem(job[w].items), j)
    BY <1>1
  <2> HIDE DEF j
  <2>3. pc'[w] \in {"item", "commit"} /\ job'[w] = j
    BY <2>2, GotoAlone DEF NextItem
  <2> QED
    BY <1>0, <1>1, <2>1, <2>3 DEF CarriesOwn
<1>2. ASSUME Goto(w, "commit", job[w]) PROVE CarriesOwn(w)'
  BY <1>2, GotoAlone, CarriesNothing
<1>3. CarriesOwn(w)'
  BY <1>1, <1>2, FinishOwn DEF InsertVersion
<1>4. Owned(job[w].cfg, job[w].schema)
  BY <1>0 DEF CarriesOwn
<1> QED
  BY <1>3, <1>4

LEMMA OnwardOwn ==
  ASSUME IInv, NEW w \in Workers,
         Commit(w) \/ EraseRow(w) \/ DropOld(w) \/ DropNew(w) \/ Sweep(w)
         \/ FailStatement(w) \/ OutOfIds(w)
  PROVE  CarriesOwn(w)'
<1>1. ASSUME NEW s \in {"idle", "dropOld", "dropNew", "sweep"}, NEW j, Goto(w, s, j)
      PROVE  CarriesOwn(w)'
  BY <1>1, GotoAlone, CarriesNothing
<1> QED
  BY <1>1 DEF Commit, EraseRow, DropOld, DropNew, Sweep, FailStatement, OutOfIds,
              Finish

\* Before its write a request was for the endpoint it is for after it.
LEMMA StoredBefore ==
  ASSUME LInv, NEW id, NEW w \in Workers,
         InsertRow(w) \/ InsertItem(w) \/ WriteRow(w) \/ InsertVersion(w),
         MayStore(w, id)', pc'[w] # "idle"
  PROVE  MayStore(w, id)
<1>0. IInv /\ job[w] \in Job /\ ~Finish(w)
  BY JobAt, GotoAlone
     DEF LInv, InsertRow, InsertItem, WriteRow, InsertVersion, Finish
<1>1. CASE InsertRow(w) \/ InsertItem(w)
  BY <1>1 DEF LInv, Knows, OnTrack, MayStore, InsertRow, InsertItem
<1>2. CASE WriteRow(w)
  <2>1. Goto(w, "version", job[w])
    BY <1>0, <1>2 DEF WriteRow
  <2> QED
    BY <1>0, <2>1, GotoAlone DEF MayStore
<1>3. CASE InsertVersion(w)
  <2> DEFINE j == [job[w] EXCEPT !.made = @ \cup {job[w].cfg.method}]
  <2>1. j.op = job[w].op /\ j.id = job[w].id
    BY <1>0 DEF Job
  <2>2. Goto(w, NextItem(job[w].items), j) \/ Goto(w, "commit", job[w])
    BY <1>0, <1>3 DEF InsertVersion
  <2> HIDE DEF j
  <2>3. job'[w] \in {j, job[w]}
    BY <1>0, <2>2, GotoAlone
  <2> QED
    BY <2>1, <2>3 DEF MayStore
<1> QED
  BY <1>1, <1>2, <1>3

LEMMA WorkerOwn ==
  ASSUME DocsOwnSchemas, LInv, NEW id \in Ids, Seen(id), Recent(id), AloneOn(id),
         SchemasOf(id), NEW w \in Workers, Acts(w), MayStore(w, id)'
  PROVE  CarriesOwn(w)'
<1>0. IInv
  BY DEF LInv
<1>1. CASE InsertRow(w) \/ InsertItem(w) \/ WriteRow(w) \/ InsertVersion(w)
  <2>1. CASE pc'[w] = "idle"
    BY <2>1, CarriesNothing
  <2>2. CASE pc'[w] # "idle"
    <3>1. CarriesOwn(w)
      BY <1>1, <2>2, StoredBefore DEF SchemasOf
    <3> QED
      BY <1>0, <1>1, <3>1, InsertOwn, WriteOwn, VersionOwn
  <2> QED
    BY <2>1, <2>2
<1> QED
  BY <1>0, <1>1, BeginOwn, ReadOwn, OnwardOwn DEF Acts, Continue

\* The only version a step adds is the one its request carries.
LEMMA AddedOwn ==
  ASSUME LInv, NEW id \in Ids, SchemasOf(id), NEW w \in Workers, Acts(w),
         NEW v \in versions', v.ep = id
  PROVE  Owned(v.cfg, v.schema)
<1>0. IInv
  BY DEF LInv
<1>1. CASE InsertVersion(w) /\ v \notin versions
  <2>1. v = snapshotVersion(job[w])
    BY <1>1 DEF InsertVersion
  <2>2. job[w].id = id /\ v.cfg = job[w].cfg /\ v.schema = job[w].schema
    BY <2>1 DEF snapshotVersion
  <2>3. CarriesOwn(w)
    BY <2>2 DEF MayStore, SchemasOf
  <2> QED
    BY <1>0, <1>1, <2>2, <2>3, VersionOwn
<1>2. CASE v \in versions
  BY <1>2 DEF SchemasOf
<1>3. CASE Begin(w) \/ FailStatement(w) \/ OutOfIds(w)
  BY <1>2, <1>3 DEF Begin, BeginCreate, BeginUpdate, BeginRollback, BeginDelete,
                    BeginImport, FailStatement, OutOfIds, tables
<1>4. CASE GenerateSchema(w) \/ ListForUpdate(w) \/ ListForRollback(w)
           \/ InsertRow(w) \/ InsertItem(w) \/ WriteRow(w) \/ EraseRow(w)
           \/ Commit(w) \/ DropOld(w) \/ DropNew(w) \/ Sweep(w)
  BY <1>2, <1>4 DEF GenerateSchema, ListForUpdate, ListForRollback, InsertRow,
                    InsertItem, WriteRow, EraseRow, Commit, DropOld, DropNew,
                    Sweep, tables
<1> QED
  BY <1>1, <1>2, <1>3, <1>4 DEF Acts, Continue

LEMMA ActsOwn ==
  ASSUME DocsOwnSchemas, LInv, NEW id \in Ids, Seen(id), Recent(id), AloneOn(id),
         SchemasOf(id), NEW w \in Workers, Acts(w)
  PROVE  SchemasOf(id)'
<1>1. ASSUME NEW x \in Workers, x # w, MayStore(x, id)' PROVE CarriesOwn(x)'
  <2>1. Alone(w)
    BY ActsAlone DEF LInv
  <2>2. pc'[x] = pc[x] /\ job'[x] = job[x]
    BY <1>1, <2>1, OtherJob DEF LInv
  <2>3. CarriesOwn(x)
    BY <1>1, <2>2 DEF MayStore, SchemasOf
  <2> QED
    BY <2>2, <2>3 DEF CarriesOwn
<1>2. \A x \in Workers : MayStore(x, id)' => CarriesOwn(x)'
  BY <1>1, WorkerOwn
<1>3. \A v \in versions' : v.ep = id => Owned(v.cfg, v.schema)
  BY AddedOwn
<1> QED
  BY <1>2, <1>3 DEF SchemasOf

LEMMA InitSchemas ==
  ASSUME NEW id
  PROVE  Init => SchemasOf(id)
BY DEF Init, SchemasOf, CarriesOwn

LEMMA NextSchemas ==
  ASSUME DocsOwnSchemas, NEW id \in Ids
  PROVE  LInv /\ Seen(id) /\ Recent(id) /\ AloneOn(id) /\ SchemasOf(id) /\ [Next]_vars
           => SchemasOf(id)'
<1> SUFFICES ASSUME LInv, Seen(id), Recent(id), AloneOn(id), SchemasOf(id), [Next]_vars
             PROVE  SchemasOf(id)'
  OBVIOUS
<1>1. CASE UNCHANGED vars
  BY <1>1 DEF vars, tables, SchemasOf, MayStore, CarriesOwn
<1>2. CASE Crash
  <2>1. \A w \in Workers : CarriesOwn(w)'
    BY <1>2, CarriesNothing DEF Crash
  <2> QED
    BY <1>2, <2>1 DEF Crash, tables, SchemasOf
<1>3. ASSUME NEW w \in Workers, Acts(w) PROVE SchemasOf(id)'
  BY <1>3, ActsOwn
<1> QED
  BY <1>1, <1>2, <1>3 DEF Next, Acts

\* Under the conditions of RowIsOwnVersion, the schema a version of the
\* endpoint carries was inferred from that version's prompt, through carried
\* over, restored and imported schemas alike (service.go:197-198).
THEOREM SchemasFollowOwnPrompt ==
  ASSUME DocsOwnSchemas, NEW id \in Ids
  PROVE  Spec /\ []AloneOn(id) /\ [][~Cut(id)]_vars =>
           [](\A v \in versions : v.ep = id => v.schema \in {v.cfg.prompt, NoSchema})
<1>1. LInv /\ Seen(id) /\ Recent(id) /\ SchemasOf(id) /\ AloneOn(id)
        /\ [Next]_vars /\ [~Cut(id)]_vars
        => (LInv /\ Seen(id) /\ Recent(id) /\ SchemasOf(id))'
  BY NextLInv, NextRow, NextSchemas
<1>2. Init => LInv /\ Seen(id) /\ Recent(id) /\ SchemasOf(id)
  BY InitLInv, InitRow, InitSchemas
<1>3. SchemasOf(id) =>
        \A v \in versions : v.ep = id => v.schema \in {v.cfg.prompt, NoSchema}
  BY DEF SchemasOf, Owned
<1> QED
  BY <1>1, <1>2, <1>3, PTL DEF Spec

SInv == RInv /\ (faults = 0 => \A id \in Ids : SchemasOf(id))

LEMMA NextSInv ==
  ASSUME DocsOwnSchemas
  PROVE  SInv /\ Apart /\ [Next]_vars => SInv'
<1> SUFFICES ASSUME SInv, Apart, [Next]_vars PROVE SInv'
  OBVIOUS
<1>1. RInv'
  BY NextRInv DEF SInv
<1>2. ASSUME faults' = 0, NEW id \in Ids PROVE SchemasOf(id)'
  <2>1. faults = 0
    BY <1>2, FaultsCounted DEF SInv, RInv, vars
  <2> QED
    BY <2>1, NextSchemas DEF SInv, RInv, Apart
<1> QED
  BY <1>1, <1>2 DEF SInv

\* With requests that do not overlap on an endpoint, and until a call fails,
\* every version's schema was inferred from its own prompt.
THEOREM SchemasFollowPrompts ==
  ASSUME DocsOwnSchemas
  PROVE  Spec /\ []Apart => [](faults = 0 => SchemaOfOwnPrompt)
<1>1. Init => SInv
  BY InitRInv, InitSchemas DEF SInv
<1>2. SInv => (faults = 0 => SchemaOfOwnPrompt)
  <2>1. LInv => \A v \in versions : v.ep \in Ids
    BY DEF LInv, IInv, TypeOK, TablesTyped, Version
  <2> QED
    BY <2>1 DEF SInv, RInv, SchemasOf, Owned, SchemaOfOwnPrompt
<1> QED
  BY <1>1, <1>2, NextSInv, PTL DEF Spec

\* So it is with one worker.
COROLLARY SerialSchemasFollowPrompts ==
  ASSUME OneWorker, DocsOwnSchemas
  PROVE  Spec => [](faults = 0 => SchemaOfOwnPrompt)
BY SerialApart, SchemasFollowPrompts, PTL
=============================================================================
