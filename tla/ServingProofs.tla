--------------------------- MODULE ServingProofs ---------------------------
(***************************************************************************)
(* Proofs about the cached endpoint lists.  However many control-plane and *)
(* mock requests are served at once and whatever fails: an entry that no   *)
(* mock request filled late is stale only while a request that changed its *)
(* list is still going to invalidate it.  Two things must not happen: that *)
(* two requests overlap on one endpoint (Apart), and that one is cut off   *)
(* which still owes an invalidation (Lapse).  What is owed is followed     *)
(* from the write that changed the list to the invalidation, through an    *)
(* import's whole loop; that the write changed no other list needs         *)
(* RegistryHistoryProofs: the row it replaces is the one the request has   *)
(* read.  With one control-plane request at a time and no failed call      *)
(* neither happens, and between requests no entry is stale.                *)
(***************************************************************************)
EXTENDS Serving, RegistryHistoryProofs

\* uuids are finite in number, and Spare counts them.
FiniteIds == IsFiniteSet(Ids)

\* w will invalidate m before it answers.
Owes(w, m) ==
  LET j == job[w]
  IN  \/ /\ m = j.before.method
         /\ j.op \in {"update", "rollback", "delete"}
         /\ pc[w] \in {"version", "commit", "dropOld"}
      \/ /\ m = j.cfg.method
         /\ \/ pc[w] = "version"
            \/ j.op \in Recording /\ pc[w] \in {"commit", "dropOld", "dropNew"}
      \/ /\ m \in j.made
         /\ j.op = "import"
         /\ pc[w] \in {"item", "version", "commit", "sweep"}

Settled(m) == Fresh(m) \/ outdated[m] \/ \E w \in Workers : Owes(w, m)

\* An import in its loop has a uuid for each of its items.
Provided(w) ==
  pc[w] = "item" \/ (pc[w] = "version" /\ job[w].op = "import")
    => Spare(Len(job[w].items))

\* w is cut off: a statement fails, its invalidation is lost, or the process
\* dies.
Fails(w) == \/ FailStatement(w) \/ OutOfIds(w) \/ Crash
            \/ (DropOld(w) \/ DropNew(w) \/ Sweep(w)) /\ faults' # faults

\* A request that owed an invalidation is cut off.
Lapse == \E w \in Workers : (\E m \in Methods : Owes(w, m)) /\ Fails(w)

EntriesSettled == \A m \in Methods : Settled(m)

STyped == ServingTypeOK /\ DOMAIN list = Readers

-----------------------------------------------------------------------------
(* Types.                                                                  *)

\* The registry as the readers leave it.
OwnState == <<tables, pc, job>>

ReaderStep == \/ \E m \in Methods : Expire(m)
              \/ \E r \in Readers : \/ \E m \in Methods : Lookup(r, m)
                                    \/ Load(r)
                                    \/ Fill(r)

\* What the query lists are rows as the router caches them.
LEMMA ListsTyped ==
  ASSUME IInv, NEW m
  PROVE  ListActiveByMethod(m) \subseteq Listed
BY DEF ListActiveByMethod, Listed, Live, IInv, TypeOK, TablesTyped, Row

\* A mock request touches no table and no control-plane request.
LEMMA ReadersLeave ==
  ASSUME STyped, ReaderStep
  PROVE  /\ UNCHANGED OwnState /\ CacheTyped'
         /\ faults' \in 0 .. MaxFaults
         /\ faults' = 0 => faults = 0
<1>0. faults \in 0 .. MaxFaults /\ CacheTyped
  BY DEF STyped, ServingTypeOK, TypeOK
<1>1. ASSUME NEW m \in Methods, Expire(m)
      PROVE  UNCHANGED OwnState /\ UNCHANGED faults /\ CacheTyped'
  BY <1>0, <1>1 DEF Expire, OwnState, CacheTyped
<1>2. ASSUME UNCHANGED faults \/ (faults < MaxFaults /\ faults' = faults + 1)
      PROVE  faults' \in 0 .. MaxFaults /\ (faults' = 0 => faults = 0)
  BY <1>0, <1>2, BoundsAssumption
<1>3. ASSUME NEW r \in Readers, NEW m \in Methods, Lookup(r, m)
      PROVE  /\ UNCHANGED OwnState /\ CacheTyped'
             /\ UNCHANGED faults \/ (faults < MaxFaults /\ faults' = faults + 1)
  BY <1>0, <1>3 DEF Lookup, OwnState, CacheTyped
<1>4. ASSUME NEW r \in Readers, Load(r)
      PROVE  /\ UNCHANGED OwnState /\ CacheTyped'
             /\ UNCHANGED faults \/ (faults < MaxFaults /\ faults' = faults + 1)
  BY <1>0, <1>4 DEF Load, OwnState, CacheTyped
<1>5. ASSUME NEW r \in Readers, Fill(r)
      PROVE  /\ UNCHANGED OwnState /\ CacheTyped'
             /\ UNCHANGED faults \/ (faults < MaxFaults /\ faults' = faults + 1)
  <2>1. list[r] \subseteq Listed
    BY DEF STyped, ServingTypeOK
  <2>2. cache' = cache \/ cache' = [cache EXCEPT ![method[r]] = list[r]]
    BY <1>5 DEF Fill
  <2>3. CacheTyped'
    BY <1>0, <2>1, <2>2 DEF CacheTyped
  <2> QED
    BY <1>5, <2>3 DEF Fill, OwnState
<1> QED
  BY <1>1, <1>2, <1>3, <1>4, <1>5 DEF ReaderStep

LEMMA LeftLInv ==
  ASSUME LInv, UNCHANGED OwnState, CacheTyped', faults' \in 0 .. MaxFaults
  PROVE  LInv'
<1>1. UNCHANGED <<endpoints, versions, issued, pc, job>>
  BY DEF OwnState, tables
<1>2. TablesTyped' /\ HistoryInv'
  BY <1>1 DEF LInv, IInv, TypeOK, TablesTyped, HistoryInv, VersionsContiguous,
              UpTo, Numbers, Live, SnapshotsOwned
<1>3. \A w \in Workers : JobTyped(w)' /\ JobInv(w)'
  BY <1>1 DEF LInv, IInv, TypeOK, JobTyped, JobInv, Targeted, Live, Numbers
<1>4. IInv'
  BY <1>1, <1>2, <1>3 DEF LInv, IInv, TypeOK
<1>5. \A w \in Workers : Knows(w)'
  BY <1>1 DEF LInv, Knows, OnTrack, Recorded, Chosen, Live
<1> QED
  BY <1>4, <1>5 DEF LInv

\* The readers' own variables keep their types.
LEMMA ReadersTyped ==
  ASSUME STyped, IInv, ReaderStep
  PROVE  /\ rpc' \in [Readers -> {"idle", "load", "fill"}]
         /\ method' \in [Readers -> Methods \cup {NoMethod}]
         /\ DOMAIN list' = Readers /\ \A r \in Readers : list'[r] \subseteq Listed
         /\ outdated' \in [Methods -> BOOLEAN]
<1>0. /\ rpc \in [Readers -> {"idle", "load", "fill"}]
      /\ method \in [Readers -> Methods \cup {NoMethod}]
      /\ DOMAIN list = Readers /\ \A r \in Readers : list[r] \subseteq Listed
      /\ outdated \in [Methods -> BOOLEAN]
  BY DEF STyped, ServingTypeOK
<1>1. ASSUME NEW m \in Methods, Expire(m)
      PROVE  UNCHANGED rvars /\ outdated' \in [Methods -> BOOLEAN]
  BY <1>1 DEF Expire, ForgetDropped
<1>2. ASSUME NEW r \in Readers, NEW s \in {"idle", "load", "fill"},
             NEW m \in Methods \cup {NoMethod}, NEW rows \in SUBSET Listed,
             ReaderGoto(r, s, m, rows)
      PROVE  /\ rpc' \in [Readers -> {"idle", "load", "fill"}]
             /\ method' \in [Readers -> Methods \cup {NoMethod}]
             /\ DOMAIN list' = Readers
             /\ \A x \in Readers : list'[x] \subseteq Listed
  BY <1>0, <1>2 DEF ReaderGoto
<1>3. ASSUME NEW r \in Readers, NEW m \in Methods, Lookup(r, m)
      PROVE  ReaderGoto(r, "load", m, {}) /\ UNCHANGED outdated
  BY <1>3 DEF Lookup
<1>4. ASSUME NEW r \in Readers, Load(r)
      PROVE  /\ \/ ReaderGoto(r, "fill", method[r], ListActiveByMethod(method[r]))
                \/ ReaderGoto(r, "idle", NoMethod, {})
             /\ UNCHANGED outdated
  BY <1>4 DEF Load, Answer
<1>5. ASSUME NEW r \in Readers, Fill(r)
      PROVE  /\ ReaderGoto(r, "idle", NoMethod, {})
             /\ outdated' \in [Methods -> BOOLEAN]
  BY <1>0, <1>5 DEF Fill, Answer
<1>6. \A r \in Readers : method[r] \in Methods \cup {NoMethod}
  BY <1>0
<1>7. \A m : ListActiveByMethod(m) \in SUBSET Listed
  BY ListsTyped
<1>8. {} \in SUBSET Listed
  OBVIOUS
<1>9. CASE \E m \in Methods : Expire(m)
  BY <1>0, <1>1, <1>9 DEF rvars
<1>10. CASE \E r \in Readers : \/ \E m \in Methods : Lookup(r, m)
                               \/ Load(r)
                               \/ Fill(r)
  BY <1>0, <1>2, <1>3, <1>4, <1>5, <1>6, <1>7, <1>8, <1>10
<1> QED
  BY <1>9, <1>10 DEF ReaderStep

\* A registry step leaves the readers alone, or a crash ends them.
LEMMA RegistryTyped ==
  ASSUME STyped, RegistryStep
  PROVE  /\ rpc' \in [Readers -> {"idle", "load", "fill"}]
         /\ method' \in [Readers -> Methods \cup {NoMethod}]
         /\ DOMAIN list' = Readers /\ \A r \in Readers : list'[r] \subseteq Listed
         /\ outdated' \in [Methods -> BOOLEAN]
<1>1. outdated' \in [Methods -> BOOLEAN]
  BY DEF STyped, ServingTypeOK, RegistryStep, ForgetDropped
<1> QED
  BY <1>1 DEF STyped, ServingTypeOK, RegistryStep, rvars

LEMMA RegistryIsNext == RegistryStep => Next
BY DEF RegistryStep, Next

LEMMA ServingSteps == ServingNext <=> RegistryStep \/ ReaderStep
BY DEF ServingNext, ReaderStep

LEMMA InitSTyped == ServingInit => STyped /\ RInv
<1> SUFFICES ASSUME ServingInit PROVE STyped /\ RInv
  OBVIOUS
<1>1. RInv /\ TypeOK
  BY InitRInv DEF ServingInit, RInv, LInv, IInv
<1> QED
  BY <1>1 DEF ServingInit, STyped, ServingTypeOK

\* Neither half of the system spoils the types of the other.
LEMMA NextSTyped == STyped /\ LInv /\ [ServingNext]_allvars => (STyped /\ LInv)'
<1> SUFFICES ASSUME STyped, LInv, [ServingNext]_allvars PROVE STyped' /\ LInv'
  OBVIOUS
<1>1. LInv'
  <2>1. CASE RegistryStep
    BY <2>1, RegistryIsNext, NextLInv
  <2>2. CASE ReaderStep
    BY <2>2, ReadersLeave, LeftLInv
  <2>3. CASE UNCHANGED allvars
    <3>1. UNCHANGED vars
      BY <2>3 DEF allvars
    <3> QED
      BY <3>1, NextLInv
  <2> QED
    BY <2>1, <2>2, <2>3, ServingSteps
<1>2. /\ rpc' \in [Readers -> {"idle", "load", "fill"}]
      /\ method' \in [Readers -> Methods \cup {NoMethod}]
      /\ DOMAIN list' = Readers /\ \A r \in Readers : list'[r] \subseteq Listed
      /\ outdated' \in [Methods -> BOOLEAN]
  <2>1. CASE UNCHANGED allvars
    BY <2>1 DEF allvars, rvars, STyped, ServingTypeOK
  <2>2. CASE RegistryStep
    BY <2>2, RegistryTyped
  <2>3. CASE ReaderStep
    BY <2>3, ReadersTyped DEF LInv
  <2> QED
    BY <2>1, <2>2, <2>3, ServingSteps
<1>3. TypeOK'
  BY <1>1 DEF LInv, IInv
<1> QED
  BY <1>1, <1>2, <1>3 DEF STyped, ServingTypeOK

LEMMA TypesInvariance == ServingSpec => [](STyped /\ LInv)
<1>1. ServingInit => STyped /\ LInv
  BY InitSTyped DEF RInv
<1> QED
  BY <1>1, NextSTyped, PTL DEF ServingSpec

\* The registry's tables and requests, the cached lists and the mock requests
\* keep their types, although both halves write the cache: what is cached is
\* always a list of rows (internal/router/cache.go, service.go:569).
THEOREM ServingTypes == ServingSpec => []ServingTypeOK
<1>1. STyped /\ LInv => ServingTypeOK
  BY DEF STyped
<1> QED
  BY <1>1, TypesInvariance, PTL

\* What is proved of the registry on its own holds under the readers too: a
\* request finds what it recorded, and the version numbers of an endpoint
\* have no gap.
THEOREM ServingKeepsHistory == ServingSpec => [](HistoryInv /\ RecordedKept)
<1>1. LInv => HistoryInv /\ RecordedKept
  BY DEF LInv, IInv, Knows, Recorded, Recording, RecordedKept
<1> QED
  BY <1>1, TypesInvariance, PTL

-----------------------------------------------------------------------------
(* The rows stay up to date under the readers.                             *)

\* What requests know of their rows, which no mock request changes.
LEMMA LeftRows ==
  ASSUME NEW id \in Ids, UNCHANGED OwnState
  PROVE  (Seen(id)' <=> Seen(id)) /\ (Recent(id)' <=> Recent(id))
<1>0. UNCHANGED <<endpoints, versions, issued, pc, job>>
  BY DEF OwnState, tables
<1>1. \A w \in Workers : /\ Touches(w, id)' <=> Touches(w, id)
                         /\ Unwritten(w, id)' <=> Unwritten(w, id)
                         /\ SeesRow(w)' <=> SeesRow(w)
  BY <1>0 DEF Touches, Unwritten, SeesRow, Reads, Updates, Numbers, Live
<1>2. (id \in Live' <=> id \in Live) /\ (UpToDate(id)' <=> UpToDate(id))
  BY <1>0 DEF Live, UpToDate
<1> QED
  BY <1>1, <1>2 DEF Seen, Recent

LEMMA ServingRInv ==
  ASSUME Apart, STyped, RInv, [ServingNext]_allvars
  PROVE  RInv'
<1>1. CASE RegistryStep
  BY <1>1, RegistryIsNext, NextRInv
<1>2. CASE ReaderStep
  BY <1>2, ReadersLeave, LeftLInv, LeftRows DEF RInv
<1>3. CASE UNCHANGED allvars
  <2>1. UNCHANGED vars
    BY <1>3 DEF allvars
  <2> QED
    BY <2>1, NextRInv
<1> QED
  BY <1>1, <1>2, <1>3, ServingSteps

-----------------------------------------------------------------------------
(* What a step of the request at hand does to the entries: it stores none, *)
(* changes no list it does not owe afterwards, and forgets nothing it      *)
(* owed but by dropping it.                                                *)

Keeps(w) ==
  /\ \A m \in Methods : cache'[m] = cache[m] \/ cache'[m] = NotCached
  /\ \A m \in Methods :
       ListActiveByMethod(m)' = ListActiveByMethod(m) \/ Owes(w, m)'
  /\ \A m \in Methods : Owes(w, m) => Owes(w, m)' \/ cache'[m] = NotCached

LEMMA SameLists ==
  ASSUME UNCHANGED endpoints, NEW m
  PROVE  ListActiveByMethod(m)' = ListActiveByMethod(m)
BY DEF ListActiveByMethod, Live

\* A row that is listed under another method before and after.
LEMMA OtherLists ==
  ASSUME NEW id, NEW m,
         \A i \in Ids \ {id} : endpoints'[i] = endpoints[i],
         id \in Live => endpoints[id].cfg.method # m,
         id \in Live' => endpoints'[id].cfg.method # m
  PROVE  ListActiveByMethod(m)' = ListActiveByMethod(m)
<1> DEFINE Rs == {i \in Live : /\ endpoints[i].cfg.method = m
                               /\ endpoints[i].cfg.status = "active"}
<1>1. Rs' = Rs /\ \A i \in Rs : endpoints'[i] = endpoints[i]
  BY DEF Live
<1>2. ListActiveByMethod(m) = {[id |-> i, owner |-> endpoints[i].owner,
                                cfg |-> endpoints[i].cfg] : i \in Rs}
  BY DEF ListActiveByMethod
<1>3. ListActiveByMethod(m)' = {[id |-> i, owner |-> endpoints'[i].owner,
                                 cfg |-> endpoints'[i].cfg] : i \in Rs'}
  BY DEF ListActiveByMethod
<1> HIDE DEF Rs
<1> QED
  BY <1>1, <1>2, <1>3

\* Every request still sees the row it has read.
RowsSeen == \A id \in Ids : Seen(id)

LEMMA WorkerSees ==
  ASSUME LInv, RowsSeen, NEW w \in Workers, pc[w] \in {"write", "version", "erase"}
  PROVE  SeesRow(w)
<1>1. Targeted(w)
  BY DEF LInv, Knows, OnTrack, Targeted, IInv, TypeOK, JobTyped
<1>2. job[w].id \in Ids
  BY <1>1 DEF LInv, IInv, JobInv, TypeOK, TablesTyped
<1> QED
  BY <1>2 DEF RowsSeen, Seen, Touches, Reads, Updates

\* A step of a request that owes nothing yet and changes no row.
LEMMA KeepsIdle ==
  ASSUME NEW w \in Workers, UNCHANGED <<endpoints, cache>>,
         pc[w] \in {"idle", "schema", "insert", "list", "write", "erase"}
  PROVE  Keeps(w)
<1>1. \A m : ~Owes(w, m)
  BY DEF Owes
<1> QED
  BY <1>1, SameLists DEF Keeps

LEMMA BeginKeeps ==
  ASSUME NEW w \in Workers, Begin(w)
  PROVE  Keeps(w)
<1>1. pc[w] = "idle" /\ UNCHANGED <<endpoints, issued, cache>>
  BY DEF Begin, BeginCreate, BeginUpdate, BeginRollback, BeginDelete, BeginImport, tables
<1> QED
  BY <1>1, KeepsIdle

LEMMA ReadKeeps ==
  ASSUME NEW w \in Workers,
         GenerateSchema(w) \/ ListForUpdate(w) \/ ListForRollback(w)
  PROVE  Keeps(w)
<1>1. pc[w] \in {"schema", "list"} /\ UNCHANGED <<endpoints, cache>>
  BY DEF GenerateSchema, ListForUpdate, ListForRollback, tables
<1> QED
  BY <1>1, KeepsIdle

\* An inserted row changes the list of its method only.
LEMMA InsertLists ==
  ASSUME IInv, NEW id \in Ids, NEW a, NEW cfg, Insert(id, a, cfg),
         NEW m, m # cfg.method
  PROVE  ListActiveByMethod(m)' = ListActiveByMethod(m)
<1>1. id \notin Live
  BY DEF Insert, IInv, HistoryInv
<1>2. /\ endpoints'[id].cfg = cfg
      /\ \A i \in Ids \ {id} : endpoints'[i] = endpoints[i]
  BY DEF Insert, IInv, TypeOK, TablesTyped
<1> QED
  BY <1>1, <1>2, OtherLists

LEMMA InsertRowKeeps ==
  ASSUME LInv, NEW w \in Workers, InsertRow(w)
  PROVE  Keeps(w)
<1>0. /\ IInv /\ job[w] \in Job /\ pc[w] = "insert"
      /\ job[w].op = "create" /\ UNCHANGED cache
  BY JobAt DEF LInv, InsertRow, Knows, OnTrack
<1>1. CASE Finish(w) /\ UNCHANGED <<endpoints, issued>>
  BY <1>0, <1>1, KeepsIdle
<1>2. ASSUME NEW id \in Ids, Insert(id, job[w].owner, job[w].cfg),
             Goto(w, "version", [job[w] EXCEPT !.id = id, !.next = 1])
      PROVE  Keeps(w)
  <2> DEFINE j == [job[w] EXCEPT !.id = id, !.next = 1]
  <2>1. j.op = "create" /\ j.cfg = job[w].cfg
    BY <1>0 DEF Job
  <2>2. Goto(w, "version", j)
    BY <1>2
  <2> HIDE DEF j
  <2>3. pc'[w] = "version" /\ job'[w] = j
    BY <1>0, <2>2, GotoAlone
  <2>4. \A m : m = job[w].cfg.method => Owes(w, m)'
    BY <2>1, <2>3 DEF Owes
  <2>5. \A m : m # job[w].cfg.method =>
              ListActiveByMethod(m)' = ListActiveByMethod(m)
    BY <1>0, <1>2, InsertLists
  <2>6. \A m : ~Owes(w, m)
    BY <1>0 DEF Owes
  <2> QED
    BY <1>0, <2>4, <2>5, <2>6 DEF Keeps
<1> QED
  BY <1>1, <1>2 DEF InsertRow

LEMMA InsertItemKeeps ==
  ASSUME LInv, NEW w \in Workers, InsertItem(w)
  PROVE  Keeps(w)
<1> DEFINE item == Head(job[w].items)
           rest == Tail(job[w].items)
           cfg  == Imported(item)
           j1   == [job[w] EXCEPT !.items = rest]
<1>0. /\ IInv /\ job[w] \in Job /\ pc[w] = "item"
      /\ job[w].op = "import" /\ UNCHANGED cache
  BY JobAt DEF LInv, InsertItem, Knows, OnTrack
<1>1. \A m : Owes(w, m) => m \in job[w].made
  BY <1>0 DEF Owes
<1> HIDE DEF item, rest, cfg
<1>2. CASE Goto(w, NextItem(rest), j1) /\ UNCHANGED <<endpoints, issued>>
  <2>1. j1.op = "import" /\ j1.made = job[w].made
    BY <1>0 DEF Job
  <2> HIDE DEF j1
  <2>2. pc'[w] \in {"item", "commit"} /\ job'[w] = j1
    BY <1>0, <1>2, GotoAlone DEF NextItem
  <2>3. \A m : Owes(w, m) => Owes(w, m)'
    BY <1>1, <2>1, <2>2 DEF Owes
  <2> QED
    BY <1>0, <1>2, <2>3, SameLists DEF Keeps
<1>3. ASSUME NEW id \in Ids, Insert(id, job[w].owner, cfg),
             Goto(w, "version",
                  [job[w] EXCEPT !.id = id, !.cfg = cfg, !.next = 1,
                                 !.schema = item.schema, !.items = rest])
      PROVE  Keeps(w)
  <2> DEFINE j == [job[w] EXCEPT !.id = id, !.cfg = cfg, !.next = 1,
                                 !.schema = item.schema, !.items = rest]
  <2>1. j.op = "import" /\ j.made = job[w].made /\ j.cfg = cfg
    BY <1>0 DEF Job
  <2>2. Goto(w, "version", j)
    BY <1>3
  <2> HIDE DEF j
  <2>3. pc'[w] = "version" /\ job'[w] = j
    BY <1>0, <2>2, GotoAlone
  <2>4. \A m : m \in job[w].made \/ m = cfg.method => Owes(w, m)'
    BY <2>1, <2>3 DEF Owes
  <2>5. \A m : m # cfg.method => ListActiveByMethod(m)' = ListActiveByMethod(m)
    BY <1>0, <1>3, InsertLists
  <2> QED
    BY <1>0, <1>1, <2>4, <2>5 DEF Keeps
<1> QED
  BY <1>2, <1>3 DEF InsertItem, item, rest, cfg

\* The row that is replaced is the one the request has read: no list but
\* those of its old and its new method changes.
LEMMA WriteRowKeeps ==
  ASSUME LInv, RowsSeen, NEW w \in Workers, WriteRow(w)
  PROVE  Keeps(w)
<1>0. /\ IInv /\ job[w] \in Job /\ pc[w] = "write"
      /\ job[w].op \in {"update", "rollback"} /\ UNCHANGED cache
  BY JobAt DEF LInv, WriteRow, IInv, TypeOK, JobTyped
<1>1. CASE Finish(w) /\ UNCHANGED endpoints
  BY <1>0, <1>1, KeepsIdle
<1>2. CASE /\ FindByID(job[w].owner, job[w].id)
           /\ endpoints' = [endpoints EXCEPT
                              ![job[w].id] = [owner |-> job[w].owner, cfg |-> job[w].cfg]]
           /\ Goto(w, "version", job[w])
  <2> DEFINE id == job[w].id
  <2>1. pc'[w] = "version" /\ job'[w] = job[w] /\ id \in Ids
    BY <1>0, <1>2, GotoAlone DEF FindByID, Live
  <2>2. /\ endpoints'[id].cfg = job[w].cfg
        /\ \A i \in Ids \ {id} : endpoints'[i] = endpoints[i]
    BY <1>0, <1>2, <2>1 DEF IInv, TypeOK, TablesTyped
  <2>3. endpoints[id].cfg = job[w].before
    BY <1>0, WorkerSees DEF SeesRow, Reads, Updates
  <2>4. ASSUME NEW m, m # job[w].before.method, m # job[w].cfg.method
        PROVE  ListActiveByMethod(m)' = ListActiveByMethod(m)
    <3>1. endpoints[id].cfg.method # m /\ endpoints'[id].cfg.method # m
      BY <2>2, <2>3, <2>4
    <3>2. PICK i : i = id
      OBVIOUS
    <3> HIDE DEF id
    <3> QED
      BY <2>2, <3>1, <3>2, OtherLists
  <2>5. \A m : m = job[w].before.method \/ m = job[w].cfg.method => Owes(w, m)'
    BY <1>0, <2>1 DEF Owes
  <2>6. \A m : ~Owes(w, m)
    BY <1>0 DEF Owes
  <2> QED
    BY <1>0, <2>4, <2>5, <2>6 DEF Keeps
<1> QED
  BY <1>1, <1>2 DEF WriteRow

LEMMA VersionKeeps ==
  ASSUME LInv, RowsSeen, NEW w \in Workers, InsertVersion(w)
  PROVE  Keeps(w)
<1>0. /\ IInv /\ job[w] \in Job /\ pc[w] = "version"
      /\ job[w].op \in Ops \ {"delete"} /\ UNCHANGED <<endpoints, issued, cache>>
  BY JobAt DEF LInv, InsertVersion, Knows, OnTrack, Job
<1>1. VersionAccepted(snapshotVersion(job[w]))
  BY <1>0, WorkerSees, VersionFits
<1>2. CASE /\ job[w].op = "import"
           /\ Goto(w, NextItem(job[w].items),
                   [job[w] EXCEPT !.made = @ \cup {job[w].cfg.method}])
  <2> DEFINE j == [job[w] EXCEPT !.made = @ \cup {job[w].cfg.method}]
  <2>1. j.op = "import" /\ j.made = job[w].made \cup {job[w].cfg.method}
    BY <1>0, <1>2 DEF Job
  <2>2. Goto(w, NextItem(job[w].items), j)
    BY <1>2
  <2> HIDE DEF j
  <2>3. pc'[w] \in {"item", "commit"} /\ job'[w] = j
    BY <1>0, <2>2, GotoAlone DEF NextItem
  <2>4. \A m : Owes(w, m) => m \in job[w].made \cup {job[w].cfg.method}
    BY <1>0, <1>2 DEF Owes
  <2>5. \A m : Owes(w, m) => Owes(w, m)'
    BY <2>1, <2>3, <2>4 DEF Owes
  <2> QED
    BY <1>0, <2>5, SameLists DEF Keeps
<1>3. CASE job[w].op # "import" /\ Goto(w, "commit", job[w])
  <2>1. pc'[w] = "commit" /\ job'[w] = job[w]
    BY <1>0, <1>3, GotoAlone
  <2>2. \A m : Owes(w, m) => Owes(w, m)'
    BY <1>0, <1>3, <2>1 DEF Owes, Ops, Recording
  <2> QED
    BY <1>0, <2>2, SameLists DEF Keeps
<1> QED
  BY <1>1, <1>2, <1>3 DEF InsertVersion

LEMMA CommitKeeps ==
  ASSUME LInv, NEW w \in Workers, Commit(w)
  PROVE  Keeps(w)
<1>0. /\ IInv /\ pc[w] = "commit" /\ job[w].op \in Ops \ {"delete"}
      /\ UNCHANGED <<endpoints, cache>>
  BY JobAt DEF LInv, Commit, Knows, OnTrack, Job, tables
<1>1. /\ job'[w] = job[w]
      /\ pc'[w] = (IF job[w].op = "create" THEN "dropNew"
                   ELSE IF job[w].op = "import" THEN "sweep" ELSE "dropOld")
  BY <1>0, GotoAlone DEF Commit, Ops
<1>2. \A m : Owes(w, m) => Owes(w, m)'
  BY <1>0, <1>1 DEF Owes, Ops, Recording
<1> QED
  BY <1>0, <1>2, SameLists DEF Keeps

LEMMA EraseKeeps ==
  ASSUME LInv, RowsSeen, NEW w \in Workers, EraseRow(w)
  PROVE  Keeps(w)
<1>0. /\ IInv /\ pc[w] = "erase" /\ job[w].op = "delete" /\ UNCHANGED cache
  BY DEF LInv, EraseRow, Knows, OnTrack
<1>1. CASE Finish(w) /\ UNCHANGED endpoints
  BY <1>0, <1>1, KeepsIdle
<1>2. CASE /\ endpoints' = [endpoints EXCEPT ![job[w].id] = NoRow]
           /\ Goto(w, "dropOld", job[w])
  <2>1. pc'[w] = "dropOld" /\ job'[w] = job[w]
    BY <1>0, <1>2, GotoAlone
  <2>2. PICK id : id = job[w].id
    OBVIOUS
  <2>3. /\ id \in Live /\ endpoints[id].cfg = job[w].before
    BY <1>0, <2>2, WorkerSees DEF SeesRow, Reads
  <2>4. /\ id \notin Live'
        /\ \A i \in Ids \ {id} : endpoints'[i] = endpoints[i]
    BY <1>0, <1>2, <2>2, <2>3 DEF Live, IInv, TypeOK, TablesTyped
  <2>5. \A m : m # job[w].before.method =>
              ListActiveByMethod(m)' = ListActiveByMethod(m)
    BY <2>3, <2>4, OtherLists
  <2>6. \A m : m = job[w].before.method => Owes(w, m)'
    BY <1>0, <2>1 DEF Owes
  <2>7. \A m : ~Owes(w, m)
    BY <1>0 DEF Owes
  <2> QED
    BY <1>0, <2>5, <2>6, <2>7 DEF Keeps
<1> QED
  BY <1>1, <1>2 DEF EraseRow

\* An invalidation drops no other entry, and its own unless it fails.
LEMMA Dropped ==
  ASSUME IInv, NEW m, invalidateMethod(m)
  PROVE  /\ \A x \in Methods : cache'[x] = cache[x] \/ cache'[x] = NotCached
         /\ m \in Methods /\ faults' = faults => cache'[m] = NotCached
<1>1. faults \in Nat /\ DOMAIN cache = Methods
  BY BoundsAssumption DEF IInv, TypeOK, CacheTyped
<1> QED
  BY <1>1 DEF invalidateMethod

\* A request that owes nothing and changes no row.
LEMMA KeepsUnowed ==
  ASSUME NEW w \in Workers, UNCHANGED endpoints,
         \A m \in Methods : cache'[m] = cache[m] \/ cache'[m] = NotCached,
         \A m \in Methods : ~Owes(w, m)
  PROVE  Keeps(w)
BY SameLists DEF Keeps

LEMMA DropKeeps ==
  ASSUME LInv, NEW w \in Workers, DropOld(w) \/ DropNew(w),
         faults' = faults \/ \A m \in Methods : ~Owes(w, m)
  PROVE  Keeps(w)
<1>0. IInv /\ OnTrack(w) /\ UNCHANGED endpoints
  BY DEF LInv, Knows, DropOld, DropNew, tables
<1>1. CASE DropOld(w)
  <2>1. pc[w] = "dropOld" /\ job[w].op \in {"update", "rollback", "delete"}
    BY <1>0, <1>1 DEF DropOld, OnTrack
  <2>2. /\ pc'[w] = (IF job[w].op = "delete" THEN "idle" ELSE "dropNew")
        /\ job[w].op # "delete" => job'[w] = job[w]
    BY <1>0, <1>1, GotoAlone DEF DropOld, Finish
  <2>3. \A m : Owes(w, m) => m = job[w].before.method \/ Owes(w, m)'
    BY <2>1, <2>2 DEF Owes, Recording
  <2>4. invalidateMethod(job[w].before.method)
    BY <1>1 DEF DropOld
  <2> QED
    BY <1>0, <2>3, <2>4, Dropped, SameLists DEF Keeps
<1>2. CASE DropNew(w)
  <2>1. pc[w] = "dropNew"
    BY <1>2 DEF DropNew
  <2>2. \A m : Owes(w, m) => m = job[w].cfg.method
    BY <2>1 DEF Owes
  <2>3. invalidateMethod(job[w].cfg.method)
    BY <1>2 DEF DropNew
  <2> QED
    BY <1>0, <2>2, <2>3, Dropped, SameLists DEF Keeps
<1> QED
  BY <1>1, <1>2

LEMMA SweepKeeps ==
  ASSUME LInv, NEW w \in Workers, Sweep(w),
         faults' = faults \/ \A m \in Methods : ~Owes(w, m)
  PROVE  Keeps(w)
<1>0. /\ IInv /\ job[w] \in Job /\ pc[w] = "sweep" /\ job[w].op = "import"
      /\ UNCHANGED endpoints
  BY JobAt DEF LInv, Knows, OnTrack, Sweep, tables
<1>1. \A m : Owes(w, m) => m \in job[w].made
  BY <1>0 DEF Owes
<1>2. ASSUME NEW x \in job[w].made, invalidateMethod(x),
             Goto(w, "sweep", [job[w] EXCEPT !.made = @ \ {x}])
      PROVE  Keeps(w)
  <2> DEFINE j == [job[w] EXCEPT !.made = @ \ {x}]
  <2>1. j.op = "import" /\ j.made = job[w].made \ {x}
    BY <1>0 DEF Job
  <2>2. Goto(w, "sweep", j)
    BY <1>2
  <2> HIDE DEF j
  <2>3. pc'[w] = "sweep" /\ job'[w] = j
    BY <1>0, <2>2, GotoAlone
  <2>4. \A m : Owes(w, m) => m = x \/ Owes(w, m)'
    BY <1>1, <2>1, <2>3 DEF Owes
  <2> QED
    BY <1>0, <1>2, <2>4, Dropped, SameLists DEF Keeps
<1>3. CASE job[w].made = {} /\ Finish(w) /\ UNCHANGED cache
  BY <1>0, <1>1, <1>3, SameLists DEF Keeps
<1> QED
  BY <1>2, <1>3 DEF Sweep

\* Any step, unless a request is cut off that owed an invalidation.
LEMMA ActsKeeps ==
  ASSUME LInv, RowsSeen, NEW w \in Workers, Acts(w), ~Lapse
  PROVE  Keeps(w)
<1>1. CASE Fails(w)
  <2>1. \A m \in Methods : ~Owes(w, m)
    BY <1>1 DEF Lapse
  <2>2. CASE FailStatement(w) \/ OutOfIds(w)
    BY <2>1, <2>2, KeepsUnowed DEF FailStatement, OutOfIds, tables
  <2>3. CASE DropOld(w) \/ DropNew(w) \/ Sweep(w)
    BY <2>1, <2>3, DropKeeps, SweepKeeps
  <2>4. CASE Crash
    BY <2>1, <2>4, KeepsUnowed DEF Crash, tables
  <2> QED
    BY <1>1, <2>2, <2>3, <2>4 DEF Fails
<1>2. CASE ~Fails(w)
  <2>1. ~FailStatement(w) /\ ~OutOfIds(w)
    BY <1>2 DEF Fails
  <2>2. DropOld(w) \/ DropNew(w) \/ Sweep(w) => faults' = faults
    BY <1>2 DEF Fails
  <2> QED
    BY <2>1, <2>2, BeginKeeps, ReadKeeps, InsertRowKeeps, InsertItemKeeps,
       WriteRowKeeps, VersionKeeps, CommitKeeps, EraseKeeps, DropKeeps, SweepKeeps
       DEF Acts, Continue
<1> QED
  BY <1>1, <1>2

-----------------------------------------------------------------------------
(* Every entry stays settled.                                              *)

\* An entry whose list does not change, and that no reader stores.
LEMMA StillSettled ==
  ASSUME NEW m \in Methods, ForgetDropped, Fresh(m) \/ outdated[m],
         cache'[m] = cache[m] \/ cache'[m] = NotCached,
         ListActiveByMethod(m)' = ListActiveByMethod(m)
  PROVE  Fresh(m)' \/ outdated'[m]
<1>1. CASE cache'[m] = NotCached
  BY <1>1 DEF Fresh
<1>2. CASE cache'[m] = cache[m] /\ cache[m] # NotCached
  <2>1. outdated'[m] <=> outdated[m] /\ cache'[m] # NotCached
    BY DEF ForgetDropped
  <2> QED
    BY <1>2, <2>1 DEF Fresh
<1> QED
  BY <1>1, <1>2

LEMMA RequestSettles ==
  ASSUME LInv, RowsSeen, EntriesSettled, NEW w \in Workers, Acts(w), ForgetDropped,
         ~Lapse
  PROVE  EntriesSettled'
<1>1. Keeps(w)
  BY ActsKeeps
<1>2. ASSUME NEW x \in Workers, x # w, NEW m, Owes(x, m) PROVE Owes(x, m)'
  <2>1. Alone(w)
    BY ActsAlone DEF LInv
  <2>2. pc'[x] = pc[x] /\ job'[x] = job[x]
    BY <1>2, <2>1, OtherJob DEF LInv
  <2> QED
    BY <1>2, <2>2 DEF Owes
<1>3. ASSUME NEW m \in Methods PROVE Settled(m)'
  <2>1. CASE \E x \in Workers : Owes(x, m)'
    BY <2>1 DEF Settled
  <2>2. CASE Owes(w, m) /\ ~Owes(w, m)'
    BY <1>1, <2>2 DEF Keeps, Settled, Fresh
  <2>3. CASE \A x \in Workers : ~Owes(x, m) /\ ~Owes(x, m)'
    <3>1. Fresh(m) \/ outdated[m]
      BY <2>3 DEF EntriesSettled, Settled
    <3>2. Fresh(m)' \/ outdated'[m]
      BY <1>1, <2>3, <3>1, StillSettled DEF Keeps
    <3> QED
      BY <3>2 DEF Settled
  <2> QED
    BY <1>2, <2>1, <2>2, <2>3
<1> QED
  BY <1>3 DEF EntriesSettled

\* A crash that catches no request owing an invalidation.
LEMMA CrashSettles ==
  ASSUME EntriesSettled, Crash, ForgetDropped, ~Lapse
  PROVE  EntriesSettled'
<1>1. ASSUME NEW m \in Methods PROVE Fresh(m)' \/ outdated'[m]
  <2>1. Fresh(m) \/ outdated[m]
    BY DEF Lapse, Fails, EntriesSettled, Settled
  <2>2. UNCHANGED <<endpoints, cache>>
    BY DEF Crash, tables
  <2> QED
    BY <2>1, <2>2, StillSettled, SameLists
<1> QED
  BY <1>1 DEF EntriesSettled, Settled

\* What a request owes is its own.
LEMMA SameOwed ==
  ASSUME UNCHANGED OwnState
  PROVE  /\ \A w \in Workers : \A m : Owes(w, m) => Owes(w, m)'
         /\ \A m : ListActiveByMethod(m)' = ListActiveByMethod(m)
<1>1. UNCHANGED <<endpoints, issued, pc, job>>
  BY DEF OwnState, tables
<1> QED
  BY <1>1, SameLists DEF Owes

LEMMA ReadersSettle ==
  ASSUME STyped, EntriesSettled, ReaderStep
  PROVE  EntriesSettled'
<1>1. UNCHANGED OwnState
  BY ReadersLeave
<1>2. ASSUME NEW m \in Methods, Fresh(m) \/ outdated[m] => Fresh(m)' \/ outdated'[m]
      PROVE  Settled(m)'
  BY <1>1, <1>2, SameOwed DEF EntriesSettled, Settled
<1>3. CASE UNCHANGED <<cache, outdated>>
  BY <1>1, <1>2, <1>3, SameOwed DEF EntriesSettled, Fresh
<1>4. ASSUME NEW m \in Methods, Expire(m) PROVE EntriesSettled'
  <2>1. /\ ForgetDropped
        /\ \A x \in Methods : cache'[x] = cache[x] \/ cache'[x] = NotCached
    BY <1>4 DEF Expire, STyped, ServingTypeOK, TypeOK, CacheTyped
  <2> QED
    BY <1>1, <1>2, <2>1, SameOwed, StillSettled DEF EntriesSettled
<1>5. ASSUME NEW r \in Readers, Fill(r),
             cache' = [cache EXCEPT ![method[r]] = list[r]],
             outdated' = [outdated EXCEPT
                            ![method[r]] = list[r] # ListActiveByMethod(method[r])]
      PROVE  EntriesSettled'
  <2>1. ASSUME NEW m \in Methods, Fresh(m) \/ outdated[m]
        PROVE  Fresh(m)' \/ outdated'[m]
    <3>0. DOMAIN cache = Methods /\ outdated \in [Methods -> BOOLEAN]
      BY DEF STyped, ServingTypeOK, TypeOK, CacheTyped
    <3>1. ListActiveByMethod(m)' = ListActiveByMethod(m)
      BY <1>1, SameOwed
    <3>2. CASE m = method[r]
      <4>1. cache'[m] = list[r]
        BY <1>5, <3>0, <3>2
      <4>2. outdated'[m] = (list[r] # ListActiveByMethod(m))
        BY <1>5, <3>0, <3>2
      <4> QED
        BY <3>1, <4>1, <4>2 DEF Fresh
    <3>3. CASE m # method[r]
      <4>1. cache'[m] = cache[m] /\ outdated'[m] = outdated[m]
        BY <1>5, <3>0, <3>3
      <4> QED
        BY <2>1, <3>1, <4>1 DEF Fresh
    <3> QED
      BY <3>2, <3>3
  <2> QED
    BY <1>1, <1>2, <2>1, SameOwed DEF EntriesSettled
<1>6. ASSUME NEW r \in Readers, (\E m \in Methods : Lookup(r, m)) \/ Load(r)
      PROVE  UNCHANGED <<cache, outdated>>
  BY <1>6 DEF Lookup, Load
<1>7. ASSUME NEW r \in Readers, Fill(r) PROVE EntriesSettled'
  BY <1>3, <1>5, <1>7 DEF Fill
<1> QED
  BY <1>3, <1>4, <1>6, <1>7 DEF ReaderStep

LEMMA InitSettled == ServingInit => EntriesSettled
BY DEF ServingInit, Init, EntriesSettled, Settled, Fresh

LEMMA NextSettled ==
  STyped /\ LInv /\ RowsSeen /\ EntriesSettled /\ [ServingNext]_allvars /\ [~Lapse]_allvars
    => EntriesSettled'
<1> SUFFICES ASSUME STyped, LInv, RowsSeen, EntriesSettled, [ServingNext]_allvars,
                    [~Lapse]_allvars
             PROVE  EntriesSettled'
  OBVIOUS
<1>1. CASE UNCHANGED allvars
  <2>1. UNCHANGED OwnState /\ UNCHANGED <<cache, outdated>>
    BY <1>1 DEF allvars, vars, OwnState, tables
  <2>2. \A m \in Methods : Fresh(m)' <=> Fresh(m)
    BY <2>1, SameOwed DEF Fresh
  <2> QED
    BY <2>1, <2>2, SameOwed DEF EntriesSettled, Settled
<1>2. CASE RegistryStep /\ ~Lapse
  BY <1>2, RequestSettles, CrashSettles DEF RegistryStep, Acts
<1>3. CASE ReaderStep
  BY <1>3, ReadersSettle
<1> QED
  BY <1>1, <1>2, <1>3, ServingSteps

\* However many control-plane and mock requests are served at once, whichever
\* calls fail and however often the process dies: as long as no two requests
\* overlap on an endpoint and none is cut off that still owed an invalidation,
\* an entry is stale only because a mock request stored rows it had read
\* before a write, or until the request that changed its list has invalidated
\* it (service.go:147, 216-217, 299, 421-426; internal/router/cache.go).
THEOREM EntriesSettle ==
  ServingSpec /\ []Apart /\ [][~Lapse]_allvars =>
    [](\A m \in Methods : Fresh(m) \/ outdated[m] \/ \E w \in Workers : Owes(w, m))
<1>1. STyped /\ RInv /\ EntriesSettled /\ Apart /\ [ServingNext]_allvars
        /\ [~Lapse]_allvars => (STyped /\ RInv /\ EntriesSettled)'
  BY NextSTyped, ServingRInv, NextSettled DEF RInv, RowsSeen
<1>2. EntriesSettled =>
        \A m \in Methods : Fresh(m) \/ outdated[m] \/ \E w \in Workers : Owes(w, m)
  BY DEF EntriesSettled, Settled
<1> QED
  BY <1>1, <1>2, InitSTyped, InitSettled, PTL DEF ServingSpec

-----------------------------------------------------------------------------
(* One request at a time and no fault: no request is cut off, for an       *)
(* import has a uuid for each of its items.                                *)

LEMMA NothingProvided ==
  ASSUME NEW w \in Workers, pc'[w] # "item",
         pc'[w] = "version" => job'[w].op # "import"
  PROVE  Provided(w)'
BY DEF Provided

LEMMA BeginProvides ==
  ASSUME IInv, NEW w \in Workers, Begin(w)
  PROVE  Provided(w)'
<1>0. UNCHANGED issued
  BY DEF Begin, BeginCreate, BeginUpdate, BeginRollback, BeginDelete, BeginImport, tables
<1>1. ASSUME NEW a \in Accounts, NEW doc \in ImportDocs, BeginImport(w, a, doc)
      PROVE  Provided(w)'
  <2> DEFINE first == Imported(Head(doc))
             j     == [NewJob("import", a, NoId, first, first) EXCEPT !.items = doc]
  <2>1. j.items = doc
    BY DEF NewJob
  <2>2. pc'[w] = "item" /\ job'[w] = j
    BY <1>1, GotoAlone DEF BeginImport
  <2>3. Spare(Len(doc))'
    BY <1>0, <1>1 DEF BeginImport, Spare
  <2> HIDE DEF j
  <2> QED
    BY <2>1, <2>2, <2>3 DEF Provided
<1>2. ASSUME NEW s \in {"schema", "list", "erase"}, NEW j, Goto(w, s, j)
      PROVE  Provided(w)'
  BY <1>2, GotoAlone, NothingProvided
<1> QED
  BY <1>1, <1>2 DEF Begin, BeginCreate, BeginUpdate, BeginRollback, BeginDelete

\* A uuid less for an item less.
LEMMA SpareAfter ==
  ASSUME FiniteIds, IInv, NEW id \in Ids \ issued, issued' = issued \cup {id},
         NEW n \in Nat, Spare(n + 1)
  PROVE  Spare(n)'
<1>1. PICK S : S = Ids \ issued
  OBVIOUS
<1>2. IsFiniteSet(S) /\ Cardinality(S) \in Nat
  BY <1>1, FS_Subset, FS_CardinalityType DEF FiniteIds
<1>3. Cardinality(S \ {id}) = Cardinality(S) - 1
  BY <1>1, <1>2, FS_RemoveElement
<1>4. Cardinality(S) >= n + 1
  BY <1>1 DEF Spare
<1>5. Ids \ issued' = S \ {id}
  BY <1>1
<1>6. Cardinality(S \ {id}) >= n
  BY <1>2, <1>3, <1>4
<1>7. Cardinality(Ids \ issued') >= n
  BY <1>5, <1>6, Zenon
<1> QED
  BY <1>7 DEF Spare

LEMMA SpareFewer ==
  ASSUME FiniteIds, UNCHANGED issued, NEW n \in Nat, Spare(n + 1)
  PROVE  Spare(n)'
<1>1. Cardinality(Ids \ issued) \in Nat
  BY FS_Subset, FS_CardinalityType DEF FiniteIds
<1> QED
  BY <1>1 DEF Spare

LEMMA InsertItemProvides ==
  ASSUME FiniteIds, LInv, NEW w \in Workers, InsertItem(w), Provided(w)
  PROVE  Provided(w)'
<1> DEFINE item == Head(job[w].items)
           rest == Tail(job[w].items)
           cfg  == Imported(item)
           j1   == [job[w] EXCEPT !.items = rest]
<1>0. IInv /\ job[w] \in Job /\ pc[w] = "item"
  BY JobAt DEF LInv, InsertItem
<1>1. PICK n \in Nat : Len(job[w].items) = n + 1 /\ Len(rest) = n
  <2>1. job[w].items \in Seq(Item) /\ job[w].items # <<>>
    BY <1>0 DEF IInv, TypeOK, JobTyped, Job
  <2>2. Len(rest) \in Nat /\ Len(job[w].items) = Len(rest) + 1
    BY <2>1
  <2> QED
    BY <2>2
<1>2. Spare(n + 1)
  BY <1>0, <1>1 DEF Provided
<1> HIDE DEF item, rest, cfg
<1>3. CASE Goto(w, NextItem(rest), j1) /\ UNCHANGED <<endpoints, issued>>
  <2>1. j1.items = rest
    BY <1>0 DEF Job
  <2> HIDE DEF j1
  <2>2. job'[w] = j1
    BY <1>0, <1>3, GotoAlone
  <2>3. Spare(n)'
    BY <1>2, <1>3, SpareFewer
  <2> QED
    BY <1>1, <2>1, <2>2, <2>3 DEF Provided
<1>4. ASSUME NEW id \in Ids, Insert(id, job[w].owner, cfg),
             Goto(w, "version",
                  [job[w] EXCEPT !.id = id, !.cfg = cfg, !.next = 1,
                                 !.schema = item.schema, !.items = rest])
      PROVE  Provided(w)'
  <2> DEFINE j == [job[w] EXCEPT !.id = id, !.cfg = cfg, !.next = 1,
                                 !.schema = item.schema, !.items = rest]
  <2>1. j.items = rest
    BY <1>0 DEF Job
  <2>2. Goto(w, "version", j)
    BY <1>4
  <2> HIDE DEF j
  <2>3. job'[w] = j
    BY <1>0, <2>2, GotoAlone
  <2>4. Spare(n)'
    BY <1>0, <1>2, <1>4, SpareAfter DEF Insert
  <2> QED
    BY <1>1, <2>1, <2>3, <2>4 DEF Provided
<1> QED
  BY <1>3, <1>4 DEF InsertItem, item, rest, cfg

LEMMA InsertVersionProvides ==
  ASSUME LInv, NEW w \in Workers, InsertVersion(w), Provided(w)
  PROVE  Provided(w)'
<1>0. IInv /\ job[w] \in Job /\ pc[w] = "version" /\ UNCHANGED issued
  BY JobAt DEF LInv, InsertVersion
<1>1. CASE /\ job[w].op = "import"
           /\ Goto(w, NextItem(job[w].items),
                   [job[w] EXCEPT !.made = @ \cup {job[w].cfg.method}])
  <2> DEFINE j == [job[w] EXCEPT !.made = @ \cup {job[w].cfg.method}]
  <2>1. j.items = job[w].items
    BY <1>0, <1>1 DEF Job
  <2>2. Goto(w, NextItem(job[w].items), j)
    BY <1>1
  <2> HIDE DEF j
  <2>3. job'[w] = j
    BY <1>0, <2>2, GotoAlone
  <2>4. Spare(Len(job[w].items))
    BY <1>0, <1>1 DEF Provided
  <2> QED
    BY <1>0, <2>1, <2>3, <2>4 DEF Provided, Spare
<1>2. CASE Goto(w, "commit", job[w]) \/ Finish(w)
  BY <1>0, <1>2, GotoAlone, NothingProvided DEF Finish
<1> QED
  BY <1>1, <1>2 DEF InsertVersion

LEMMA OtherProvides ==
  ASSUME LInv, NEW w \in Workers, Acts(w),
         ~Begin(w), ~InsertItem(w), ~InsertVersion(w)
  PROVE  Provided(w)'
<1>0. IInv /\ job[w] \in Job
  BY JobAt DEF LInv, Acts, Continue, GenerateSchema, ListForUpdate, ListForRollback,
     InsertRow, WriteRow, EraseRow, Commit, DropOld, DropNew, Sweep, FailStatement,
     Statements, OutOfIds
<1>1. ASSUME NEW s \in {"idle", "schema", "insert", "write", "commit", "dropOld",
                        "dropNew", "sweep"},
             NEW j, Goto(w, s, j)
      PROVE  Provided(w)'
  BY <1>0, <1>1, GotoAlone, NothingProvided
<1>2. CASE InsertRow(w)
  <2>1. ASSUME NEW id, Goto(w, "version", [job[w] EXCEPT !.id = id, !.next = 1])
        PROVE  Provided(w)'
    <3> DEFINE j == [job[w] EXCEPT !.id = id, !.next = 1]
    <3>1. j.op = "create"
      BY <1>0, <1>2 DEF LInv, InsertRow, Knows, OnTrack, Job
    <3>2. Goto(w, "version", j)
      BY <2>1
    <3> HIDE DEF j
    <3> QED
      BY <1>0, <3>1, <3>2, GotoAlone, NothingProvided
  <2> QED
    BY <1>1, <1>2, <2>1 DEF InsertRow, Finish
<1>3. CASE WriteRow(w)
  <2>1. job[w].op \in {"update", "rollback"}
    BY <1>0, <1>3 DEF WriteRow, IInv, TypeOK, JobTyped
  <2>2. Goto(w, "version", job[w]) => Provided(w)'
    BY <1>0, <2>1, GotoAlone, NothingProvided
  <2> QED
    BY <1>1, <1>3, <2>2 DEF WriteRow, Finish
<1>4. CASE GenerateSchema(w) \/ ListForUpdate(w) \/ ListForRollback(w)
  BY <1>1, <1>4 DEF GenerateSchema, ListForUpdate, ListForRollback, Finish
<1>5. CASE \/ EraseRow(w) \/ Commit(w) \/ DropOld(w) \/ DropNew(w) \/ Sweep(w)
           \/ FailStatement(w) \/ OutOfIds(w)
  BY <1>1, <1>5 DEF EraseRow, Commit, DropOld, DropNew, Sweep, FailStatement,
                    OutOfIds, Finish
<1> QED
  BY <1>2, <1>3, <1>4, <1>5 DEF Acts, Continue

LEMMA NextProvides ==
  ASSUME OneWorker, FiniteIds, STyped, LInv, [ServingNext]_allvars,
         \A w \in Workers : Provided(w)
  PROVE  \A w \in Workers : Provided(w)'
<1>1. CASE ReaderStep \/ UNCHANGED allvars
  <2>1. UNCHANGED OwnState
    BY <1>1, ReadersLeave DEF allvars, vars, OwnState, tables
  <2>2. UNCHANGED <<issued, pc, job>>
    BY <2>1 DEF OwnState, tables
  <2> QED
    BY <2>2 DEF Provided, Spare
<1>2. ASSUME NEW w \in Workers, Acts(w) PROVE Provided(w)'
  BY <1>2, BeginProvides, InsertItemProvides, InsertVersionProvides, OtherProvides
     DEF LInv
<1>3. CASE Crash
  BY <1>3, NothingProvided DEF Crash
<1> QED
  BY <1>1, <1>2, <1>3, ServingSteps DEF RegistryStep, Acts, OneWorker

LEMMA NoLapse ==
  ASSUME LInv, faults = 0, faults' = 0, \A w \in Workers : Provided(w)
  PROVE  ~Lapse
<1> SUFFICES ASSUME NEW w \in Workers, NEW m \in Methods, Owes(w, m), Fails(w)
             PROVE  FALSE
  BY DEF Lapse
<1>1. OutOfIds(w)
  BY DEF Fails, FailStatement, Crash
<1>2. pc[w] = "item"
  BY <1>1 DEF OutOfIds, Owes
<1>3. Len(job[w].items) \in Nat /\ Len(job[w].items) >= 1
  <2>1. job[w].items \in Seq(Item) /\ job[w].items # <<>>
    BY <1>2, JobAt DEF LInv, IInv, TypeOK, JobTyped, Job
  <2> QED
    BY <2>1
<1>4. Cardinality(Ids \ issued) = 0
  <2>1. Ids \ issued = {}
    BY <1>1 DEF OutOfIds
  <2> QED
    BY <2>1, FS_EmptySet
<1> QED
  BY <1>2, <1>3, <1>4 DEF Provided, Spare

VInv == /\ STyped /\ RInv
        /\ \A w \in Workers : Provided(w)
        /\ faults = 0 => EntriesSettled

LEMMA NextVInv ==
  ASSUME OneWorker, FiniteIds
  PROVE  VInv /\ [ServingNext]_allvars => VInv'
<1> SUFFICES ASSUME VInv, [ServingNext]_allvars PROVE VInv'
  OBVIOUS
<1>1. STyped /\ RInv /\ LInv /\ RowsSeen /\ Apart
  BY SerialApart DEF VInv, RInv, RowsSeen
<1>2. STyped' /\ RInv'
  BY <1>1, NextSTyped, ServingRInv
<1>3. \A w \in Workers : Provided(w)'
  BY <1>1, NextProvides DEF VInv
<1>4. ASSUME faults' = 0 PROVE EntriesSettled'
  <2>1. faults = 0
    <3>1. CASE RegistryStep
      BY <1>1, <1>4, <3>1, RegistryIsNext, FaultsCounted
    <3>2. CASE ReaderStep
      BY <1>1, <1>4, <3>2, ReadersLeave
    <3>3. CASE UNCHANGED allvars
      BY <1>4, <3>3 DEF allvars, vars
    <3> QED
      BY <3>1, <3>2, <3>3, ServingSteps
  <2>2. ~Lapse
    BY <1>1, <1>4, <2>1, NoLapse DEF VInv
  <2> QED
    BY <1>1, <2>1, <2>2, NextSettled DEF VInv
<1> QED
  BY <1>2, <1>3, <1>4 DEF VInv

\* With one control-plane request at a time and no failed call, between
\* requests an entry of the cache is stale only if a mock request stored rows
\* it had read before a write: the invalidations of create, update, rollback,
\* delete and import reach every list their writes changed (service.go:147,
\* 216-217, 299, 421-426).
THEOREM InvalidationsReach ==
  ASSUME OneWorker, FiniteIds
  PROVE  ServingSpec => []StaleOnlyByOutdatedFill
<1>1. VInv /\ [ServingNext]_allvars => VInv'
  BY NextVInv
<1>2. ServingInit => VInv
  <2>1. ServingInit => \A w \in Workers : Provided(w)
    BY DEF ServingInit, Init, Provided
  <2> QED
    BY <2>1, InitSTyped, InitSettled DEF VInv
<1>3. VInv => StaleOnlyByOutdatedFill
  <2> SUFFICES ASSUME VInv, Quiet, faults = 0, NEW m \in Methods
               PROVE  Fresh(m) \/ outdated[m]
    BY DEF StaleOnlyByOutdatedFill
  <2>1. \A w \in Workers : ~Owes(w, m)
    BY DEF Quiet, Owes
  <2> QED
    BY <2>1 DEF VInv, EntriesSettled, Settled
<1> QED
  BY <1>1, <1>2, <1>3, PTL DEF ServingSpec
=============================================================================
