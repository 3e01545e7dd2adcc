--------------------------- MODULE MockRequestProofs ---------------------------
(***************************************************************************)
(* Proofs about MockRequest, for every set of goroutines, every sequence   *)
(* of writes and every number of faults.                                   *)
(*                                                                         *)
(* That answers follow the schemas in force is not inductive alone.        *)
(* It rests on the validator's cache (CompiledRight: a key is compiled to  *)
(* what its own text accepts) and on what a request in progress knows      *)
(* (Known: the latest schema and the one it loaded were in force since it  *)
(* started, and these vouch for what it is about to record).               *)
(***************************************************************************)
EXTENDS MockRequest, TLAPS

CompiledRight == \A k \in DOMAIN compiled : k \in Schemas /\ compiled[k] = Accepts[k]

Follows(r) == Justified(answer[r].source, answer[r].doc, seen[r])

Known ==
  \A r \in Requests :
    /\ pc[r] \in {"load", "attempt", "fill"} => LoadSchema(latest) \in seen[r]
    /\ pc[r] = "attempt" => schema[r] \in seen[r]
    /\ pc[r] = "record" \/ IsGenerated(r) => Follows(r)

IInv == TypeOK /\ CompiledRight /\ ContractEnforced /\ HistoryTells /\ Known

-----------------------------------------------------------------------------
(* The writes and the validator's cache.                                   *)

LEMMA WriteType ==
  ASSUME NEW v \in 1..Len(Versions)
  PROVE  /\ Versions[v] \in Write
         /\ Versions[v].schema \in Texts
         /\ Versions[v].request \in Texts
         /\ Versions[v].sim \in Sims \cup {NoSim}
<1>1. Versions[v] \in Write
  BY VersionsAssumption
<1> QED
  BY <1>1 DEF Write

LEMMA LenType == Len(Versions) \in Nat /\ Len(Versions) > 0
BY VersionsAssumption

LEMMA LoadSchemaType ==
  ASSUME NEW v \in 0..Len(Versions)
  PROVE  LoadSchema(v) \in Texts
BY WriteType, LenType DEF LoadSchema, Texts

\* What is compiled under a text accepts what the text accepts.
LEMMA CompiledAccepts ==
  ASSUME CompiledRight, NEW text \in Schemas
  PROVE  Compiled(text) = Accepts[text]
BY DEF CompiledRight, Compiled, CacheKey

LEMMA CompileKeeps ==
  ASSUME CompiledRight, NEW texts \in SUBSET Texts, Compile(texts)
  PROVE  CompiledRight'
<1> DEFINE keys == DOMAIN compiled \cup {CacheKey(t) : t \in texts \ {NoSchema}}
           Compilation(k) == IF k \in DOMAIN compiled THEN compiled[k]
                             ELSE Accepts[CHOOSE t \in texts \ {NoSchema} : CacheKey(t) = k]
<1>1. compiled' = [k \in keys |-> Compilation(k)]
  BY DEF Compile
<1>2. keys = DOMAIN compiled \cup (texts \ {NoSchema})
  BY DEF CacheKey
<1>3. ASSUME NEW k \in keys
      PROVE  k \in Schemas /\ Compilation(k) = Accepts[k]
  <2>1. CASE k \in DOMAIN compiled
    BY <2>1 DEF CompiledRight
  <2>2. CASE k \notin DOMAIN compiled
    <3>1. k \in texts \ {NoSchema}
      BY <1>2, <2>2
    <3>2. (CHOOSE t \in texts \ {NoSchema} : CacheKey(t) = k) = k
      BY <3>1 DEF CacheKey
    <3> QED
      BY <2>2, <3>1, <3>2 DEF Texts
  <2> QED
    BY <2>1, <2>2
<1> HIDE DEF keys, Compilation
<1> QED
  BY <1>1, <1>3 DEF CompiledRight

\* A request that is not refused satisfies the contract of its row.
LEMMA NotRefused ==
  ASSUME CompiledRight, NEW v \in 0..Len(Versions), NEW q \in Inputs, Refusal(v, q) = 0
  PROVE  /\ v # 0
         /\ Auth => Versions[v].public \/ q.identity
         /\ Versions[v].request # NoSchema => q.body \in Accepts[Versions[v].request]
<1>1. v # 0 /\ (Auth => Versions[v].public \/ q.identity) /\ validateRequestBody(v, q.body)
  BY DEF Refusal
<1>2. ASSUME Versions[v].request # NoSchema
      PROVE  q.body \in Accepts[Versions[v].request]
  <2>1. Versions[v].request \in Schemas
    BY <1>1, <1>2, WriteType, LenType DEF Texts
  <2> QED
    BY <1>1, <1>2, <2>1, CompiledAccepts DEF validateRequestBody, Validates
<1> QED
  BY <1>1, <1>2

-----------------------------------------------------------------------------
(* Every step keeps the invariant.                                         *)

\* Answers have their type.
LEMMA AnswerTypes ==
  /\ NoAnswer \in Answers
  /\ \A status \in {400, 401, 404, 500} :
       [status |-> status, source |-> "refused", doc |-> NoDoc] \in Answers
  /\ \A d \in Documents \cup {NoDoc}, source \in {"ai", "faker", "static"} :
       [status |-> 200, source |-> source, doc |-> d] \in Answers
  /\ \A sim \in Sims : applyFailure(sim) \in Answers
<1>1. NoAnswer \in Answers
  BY DEF NoAnswer, Answers
<1>2. \A status \in {400, 401, 404, 500} :
        [status |-> status, source |-> "refused", doc |-> NoDoc] \in Answers
  BY DEF Answers
<1>3. \A d \in Documents \cup {NoDoc}, source \in {"ai", "faker", "static"} :
        [status |-> 200, source |-> source, doc |-> d] \in Answers
  BY DEF Answers
<1>4. ASSUME NEW sim \in Sims
      PROVE  applyFailure(sim) \in Answers
  BY DEF applyFailure, Answers, Sims
<1> QED
  BY <1>1, <1>2, <1>3, <1>4

LEMMA InitIInv == Init => IInv
<1> SUFFICES ASSUME Init PROVE IInv
  OBVIOUS
<1>1. row \in 0..Len(Versions) /\ latest \in 0..Len(Versions) /\ entry \in 0..Len(Versions)
      /\ faults \in 0..MaxFaults
  BY LenType, BoundsAssumption DEF Init
<1>2. /\ pending \in BOOLEAN
      /\ history \subseteq Requests
      /\ pc \in [Requests -> {"idle", "load", "attempt", "fill", "record", "answered"}]
      /\ req \in [Requests -> Inputs \cup {NoRequest}]
      /\ schema \in [Requests -> Texts]
      /\ seen \in [Requests -> SUBSET Texts]
  BY DEF Init, Texts
<1>3. ver \in [Requests -> 0..Len(Versions)] /\ tries \in [Requests -> 0..1]
  BY LenType DEF Init
<1>4. answer \in [Requests -> Answers]
  BY AnswerTypes DEF Init
<1>5. TypeOK
  BY <1>1, <1>2, <1>3, <1>4 DEF TypeOK, maxGenerationAttempts
<1>6. CompiledRight
  BY DEF Init, CompiledRight
<1>7. ContractEnforced /\ HistoryTells /\ Known
  BY DEF Init, ContractEnforced, HistoryTells, Known, IsGenerated
<1> QED
  BY <1>5, <1>6, <1>7 DEF IInv

\* Failing costs one of the faults there are.
LEMMA FaultCounts ==
  ASSUME TypeOK, Fault
  PROVE  faults' \in 0..MaxFaults /\ faults' > 0
BY BoundsAssumption DEF TypeOK, Fault

\* The database fails, the list is read and the request refused, or its
\* simulated failure comes first, or generation starts.
LEMMA ResolveKeeps ==
  ASSUME TypeOK, CompiledRight, ContractEnforced, HistoryTells, Known,
         NEW r \in Requests, Resolve(r)
  PROVE  IInv'
<1>1. PICK q \in Inputs :
       /\ req' = [req EXCEPT ![r] = q]
       /\ \/ /\ Fault
             /\ Refuse(r, 500)
             /\ UNCHANGED <<ver, compiled>>
          \/ /\ UNCHANGED faults
             /\ ver' = [ver EXCEPT ![r] = entry]
             /\ Compile(IF Refusal(entry, q) \in {0, 400} /\ q.body # Empty
                        THEN {Versions[entry].request} ELSE {})
             /\ \/ /\ Refusal(entry, q) # 0
                   /\ Refuse(r, Refusal(entry, q))
                \/ /\ Refusal(entry, q) = 0
                   /\ LET sim == Versions[entry].sim
                      IN  \/ /\ sim # NoSim
                             /\ \E roll \in 0..99 : ShouldFail(sim, roll)
                             /\ answer' = [answer EXCEPT ![r] = applyFailure(sim)]
                             /\ Goto(r, "answered")
                          \/ /\ sim # NoSim => \E roll \in 0..99 : ~ShouldFail(sim, roll)
                             /\ Goto(r, "load")
                             /\ UNCHANGED answer
  BY DEF Resolve
<1>2. /\ pc[r] = "idle"
      /\ seen' = [seen EXCEPT ![r] = {LoadSchema(latest)}]
      /\ UNCHANGED <<row, latest, pending, history, entry, schema, tries>>
  BY DEF Resolve, tables
<1>3. /\ seen' \in [Requests -> SUBSET Texts]
      /\ req' \in [Requests -> Inputs \cup {NoRequest}]
  BY <1>1, <1>2, LoadSchemaType DEF TypeOK
<1>4. ASSUME ver' \in [Requests -> 0..Len(Versions)], CompiledRight',
             faults' \in 0..MaxFaults, faults' >= faults,
             NEW a \in Answers, a.source \in {"refused", "simulated"},
             answer' = [answer EXCEPT ![r] = a],
             Goto(r, "answered"),
             \A o \in Requests \ {r} : ver'[o] = ver[o]
      PROVE  IInv'
  <2>1. pc' = [pc EXCEPT ![r] = "answered"]
    BY <1>4 DEF Goto
  <2>2. TypeOK'
    BY <1>2, <1>3, <1>4, <2>1 DEF TypeOK
  <2>3. \A o \in Requests \ {r} :
          /\ pc'[o] = pc[o] /\ answer'[o] = answer[o] /\ seen'[o] = seen[o]
          /\ req'[o] = req[o] /\ ver'[o] = ver[o] /\ schema'[o] = schema[o]
          /\ IsGenerated(o)' = IsGenerated(o)
    BY <1>1, <1>2, <1>4, <2>1 DEF TypeOK, IsGenerated
  <2>4. pc'[r] = "answered" /\ ~IsGenerated(r)'
    BY <1>4, <2>1 DEF TypeOK, IsGenerated
  <2>5. ContractEnforced'
    BY <2>3, <2>4 DEF ContractEnforced
  <2>6. (faults > 0 => faults' > 0) /\ (faults' = 0 => faults = 0)
    BY <1>4, BoundsAssumption DEF TypeOK
  <2>7. HistoryTells'
    BY <1>2, <2>3, <2>4, <2>6 DEF HistoryTells
  <2>8. Known'
    BY <1>2, <2>3, <2>4, <2>6 DEF Known, Follows, Justified, LoadSchema
  <2> QED
    BY <1>4, <2>2, <2>5, <2>7, <2>8 DEF IInv
<1>5. CASE /\ Fault
           /\ Refuse(r, 500)
           /\ UNCHANGED <<ver, compiled>>
  <2>1. faults' \in 0..MaxFaults /\ faults' >= faults
    BY <1>5, BoundsAssumption DEF Fault, TypeOK
  <2>2. CompiledRight'
    BY <1>5 DEF CompiledRight
  <2> QED
    BY <1>4, <1>5, <2>1, <2>2, AnswerTypes DEF Refuse, TypeOK
<1>6. ASSUME UNCHANGED faults,
             ver' = [ver EXCEPT ![r] = entry],
             Compile(IF Refusal(entry, q) \in {0, 400} /\ q.body # Empty
                     THEN {Versions[entry].request} ELSE {}),
             \/ Refusal(entry, q) # 0 /\ Refuse(r, Refusal(entry, q))
             \/ /\ Refusal(entry, q) = 0
                /\ Versions[entry].sim # NoSim
                /\ answer' = [answer EXCEPT ![r] = applyFailure(Versions[entry].sim)]
                /\ Goto(r, "answered")
             \/ /\ Refusal(entry, q) = 0
                /\ Versions[entry].sim # NoSim => \E roll \in 0..99 : ~ShouldFail(Versions[entry].sim, roll)
                /\ Goto(r, "load")
                /\ UNCHANGED answer
      PROVE  IInv'
  <2>1. ver' \in [Requests -> 0..Len(Versions)] /\ faults' \in 0..MaxFaults /\ faults' >= faults
    BY <1>6 DEF TypeOK
  <2>2. Refusal(entry, q) \in {0, 400} => entry # 0
    BY DEF Refusal
  <2>3. entry # 0 => entry \in 1..Len(Versions)
    BY LenType DEF TypeOK
  <2>4. CompiledRight'
    BY <1>6, <2>2, <2>3, CompileKeeps, WriteType
  <2>5. CASE Refusal(entry, q) # 0 /\ Refuse(r, Refusal(entry, q))
    <3>1. Refusal(entry, q) \in {400, 401, 404, 500}
      BY <2>5 DEF Refusal
    <3> DEFINE a == [status |-> Refusal(entry, q), source |-> "refused", doc |-> NoDoc]
    <3>2. a \in Answers /\ a.source \in {"refused", "simulated"}
      BY <3>1, AnswerTypes
    <3>3. answer' = [answer EXCEPT ![r] = a] /\ Goto(r, "answered")
      BY <2>5 DEF Refuse
    <3>4. \A o \in Requests \ {r} : ver'[o] = ver[o]
      BY <1>6 DEF TypeOK
    <3> HIDE DEF a
    <3> QED
      BY <1>4, <2>1, <2>4, <3>2, <3>3, <3>4
  <2>6. CASE /\ Refusal(entry, q) = 0
             /\ Versions[entry].sim # NoSim
             /\ answer' = [answer EXCEPT ![r] = applyFailure(Versions[entry].sim)]
             /\ Goto(r, "answered")
    <3>1. Versions[entry].sim \in Sims
      BY <2>2, <2>3, <2>6, WriteType
    <3>2. applyFailure(Versions[entry].sim).source = "simulated"
      BY DEF applyFailure
    <3> QED
      BY <1>4, <1>6, <2>1, <2>4, <2>6, <3>1, <3>2, AnswerTypes DEF TypeOK
  <2>7. CASE /\ Refusal(entry, q) = 0
             /\ Versions[entry].sim # NoSim => \E roll \in 0..99 : ~ShouldFail(Versions[entry].sim, roll)
             /\ Goto(r, "load")
             /\ UNCHANGED answer
    <3>1. pc' = [pc EXCEPT ![r] = "load"]
      BY <2>7 DEF Goto
    <3>2. TypeOK'
      BY <1>2, <1>3, <2>1, <2>7, <3>1 DEF TypeOK
    <3>3. \A o \in Requests \ {r} :
            /\ pc'[o] = pc[o] /\ answer'[o] = answer[o] /\ seen'[o] = seen[o]
            /\ req'[o] = req[o] /\ ver'[o] = ver[o] /\ schema'[o] = schema[o]
            /\ IsGenerated(o)' = IsGenerated(o)
      BY <1>1, <1>2, <1>6, <2>7, <3>1 DEF TypeOK, IsGenerated
    <3>4. pc'[r] = "load" /\ ~IsGenerated(r)' /\ req'[r] = q /\ ver'[r] = entry
          /\ seen'[r] = {LoadSchema(latest)}
      BY <1>1, <1>2, <1>6, <3>1 DEF TypeOK, IsGenerated
    <3>5. /\ entry # 0
          /\ Auth => Versions[entry].public \/ q.identity
          /\ Versions[entry].request # NoSchema => q.body \in Accepts[Versions[entry].request]
      BY <2>7, NotRefused DEF TypeOK
    <3>6. Versions[entry].sim = NoSim \/ Versions[entry].sim.rate \in 1..99
      <4>1. Versions[entry].sim \in Sims \cup {NoSim}
        BY <2>3, <3>5, WriteType
      <4> QED
        BY <2>7, <4>1 DEF ShouldFail, Sims
    <3>7. ContractEnforced'
      BY <3>3, <3>4, <3>5, <3>6 DEF ContractEnforced
    <3>8. HistoryTells'
      BY <1>2, <1>6, <3>3, <3>4 DEF HistoryTells
    <3>9. Known'
      BY <1>2, <1>6, <3>3, <3>4 DEF Known, Follows, Justified, LoadSchema
    <3> QED
      BY <2>4, <3>2, <3>7, <3>8, <3>9 DEF IInv
  <2> QED
    BY <1>6, <2>5, <2>6, <2>7
<1> QED
  BY <1>1, <1>5, <1>6

\* What a step of one request being generated has to show of that request.
LEMMA GeneratingKeeps ==
  ASSUME TypeOK, ContractEnforced, HistoryTells, Known,
         NEW r \in Requests,
         pc[r] \in {"load", "attempt", "fill", "record"},
         UNCHANGED <<row, latest, pending, entry, req, ver, seen>>,
         TypeOK', CompiledRight', faults' >= faults,
         history \subseteq history', row = 0 => history' = history,
         \A o \in Requests \ {r} :
           pc'[o] = pc[o] /\ schema'[o] = schema[o] /\ answer'[o] = answer[o],
         pc'[r] \in {"load", "attempt", "fill"} => pc[r] \in {"load", "attempt", "fill"},
         pc'[r] = "attempt" => schema'[r] \in seen[r],
         pc'[r] = "record" \/ IsGenerated(r)' => Follows(r)',
         IsGenerated(r)' /\ row # 0 /\ faults' = 0 => r \in history'
  PROVE  IInv'
<1>1. (faults > 0 => faults' > 0) /\ (faults' = 0 => faults = 0)
  BY BoundsAssumption DEF TypeOK
<1>2. \A o \in Requests \ {r} : IsGenerated(o)' = IsGenerated(o)
  BY DEF IsGenerated
<1>3. ContractEnforced'
  BY <1>2 DEF ContractEnforced
<1>4. HistoryTells'
  BY <1>1, <1>2 DEF HistoryTells
<1>5. ASSUME NEW o \in Requests \ {r}, Follows(o)
      PROVE  Follows(o)'
  BY <1>1, <1>5 DEF Follows, Justified
<1>6. Known'
  BY <1>2, <1>5 DEF Known, LoadSchema
<1> QED
  BY <1>3, <1>4, <1>6 DEF IInv

\* Loading the schema puts it into the request; what is latest is in force.
LEMMA LoadKeeps ==
  ASSUME TypeOK, CompiledRight, ContractEnforced, HistoryTells, Known,
         NEW r \in Requests, Load(r)
  PROVE  IInv'
<1>1. /\ pc[r] = "load"
      /\ UNCHANGED <<row, latest, pending, history, entry, compiled, req, ver, answer, seen>>
  BY DEF Load, tables
<1>2. CompiledRight'
  BY <1>1 DEF CompiledRight
<1>3. LoadSchema(latest) \in Texts /\ LoadSchema(latest) \in seen[r]
  BY <1>1, LoadSchemaType DEF TypeOK, Known
<1>4. CASE /\ schema' = [schema EXCEPT ![r] = LoadSchema(latest)]
           /\ tries' = [tries EXCEPT ![r] = 0]
           /\ Goto(r, "attempt")
           /\ UNCHANGED faults
  <2>1. tries' \in [Requests -> 0..(maxGenerationAttempts - 1)]
    BY <1>4 DEF TypeOK, maxGenerationAttempts
  <2>2. TypeOK'
    BY <1>1, <1>3, <1>4, <2>1 DEF TypeOK, Goto
  <2>3. faults' >= faults
    BY <1>4, BoundsAssumption DEF TypeOK
  <2> QED
    BY <1>1, <1>2, <1>3, <1>4, <2>2, <2>3, GeneratingKeeps DEF TypeOK, Goto, IsGenerated
<1>5. CASE Fault /\ Goto(r, "fill") /\ UNCHANGED <<schema, tries>>
  <2>1. faults' \in 0..MaxFaults /\ faults' >= faults
    BY <1>5, BoundsAssumption DEF TypeOK, Fault
  <2>2. TypeOK'
    BY <1>1, <1>5, <2>1 DEF TypeOK, Goto
  <2> QED
    BY <1>1, <1>2, <1>5, <2>1, <2>2, GeneratingKeeps DEF TypeOK, Goto, IsGenerated
<1> QED
  BY <1>4, <1>5 DEF Load

\* What is generated goes on to be recorded, and a schema vouches for it.
LEMMA GeneratedKeeps ==
  ASSUME TypeOK, CompiledRight', ContractEnforced, HistoryTells, Known,
         NEW r \in Requests, NEW source \in {"ai", "faker", "static"},
         NEW d \in Documents \cup {NoDoc},
         pc[r] \in {"attempt", "fill"},
         Generated(r, source, d),
         faults' \in 0..MaxFaults, faults' >= faults,
         UNCHANGED <<row, latest, pending, history, entry, req, ver, schema, tries, seen>>,
         Justified(source, d, seen[r])'
  PROVE  IInv'
<1> DEFINE a == [status |-> 200, source |-> source, doc |-> d]
<1>1. answer' = [answer EXCEPT ![r] = a] /\ pc' = [pc EXCEPT ![r] = "record"]
  BY DEF Generated, Goto
<1>2. a \in Answers /\ a.source = source /\ a.doc = d
  BY DEF Answers
<1> HIDE DEF a
<1>3. TypeOK'
  BY <1>1, <1>2 DEF TypeOK
<1>4. pc'[r] = "record" /\ answer'[r] = a /\ ~IsGenerated(r)'
  BY <1>1 DEF TypeOK, IsGenerated
<1>5. Follows(r)'
  BY <1>2, <1>4 DEF Follows, Justified
<1>6. \A o \in Requests \ {r} :
        pc'[o] = pc[o] /\ schema'[o] = schema[o] /\ answer'[o] = answer[o]
  BY <1>1 DEF TypeOK
<1> QED
  BY <1>3, <1>4, <1>5, <1>6, GeneratingKeeps

\* An answer of the AI is served when its schema accepts it, and rejected at
\* most until no attempt is left.
LEMMA AttemptKeeps ==
  ASSUME TypeOK, CompiledRight, ContractEnforced, HistoryTells, Known,
         NEW r \in Requests, Attempt(r)
  PROVE  IInv'
<1>1. /\ pc[r] = "attempt"
      /\ UNCHANGED <<row, latest, pending, history, entry, req, ver, schema, seen, faults>>
  BY DEF Attempt, tables
<1>2. faults' \in 0..MaxFaults /\ faults' >= faults
  BY <1>1, BoundsAssumption DEF TypeOK
<1>3. schema[r] \in Texts /\ schema[r] \in seen[r]
  BY <1>1 DEF TypeOK, Known
<1>4. ASSUME UNCHANGED answer, CompiledRight', Goto(r, "fill") \/ UNCHANGED pc,
             tries' \in [Requests -> 0..(maxGenerationAttempts - 1)]
      PROVE  IInv'
  <2>1. TypeOK'
    BY <1>1, <1>4 DEF TypeOK, Goto
  <2> QED
    BY <1>1, <1>2, <1>3, <1>4, <2>1, GeneratingKeeps DEF TypeOK, Goto, IsGenerated
<1>5. CASE Goto(r, "fill") /\ UNCHANGED <<answer, tries, compiled>>
  BY <1>4, <1>5 DEF CompiledRight, TypeOK
<1>6. ASSUME NEW d \in Documents, Compile({schema[r]}),
             IF schema[r] = NoSchema \/ Validates(schema[r], d)
             THEN Generated(r, "ai", d) /\ UNCHANGED tries
             ELSE Rejected(r, d)
      PROVE  IInv'
  <2>1. CompiledRight'
    BY <1>3, <1>6, CompileKeeps
  <2>2. CASE schema[r] = NoSchema \/ Validates(schema[r], d)
    <3>1. schema[r] # NoSchema => d \in Accepts[schema[r]]
      BY <1>3, <2>2, CompiledAccepts DEF Validates, Texts
    <3>2. Justified("ai", d, seen[r])'
      BY <1>1, <1>3, <3>1 DEF Justified
    <3> QED
      BY <1>1, <1>2, <1>3, <1>6, <2>1, <2>2, <3>2, GeneratedKeeps
  <2>3. CASE ~(schema[r] = NoSchema \/ Validates(schema[r], d))
    <3>1. Rejected(r, d)
      BY <1>6, <2>3
    <3>2. tries \in [Requests -> 0..1]
      BY DEF TypeOK, maxGenerationAttempts
    <3>3. tries' = tries \/ (tries[r] + 1 < 2 /\ tries' = [tries EXCEPT ![r] = tries[r] + 1])
      BY <3>1 DEF Rejected, maxGenerationAttempts
    <3>4. tries[r] + 1 < 2 => tries[r] + 1 \in 0..1
      BY <3>2
    <3>5. tries' \in [Requests -> 0..(maxGenerationAttempts - 1)]
      BY <3>2, <3>3, <3>4 DEF maxGenerationAttempts
    <3> QED
      BY <1>4, <2>1, <3>1, <3>5 DEF Rejected
  <2> QED
    BY <2>2, <2>3
<1> QED
  BY <1>1, <1>5, <1>6 DEF Attempt

\* The faker fills the latest schema; the echo is left without one.
LEMMA FillKeeps ==
  ASSUME TypeOK, CompiledRight, ContractEnforced, HistoryTells, Known,
         NEW r \in Requests, Fill(r)
  PROVE  IInv'
<1> DEFINE s == LoadSchema(latest)
<1>1. /\ pc[r] = "fill"
      /\ UNCHANGED <<row, latest, pending, history, entry, compiled, req, ver, schema, tries, seen>>
  BY DEF Fill, tables
<1>2. CompiledRight'
  BY <1>1 DEF CompiledRight
<1>3. s \in Texts /\ s \in seen[r]
  BY <1>1, LoadSchemaType DEF TypeOK, Known
<1>4. faults \in 0..MaxFaults
  BY DEF TypeOK
<1>5. ASSUME s # NoSchema, NEW d \in Fills[s], Generated(r, "faker", d), UNCHANGED faults
      PROVE  IInv'
  <2>1. d \in Documents
    BY <1>3, <1>5, FillsAssumption DEF Texts
  <2>2. faults' \in 0..MaxFaults /\ faults' >= faults
    BY <1>4, <1>5, BoundsAssumption
  <2> HIDE DEF s
  <2>3. Justified("faker", d, seen[r])'
    BY <1>1, <1>3, <1>5 DEF Justified
  <2> QED
    BY <1>1, <1>2, <1>3, <1>5, <2>1, <2>2, <2>3, GeneratedKeeps
<1>6. ASSUME IF s = NoSchema THEN UNCHANGED faults ELSE Fault, Generated(r, "static", NoDoc)
      PROVE  IInv'
  <2>1. /\ faults' \in 0..MaxFaults /\ faults' >= faults
        /\ s # NoSchema => faults' > 0
    BY <1>4, <1>6, BoundsAssumption DEF Fault
  <2> HIDE DEF s
  <2>2. Justified("static", NoDoc, seen[r])'
    BY <1>1, <1>3, <2>1 DEF Justified
  <2> QED
    BY <1>1, <1>2, <1>3, <1>6, <2>1, <2>2, GeneratedKeeps
<1> QED
  BY <1>5, <1>6 DEF Fill

\* A generated answer is in the history unless the insert failed.
LEMMA RecordHistoryKeeps ==
  ASSUME TypeOK, CompiledRight, ContractEnforced, HistoryTells, Known,
         NEW r \in Requests, RecordHistory(r)
  PROVE  IInv'
<1>1. /\ pc[r] = "record"
      /\ pc' = [pc EXCEPT ![r] = "answered"]
      /\ UNCHANGED <<row, latest, pending, entry, compiled, req, ver, schema, tries, answer, seen>>
  BY DEF RecordHistory, Goto
<1>2. CompiledRight'
  BY <1>1 DEF CompiledRight
<1>3. /\ faults' \in 0..MaxFaults /\ faults' >= faults
      /\ faults' = 0 /\ row # 0 => r \in history'
      /\ history \subseteq history' /\ history' \subseteq history \cup {r}
      /\ row = 0 => history' = history
  BY BoundsAssumption DEF RecordHistory, Recordable, Fault, TypeOK
<1>4. TypeOK'
  BY <1>1, <1>3 DEF TypeOK
<1>5. Follows(r)'
  BY <1>1, <1>3, BoundsAssumption DEF Known, Follows, Justified, TypeOK
<1>6. \A o \in Requests \ {r} :
        pc'[o] = pc[o] /\ schema'[o] = schema[o] /\ answer'[o] = answer[o]
  BY <1>1 DEF TypeOK
<1> QED
  BY <1>1, <1>2, <1>3, <1>4, <1>5, <1>6, GeneratingKeeps DEF TypeOK

\* A goroutine between two requests knows nothing.
LEMMA LeaveKeeps ==
  ASSUME TypeOK, CompiledRight, ContractEnforced, HistoryTells, Known,
         NEW r \in Requests, Leave(r)
  PROVE  IInv'
<1>1. /\ pc' = [pc EXCEPT ![r] = "idle"]
      /\ UNCHANGED <<row, latest, pending, entry, compiled, faults>>
      /\ history' = history \ {r}
      /\ req' = [req EXCEPT ![r] = NoRequest]
      /\ ver' = [ver EXCEPT ![r] = 0]
      /\ schema' = [schema EXCEPT ![r] = NoSchema]
      /\ tries' = [tries EXCEPT ![r] = 0]
      /\ answer' = [answer EXCEPT ![r] = NoAnswer]
      /\ seen' = [seen EXCEPT ![r] = {}]
  BY DEF Leave, Goto
<1>2. tries' \in [Requests -> 0..(maxGenerationAttempts - 1)]
  BY <1>1 DEF TypeOK, maxGenerationAttempts
<1>3. ver' \in [Requests -> 0..Len(Versions)]
  BY <1>1, LenType DEF TypeOK
<1>4. TypeOK'
  BY <1>1, <1>2, <1>3, AnswerTypes DEF TypeOK, Texts
<1>5. pc'[r] = "idle" /\ ~IsGenerated(r)'
  BY <1>1 DEF TypeOK, IsGenerated
<1>6. \A o \in Requests \ {r} :
        /\ pc'[o] = pc[o] /\ answer'[o] = answer[o] /\ seen'[o] = seen[o]
        /\ req'[o] = req[o] /\ ver'[o] = ver[o] /\ schema'[o] = schema[o]
        /\ IsGenerated(o)' = IsGenerated(o)
  BY <1>1 DEF TypeOK, IsGenerated
<1>7. CompiledRight'
  BY <1>1 DEF CompiledRight
<1>8. ContractEnforced'
  BY <1>5, <1>6 DEF ContractEnforced
<1>9. HistoryTells'
  BY <1>1, <1>5, <1>6 DEF HistoryTells
<1>10. Known'
  BY <1>1, <1>5, <1>6 DEF Known, Follows, Justified, LoadSchema
<1> QED
  BY <1>4, <1>7, <1>8, <1>9, <1>10 DEF IInv

\* What a step that serves no request has to show: the schemas in force are
\* noticed, and the history is told.
LEMMA BackgroundKeeps ==
  ASSUME TypeOK, ContractEnforced, Known,
         UNCHANGED locals, TypeOK', CompiledRight', HistoryTells', faults' >= faults,
         \A r \in Requests : seen[r] \subseteq seen'[r],
         latest' = latest \/ Noticed
  PROVE  IInv'
<1>1. UNCHANGED <<pc, req, ver, schema, tries, answer>>
  BY DEF locals
<1>2. ContractEnforced'
  BY <1>1 DEF ContractEnforced, IsGenerated
<1>3. faults > 0 => faults' > 0
  BY BoundsAssumption DEF TypeOK
<1>4. ASSUME NEW r \in Requests, Follows(r)
      PROVE  Follows(r)'
  BY <1>1, <1>3, <1>4 DEF Follows, Justified
<1>5. ASSUME NEW r \in Requests, pc[r] \in {"load", "attempt", "fill"}
      PROVE  LoadSchema(latest)' \in seen'[r]
  <2>1. CASE latest' = latest
    BY <1>5, <2>1 DEF Known, LoadSchema
  <2>2. CASE Noticed
    BY <1>5, <2>2 DEF Noticed, LoadSchema
  <2> QED
    BY <2>1, <2>2
<1>6. Known'
  BY <1>1, <1>4, <1>5 DEF Known, IsGenerated
<1> QED
  BY <1>2, <1>6 DEF IInv

LEMMA NoticedKeeps ==
  ASSUME TypeOK, latest' \in 0..Len(Versions), Noticed
  PROVE  /\ seen' \in [Requests -> SUBSET Texts]
         /\ \A r \in Requests : seen[r] \subseteq seen'[r]
<1>1. LoadSchema(latest') \in Texts
  BY LoadSchemaType
<1> QED
  BY <1>1 DEF Noticed, TypeOK

\* An update vets its schemas and writes the row.
LEMMA WriteRowKeeps ==
  ASSUME TypeOK, CompiledRight, ContractEnforced, HistoryTells, Known, WriteRow
  PROVE  IInv'
<1>1. /\ row \in 1..(Len(Versions) - 1)
      /\ row' = row + 1
      /\ pending' = TRUE
      /\ Compile({Versions[row'].schema, Versions[row'].request})
      /\ UNCHANGED <<latest, history, entry, locals, seen, faults>>
  BY DEF WriteRow
<1>2. row' \in 1..Len(Versions)
  BY <1>1, LenType
<1>3. CompiledRight'
  BY <1>1, <1>2, CompileKeeps, WriteType
<1>4. TypeOK'
  BY <1>1, <1>2 DEF TypeOK, locals
<1>5. HistoryTells'
  BY <1>1, <1>2 DEF HistoryTells, IsGenerated, locals
<1>6. faults' >= faults
  BY <1>1, BoundsAssumption DEF TypeOK
<1> QED
  BY <1>1, <1>3, <1>4, <1>5, <1>6, BackgroundKeeps

\* Its version is in force once it is recorded.
LEMMA RecordVersionKeeps ==
  ASSUME TypeOK, CompiledRight, ContractEnforced, HistoryTells, Known, RecordVersion
  PROVE  IInv'
<1>1. /\ pending' = FALSE
      /\ Noticed
      /\ UNCHANGED <<row, history, entry, compiled, locals>>
      /\ latest' \in {latest, row}
      /\ faults' = faults \/ Fault
  BY DEF RecordVersion
<1>2. faults' \in 0..MaxFaults /\ faults' >= faults /\ (faults' = 0 => faults = 0)
  BY <1>1, BoundsAssumption DEF TypeOK, Fault
<1>3. latest' \in 0..Len(Versions)
  BY <1>1 DEF TypeOK
<1>4. TypeOK'
  BY <1>1, <1>2, <1>3, NoticedKeeps DEF TypeOK, locals
<1>5. HistoryTells'
  BY <1>1, <1>2 DEF HistoryTells, IsGenerated, locals
<1>6. CompiledRight'
  BY <1>1 DEF CompiledRight
<1> QED
  BY <1>1, <1>2, <1>3, <1>4, <1>5, <1>6, NoticedKeeps, BackgroundKeeps

\* A delete empties the history and leaves no schema in force.
LEMMA DeleteKeeps ==
  ASSUME TypeOK, CompiledRight, ContractEnforced, HistoryTells, Known, Delete
  PROVE  IInv'
<1>1. /\ row' = 0 /\ latest' = 0 /\ pending' = FALSE /\ history' = {}
      /\ Noticed
      /\ UNCHANGED <<entry, compiled, locals, faults>>
  BY DEF Delete
<1>2. latest' \in 0..Len(Versions) /\ row' \in 0..Len(Versions)
  BY <1>1, LenType
<1>3. TypeOK'
  BY <1>1, <1>2, NoticedKeeps DEF TypeOK, locals
<1>4. HistoryTells' /\ CompiledRight'
  BY <1>1 DEF HistoryTells, CompiledRight
<1>5. faults' >= faults
  BY <1>1, BoundsAssumption DEF TypeOK
<1> QED
  BY <1>1, <1>2, <1>3, <1>4, <1>5, NoticedKeeps, BackgroundKeeps

LEMMA RefreshKeeps ==
  ASSUME TypeOK, CompiledRight, ContractEnforced, HistoryTells, Known, RefreshStep
  PROVE  IInv'
<1>1. entry' = row /\ UNCHANGED <<row, latest, pending, history, compiled, locals, seen, faults>>
  BY DEF RefreshStep, Refresh, tables
<1>2. TypeOK'
  BY <1>1 DEF TypeOK, locals
<1>3. HistoryTells' /\ CompiledRight'
  BY <1>1 DEF HistoryTells, CompiledRight, IsGenerated, locals
<1>4. faults' >= faults
  BY <1>1, BoundsAssumption DEF TypeOK
<1> QED
  BY <1>1, <1>2, <1>3, <1>4, BackgroundKeeps

\* After a restart no request is in progress and nothing is compiled.
LEMMA RestartKeeps ==
  ASSUME TypeOK, CompiledRight, ContractEnforced, HistoryTells, Known, Restart
  PROVE  IInv'
<1>1. faults' \in 0..MaxFaults
  BY BoundsAssumption DEF Restart, Fault, TypeOK
<1>2. ver' \in [Requests -> 0..Len(Versions)] /\ tries' \in [Requests -> 0..1]
  BY LenType DEF Restart
<1>3. answer' \in [Requests -> Answers]
  BY AnswerTypes DEF Restart
<1>4. /\ pending' \in BOOLEAN
      /\ history' \subseteq Requests
      /\ pc' \in [Requests -> {"idle", "load", "attempt", "fill", "record", "answered"}]
      /\ req' \in [Requests -> Inputs \cup {NoRequest}]
      /\ schema' \in [Requests -> Texts]
      /\ seen' \in [Requests -> SUBSET Texts]
  BY DEF Restart, Texts
<1>5. UNCHANGED <<row, latest, entry>>
  BY DEF Restart
<1>6. TypeOK'
  BY <1>1, <1>2, <1>3, <1>4, <1>5 DEF TypeOK, maxGenerationAttempts
<1>7. CompiledRight'
  BY DEF Restart, CompiledRight
<1>8. \A r \in Requests : pc'[r] = "idle" /\ ~IsGenerated(r)'
  BY DEF Restart, IsGenerated
<1>9. ContractEnforced' /\ Known'
  BY <1>8 DEF ContractEnforced, Known
<1>10. HistoryTells'
  BY <1>8 DEF Restart, HistoryTells
<1> QED
  BY <1>7, <1>9, <1>10, <1>6 DEF IInv

LEMMA NextKeeps ==
  ASSUME IInv, [Next]_vars
  PROVE  IInv'
<1>1. TypeOK /\ CompiledRight /\ ContractEnforced /\ HistoryTells /\ Known
  BY DEF IInv
<1>2. ASSUME NEW r \in Requests, Resolve(r) \/ Serve(r)
      PROVE  IInv'
  BY <1>1, <1>2, ResolveKeeps, LoadKeeps, AttemptKeeps, FillKeeps, RecordHistoryKeeps,
     LeaveKeeps DEF Serve
<1>3. CASE WriteRow \/ RecordVersion \/ Delete
  BY <1>1, <1>3, WriteRowKeeps, RecordVersionKeeps, DeleteKeeps
<1>4. CASE RefreshStep \/ Restart
  BY <1>1, <1>4, RefreshKeeps, RestartKeeps
<1>5. CASE UNCHANGED vars
  <2>1. UNCHANGED <<row, latest, pending, history, entry, compiled, locals, seen, faults>>
    BY <1>5 DEF vars, tables
  <2>2. TypeOK'
    BY <1>1, <2>1 DEF TypeOK, locals
  <2>3. HistoryTells' /\ CompiledRight'
    BY <1>1, <2>1 DEF HistoryTells, CompiledRight, IsGenerated, locals
  <2>4. faults' >= faults
    BY <1>1, <2>1, BoundsAssumption DEF TypeOK
  <2> QED
    BY <1>1, <2>1, <2>2, <2>3, <2>4, BackgroundKeeps
<1> QED
  BY <1>2, <1>3, <1>4, <1>5 DEF Next

LEMMA Invariance == Spec => []IInv
<1>1. Init => IInv
  BY InitIInv
<1>2. IInv /\ [Next]_vars => IInv'
  BY NextKeeps
<1> QED
  BY <1>1, <1>2, PTL DEF Spec

-----------------------------------------------------------------------------
\* Every variable keeps its type: what a request loads, retries and is
\* answered stays within what its next step can handle.
THEOREM TypeCorrect == Spec => []TypeOK
<1>1. IInv => TypeOK
  BY DEF IInv
<1> QED
  BY <1>1, Invariance, PTL

\* What the AI answers conforms to a schema in force during the request, what
\* the faker answers was made from one, and the echo stands in only without one
\* or after a failure, however updates, deletes, retries, fallbacks and other
\* requests interleave with it (internal/generator/ai.go:82-130,
\* internal/validator/validator.go:42-68).
THEOREM AnswersJustified == Spec => []AnswersFollowSchema
<1>1. IInv => AnswersFollowSchema
  BY DEF IInv, Known, Follows, AnswersFollowSchema
<1> QED
  BY <1>1, Invariance, PTL

\* Whatever is generated, asked of the AI or recorded is for a request its
\* row lets in: identity and body hold until the answer is sent
\* (internal/router/dynamic.go:66-84).
THEOREM ContractKept == Spec => []ContractEnforced
<1>1. IInv => ContractEnforced
  BY DEF IInv
<1> QED
  BY <1>1, Invariance, PTL

\* A deleted endpoint has no history, and without failures every generated
\* answer of an existing one is in it, requests in flight at the delete
\* included (internal/router/dynamic.go:163-178).
THEOREM HistoryKept == Spec => []HistoryTells
<1>1. IInv => HistoryTells
  BY DEF IInv
<1> QED
  BY <1>1, Invariance, PTL

==============================================================================
