------------------------------ MODULE MockRequest ------------------------------
(***************************************************************************)
(* A mock request from the list it is resolved in to its answer: Serve of  *)
(* internal/router/dynamic.go and the generators of internal/generator     *)
(* behind it (AI, then faker, then static), while the endpoint is updated  *)
(* and deleted.  Every call that leaves the process is a step.             *)
(*                                                                         *)
(* One endpoint, not stateful (Resources models those).  Versions[i] is    *)
(* what its i-th write stores; 0 stands for no row.  A document is known   *)
(* by the schemas that accept it.  How the cached list goes stale and is   *)
(* refreshed is Serving's matter: here it is only some earlier row.        *)
(***************************************************************************)
EXTENDS Naturals, Sequences

CONSTANTS
  Requests,   \* goroutines serving mock requests
  Versions,   \* the prompt's schema, request schema, error_sim, public flag
  Schemas,    \* texts of JSON Schemas that compile
  Documents,  \* JSON documents: request bodies and answers
  Accepts,    \* the documents each schema accepts
  Fills,      \* the documents fillValue makes of each schema
  Inputs,     \* what callers send: a body, and whether they are known
  Auth,       \* auth.enabled
  MaxFaults,  \* failing database calls and restarts
  Empty,      \* a blank request body
  NoSchema, NoSim, NoDoc

ASSUME DocumentsAssumption ==
  /\ Empty \notin Documents /\ NoDoc \notin Documents
  /\ NoSchema \notin Schemas
  /\ Accepts \in [Schemas -> SUBSET Documents]
  /\ Inputs \subseteq [body : Documents \cup {Empty}, identity : BOOLEAN]

\* The faker always makes a document.  Nobody validates it, and it need not
\* conform: module Imports says for which schemas it does (DocumentIsHonoured).
ASSUME FillsAssumption ==
  /\ DOMAIN Fills = Schemas
  /\ \A s \in Schemas : Fills[s] # {} /\ Fills[s] \subseteq Documents

\* A simulation as validateErrorSim lets it through, and a write.
Texts == Schemas \cup {NoSchema}
Sims == [rate : 0..100, status : {0} \cup 400..599,
         drop : BOOLEAN, timeout : BOOLEAN, malformed : BOOLEAN]
Write == [schema : Texts, request : Texts, sim : Sims \cup {NoSim}, public : BOOLEAN]

ASSUME VersionsAssumption == NoSim \notin Sims /\ Versions \in Seq(Write) \ {<<>>}
ASSUME BoundsAssumption == MaxFaults \in Nat

VARIABLES
  row,       \* the write the endpoint's row is from
  latest,    \* the write its latest recorded version is from
  pending,   \* an update wrote the row and has to record the version
  entry,     \* the write the cached list shows the row of
  history,   \* table request_history: the requests that have a row
  compiled,  \* the validator's compiled schemas, by their key
  pc,        \* what each request is about to do
  req,       \* what its caller sent
  ver,       \* the write its row is from
  schema,    \* the schema its generator loaded
  tries,     \* AI answers it rejected
  answer,    \* what it is answered
  seen,      \* ghost: the schemas in force since it started
  faults     \* bounded by MaxFaults

tables == <<row, latest, pending, history>>
locals == <<pc, req, ver, schema, tries, answer>>
vars == <<tables, entry, compiled, locals, seen, faults>>

NoRequest == [body |-> Empty, identity |-> FALSE]
NoAnswer == [status |-> 0, source |-> "none", doc |-> NoDoc]

\* LoadSchema: the schema of the latest version; none without versions.
LoadSchema(v) == IF v = 0 THEN NoSchema ELSE Versions[v].schema

Fault == faults < MaxFaults /\ faults' = faults + 1

-----------------------------------------------------------------------------
\* Mutant of CacheKey: the resource name every compiler is given.
ResourceName(text) == "schema.json"

\* Compiled schemas are kept by their text.
CacheKey(text) == text

\* compile: what the cache holds, or the schema compiled now.
Compiled(text) ==
  IF CacheKey(text) \in DOMAIN compiled THEN compiled[CacheKey(text)] ELSE Accepts[text]

Compile(texts) ==
  compiled' = [k \in DOMAIN compiled \cup {CacheKey(t) : t \in texts \ {NoSchema}} |->
                 IF k \in DOMAIN compiled THEN compiled[k]
                 ELSE Accepts[CHOOSE t \in texts \ {NoSchema} : CacheKey(t) = k]]

Validates(text, doc) == doc \in Compiled(text)

validateRequestBody(v, body) ==
  Versions[v].request = NoSchema \/ (body # Empty /\ Validates(Versions[v].request, body))

ShouldFail(sim, roll) == sim.rate = 0 \/ sim.rate >= 100 \/ roll < sim.rate

\* applyFailure; status 0 stands for a connection closed without an answer,
\* and for the status a simulation without any failure is answered with.
applyFailure(sim) ==
  [status |-> IF sim.timeout \/ sim.drop THEN 0 ELSE IF sim.malformed THEN 200 ELSE sim.status,
   source |-> "simulated", doc |-> NoDoc]

\* What Serve answers before it generates anything; 0 when it goes on.
Refusal(v, r) ==
  IF v = 0 THEN 404
  ELSE IF Auth /\ ~Versions[v].public /\ ~r.identity THEN 401
  ELSE IF ~validateRequestBody(v, r.body) THEN 400
  ELSE 0

Goto(r, step) == pc' = [pc EXCEPT ![r] = step]

Refuse(r, status) ==
  /\ answer' = [answer EXCEPT ![r] = [status |-> status, source |-> "refused", doc |-> NoDoc]]
  /\ Goto(r, "answered")

\* Serve until it calls the generator: the list and its best match, the
\* public flag, the request schema, the latency and the roll.
Resolve(r) ==
  /\ pc[r] = "idle"
  /\ seen' = [seen EXCEPT ![r] = {LoadSchema(latest)}]
  /\ \E q \in Inputs :
       /\ req' = [req EXCEPT ![r] = q]
       /\ \/ /\ Fault
             /\ Refuse(r, 500)
             /\ UNCHANGED <<ver, compiled>>
          \/ /\ UNCHANGED faults
             /\ ver' = [ver EXCEPT ![r] = entry]
             /\ Compile(IF Refusal(entry, q) \in {0, 400} /\ q.body # Empty
                        THEN {Versions[entry].request} ELSE {})
             /\ \/ /\ Refusal(entry, q) # 0
                   /\ Refuse(r, Refusal(entry, q))
                \/ /\ Refusal(entry, q) = 0
                   /\ LET sim == Versions[entry].sim
                      IN  \/ /\ sim # NoSim
                             /\ \E roll \in 0..99 : ShouldFail(sim, roll)
                             /\ answer' = [answer EXCEPT ![r] = applyFailure(sim)]
                             /\ Goto(r, "answered")
                          \/ /\ sim # NoSim => \E roll \in 0..99 : ~ShouldFail(sim, roll)
                             /\ Goto(r, "load")
                             /\ UNCHANGED answer
  /\ UNCHANGED <<tables, entry, schema, tries>>

\* aiGenerator loads the schema, or falls back when that fails.
Load(r) ==
  /\ pc[r] = "load"
  /\ \/ /\ schema' = [schema EXCEPT ![r] = LoadSchema(latest)]
        /\ tries' = [tries EXCEPT ![r] = 0]
        /\ Goto(r, "attempt")
        /\ UNCHANGED faults
     \/ /\ Fault
        /\ Goto(r, "fill")
        /\ UNCHANGED <<schema, tries>>
  /\ UNCHANGED <<tables, entry, compiled, req, ver, answer, seen>>

Generated(r, source, d) ==
  /\ answer' = [answer EXCEPT ![r] = [status |-> 200, source |-> source, doc |-> d]]
  /\ Goto(r, "record")

maxGenerationAttempts == 2

\* Mutant of Rejected: the last attempt is served when none is left.
ServeTheLast(r, d) ==
  IF tries[r] + 1 < maxGenerationAttempts
  THEN tries' = [tries EXCEPT ![r] = @ + 1] /\ UNCHANGED <<pc, answer>>
  ELSE Generated(r, "ai", d) /\ UNCHANGED tries

\* Mutant of Rejected: attempts are counted and never run out.
NeverGiveUp(r, d) == tries' = [tries EXCEPT ![r] = @ + 1] /\ UNCHANGED <<pc, answer>>

\* Mutant of Rejected: the counter starts over instead of falling back.
RetryForever(r, d) == /\ tries' = [tries EXCEPT ![r] = (@ + 1) % maxGenerationAttempts]
                      /\ UNCHANGED <<pc, answer>>

\* One more attempt, then the fallback.
Rejected(r, d) ==
  /\ IF tries[r] + 1 < maxGenerationAttempts
     THEN tries' = [tries EXCEPT ![r] = @ + 1] /\ UNCHANGED pc
     ELSE Goto(r, "fill") /\ UNCHANGED tries
  /\ UNCHANGED answer

\* One turn of generateWithRetry: the provider fails or has nothing, or
\* answers some JSON document.
Attempt(r) ==
  /\ pc[r] = "attempt"
  /\ \/ /\ Goto(r, "fill")
        /\ UNCHANGED <<answer, tries, compiled>>
     \/ \E d \in Documents :
          /\ Compile({schema[r]})
          /\ IF schema[r] = NoSchema \/ Validates(schema[r], d)
             THEN Generated(r, "ai", d) /\ UNCHANGED tries
             ELSE Rejected(r, d)
  /\ UNCHANGED <<tables, entry, req, ver, schema, seen, faults>>

\* fakerGenerator loads the schema again and fills it; without one, or when
\* that fails, Static echoes the request.
Fill(r) ==
  /\ pc[r] = "fill"
  /\ LET s == LoadSchema(latest)
     IN  \/ /\ s # NoSchema
            /\ \E d \in Fills[s] : Generated(r, "faker", d)
            /\ UNCHANGED faults
         \/ /\ IF s = NoSchema THEN UNCHANGED faults ELSE Fault
            /\ Generated(r, "static", NoDoc)
  /\ UNCHANGED <<tables, entry, compiled, req, ver, schema, tries, seen>>

\* Mutant of Recordable: history does not refer to the endpoints.
AlwaysRecordable == TRUE

\* The foreign key of request_history.
Recordable == row # 0

\* recordHistory and the answer: a failed insert is only logged.
RecordHistory(r) ==
  /\ pc[r] = "record"
  /\ \/ /\ history' = IF Recordable
                      THEN history \cup {r}
                      ELSE history
        /\ UNCHANGED faults
     \/ /\ Fault
        /\ UNCHANGED history
  /\ Goto(r, "answered")
  /\ UNCHANGED <<row, latest, pending, entry, compiled, req, ver, schema, tries, answer, seen>>

\* The caller has its answer; rows of earlier requests are left out.
Leave(r) ==
  /\ pc[r] = "answered"
  /\ Goto(r, "idle")
  /\ req' = [req EXCEPT ![r] = NoRequest]
  /\ ver' = [ver EXCEPT ![r] = 0]
  /\ schema' = [schema EXCEPT ![r] = NoSchema]
  /\ tries' = [tries EXCEPT ![r] = 0]
  /\ answer' = [answer EXCEPT ![r] = NoAnswer]
  /\ seen' = [seen EXCEPT ![r] = {}]
  /\ history' = history \ {r}
  /\ UNCHANGED <<row, latest, pending, entry, compiled, faults>>

-----------------------------------------------------------------------------
Noticed == seen' = [r \in Requests |-> IF pc[r] \in {"idle", "answered"} THEN seen[r]
                                        ELSE seen[r] \cup {LoadSchema(latest')}]

\* An update writes the row after both schemas were vetted.
WriteRow ==
  /\ row \in 1..(Len(Versions) - 1)
  /\ ~pending
  /\ row' = row + 1
  /\ pending' = TRUE
  /\ Compile({Versions[row'].schema, Versions[row'].request})
  /\ UNCHANGED <<latest, history, entry, locals, seen, faults>>

\* It records the version, or fails and leaves the row without one.
RecordVersion ==
  /\ pending
  /\ pending' = FALSE
  /\ \/ latest' = row /\ UNCHANGED faults
     \/ Fault /\ UNCHANGED latest
  /\ Noticed
  /\ UNCHANGED <<row, history, entry, compiled, locals>>

\* A delete takes versions and history with it.
Delete ==
  /\ row # 0
  /\ row' = 0
  /\ latest' = 0
  /\ pending' = FALSE
  /\ history' = {}
  /\ Noticed
  /\ UNCHANGED <<entry, compiled, locals, faults>>

\* Mutant of Refresh: lists are kept for good.
KeepList == entry' = entry

\* The list a request is resolved in shows the row as it is now.
Refresh == entry' = row

RefreshStep == Refresh /\ UNCHANGED <<tables, compiled, locals, seen, faults>>

\* The process stops and starts: requests and compiled schemas are gone, and
\* an update that had not recorded its version never does.
Restart ==
  /\ Fault
  /\ compiled' = <<>>
  /\ pending' = FALSE
  /\ pc' = [r \in Requests |-> "idle"]
  /\ req' = [r \in Requests |-> NoRequest]
  /\ ver' = [r \in Requests |-> 0]
  /\ schema' = [r \in Requests |-> NoSchema]
  /\ tries' = [r \in Requests |-> 0]
  /\ answer' = [r \in Requests |-> NoAnswer]
  /\ seen' = [r \in Requests |-> {}]
  /\ history' = {}
  /\ UNCHANGED <<row, latest, entry>>

Init ==
  /\ row = 1 /\ latest = 1 /\ entry = 1 /\ pending = FALSE
  /\ history = {}
  /\ compiled = <<>>
  /\ pc = [r \in Requests |-> "idle"]
  /\ req = [r \in Requests |-> NoRequest]
  /\ ver = [r \in Requests |-> 0]
  /\ schema = [r \in Requests |-> NoSchema]
  /\ tries = [r \in Requests |-> 0]
  /\ answer = [r \in Requests |-> NoAnswer]
  /\ seen = [r \in Requests |-> {}]
  /\ faults = 0

Serve(r) == Load(r) \/ Attempt(r) \/ Fill(r) \/ RecordHistory(r) \/ Leave(r)

Next == \/ \E r \in Requests : Resolve(r) \/ Serve(r)
        \/ WriteRow \/ RecordVersion \/ Delete
        \/ RefreshStep
        \/ Restart

\* Goroutines run on, and lists do not stay stale (Serving's SelfHeals).
Fairness == /\ \A r \in Requests : WF_vars(Serve(r))
            /\ WF_vars(RefreshStep)

Spec == Init /\ [][Next]_vars /\ Fairness
-----------------------------------------------------------------------------
IsGenerated(r) == pc[r] = "answered" /\ answer[r].source \in {"ai", "faker", "static"}

\* Type invariant of the module.
Answers == [status : {0, 200, 400, 401, 404, 500} \cup 400..599,
            source : {"none", "refused", "simulated", "ai", "faker", "static"},
            doc : Documents \cup {NoDoc}]

TypeOK ==
  /\ row \in 0..Len(Versions) /\ latest \in 0..Len(Versions) /\ entry \in 0..Len(Versions)
  /\ pending \in BOOLEAN
  /\ history \subseteq Requests
  /\ pc \in [Requests -> {"idle", "load", "attempt", "fill", "record", "answered"}]
  /\ req \in [Requests -> Inputs \cup {NoRequest}]
  /\ ver \in [Requests -> 0..Len(Versions)]
  /\ schema \in [Requests -> Texts]
  /\ tries \in [Requests -> 0..(maxGenerationAttempts - 1)]
  /\ answer \in [Requests -> Answers]
  /\ seen \in [Requests -> SUBSET Texts]
  /\ faults \in 0..MaxFaults

\* What vouches for a generated answer, of the schemas in force since its
\* request started.
Justified(source, d, schemas) ==
  CASE source = "ai"    -> \E s \in schemas : s = NoSchema \/ d \in Accepts[s]
    [] source = "faker" -> \E s \in schemas \ {NoSchema} : d \in Fills[s]
    [] OTHER            -> NoSchema \in schemas \/ faults > 0

\* An answer of the AI conforms to a schema in force at some moment of the
\* request, unless at some moment there was none; a faker answer was made from
\* such a schema; and the echo is served only where there was none or the
\* database failed: across updates, deletes, retries, fallbacks and what the
\* validator compiled for others (internal/generator/ai.go:82-130,
\* internal/generator/faker.go:38-62, internal/validator/validator.go:42-68).
AnswersFollowSchema ==
  \A r \in Requests :
    IsGenerated(r) => Justified(answer[r].source, answer[r].doc, seen[r])

\* Nothing is generated, asked of the AI or recorded for a request its row
\* refuses, whichever generator would answer: "every generation path enforces
\* the request contract uniformly" (internal/router/dynamic.go:79-81); nor where
\* the row's simulation always fails, as rates 0 and 100 both mean
\* (internal/models/errorsim.go:40-48, internal/router/dynamic.go:86-99).
ContractEnforced ==
  \A r \in Requests : IsGenerated(r) \/ pc[r] \in {"load", "attempt", "fill", "record"} =>
    /\ ver[r] # 0
    /\ Auth => Versions[ver[r]].public \/ req[r].identity
    /\ Versions[ver[r]].request # NoSchema => req[r].body \in Accepts[Versions[ver[r]].request]
    /\ Versions[ver[r]].sim = NoSim \/ Versions[ver[r]].sim.rate \in 1..99

\* While the endpoint exists its history has every generated answer the
\* database did not refuse; it is empty once the endpoint is deleted, also
\* when requests were still being served (internal/router/dynamic.go:163-178).
HistoryTells ==
  /\ row = 0 => history = {}
  /\ row # 0 /\ faults = 0 =>
       \A r \in Requests : IsGenerated(r) => r \in history

\* Prompt and schema of an answer come from two places (cmd/server/main.go:
\* 91-100, internal/generator/ai.go:62, :85) and may disagree during an
\* update; once the endpoint stops changing and its last version was
\* recorded, they do not any more.
CoherentAgain ==
  <>[](row = latest => \A r \in Requests :
         pc[r] = "attempt" => schema[r] = Versions[ver[r]].schema)

\* Every request is answered, whatever the provider keeps answering
\* (internal/generator/ai.go:101).
RequestsEnd == \A r \in Requests : pc[r] # "idle" ~> pc[r] = "idle"
=============================================================================
