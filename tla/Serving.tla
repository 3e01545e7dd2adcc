------------------------------- MODULE Serving -------------------------------
(***************************************************************************)
(* The data plane over the registry: mock requests list the active         *)
(* endpoints of their method through the read-through Redis cache of       *)
(* internal/router/cache.go, while the registry's workers change the       *)
(* endpoints and invalidate.  A reader is a mock request; its cache read,  *)
(* its database query and its cache write are steps that interleave with   *)
(* every step of the registry.  Entries expire after the TTL.              *)
(***************************************************************************)
EXTENDS Registry

CONSTANTS Readers,  \* goroutines serving mock requests
          NoMethod  \* a reader without a request

VARIABLES
  rpc,      \* the step each reader is at: idle, load, fill
  method,   \* the method of its request
  list,     \* the rows its query returned
  outdated  \* history: the entry of m was filled with rows since changed

rvars == <<rpc, method, list>>
allvars == <<vars, rvars, outdated>>

\* The query behind every mock request; owners are not looked at.
ListActiveByMethod(m) ==
  {[id |-> id, owner |-> endpoints[id].owner, cfg |-> endpoints[id].cfg] :
     id \in {i \in Live : /\ endpoints[i].cfg.method = m
                          /\ endpoints[i].cfg.status = "active"}}

ServingInit == /\ Init
               /\ rpc = [r \in Readers |-> "idle"]
               /\ method = [r \in Readers |-> NoMethod]
               /\ list = [r \in Readers |-> {}]
               /\ outdated = [m \in Methods |-> FALSE]

\* An entry that is dropped is no longer outdated.
ForgetDropped ==
  outdated' = [m \in Methods |-> outdated[m] /\ cache'[m] # NotCached]

ReaderGoto(r, step, m, rows) == /\ rpc' = [rpc EXCEPT ![r] = step]
                                /\ method' = [method EXCEPT ![r] = m]
                                /\ list' = [list EXCEPT ![r] = rows]

Answer(r) == ReaderGoto(r, "idle", NoMethod, {})

-----------------------------------------------------------------------------
\* cache.Get misses, or fails, which is treated as a miss.  A hit answers
\* from the cached rows and changes nothing.
Lookup(r, m) ==
  /\ rpc[r] = "idle"
  /\ \/ /\ cache[m] = NotCached
        /\ UNCHANGED faults
     \/ /\ cache[m] # NotCached
        /\ faults < MaxFaults
        /\ faults' = faults + 1
  /\ ReaderGoto(r, "load", m, {})
  /\ UNCHANGED <<tables, cache, pc, job, outdated>>

\* The database answers, or fails and the request with it.
Load(r) ==
  /\ rpc[r] = "load"
  /\ \/ /\ ReaderGoto(r, "fill", method[r], ListActiveByMethod(method[r]))
        /\ UNCHANGED faults
     \/ /\ faults < MaxFaults
        /\ faults' = faults + 1
        /\ Answer(r)
  /\ UNCHANGED <<tables, cache, pc, job, outdated>>

\* cache.Set with the rows read earlier; a failure is logged and the rows
\* are served all the same.
Fill(r) ==
  LET m == method[r]
  IN  /\ rpc[r] = "fill"
      /\ \/ /\ cache' = [cache EXCEPT ![m] = list[r]]
            /\ outdated' = [outdated EXCEPT
                              ![m] = list[r] # ListActiveByMethod(m)]
            /\ UNCHANGED faults
         \/ /\ faults < MaxFaults
            /\ faults' = faults + 1
            /\ UNCHANGED <<cache, outdated>>
      /\ Answer(r)
      /\ UNCHANGED <<tables, pc, job>>

\* Mutant of Expire: entries are stored without a TTL.
NeverExpire(m) == FALSE

\* The TTL of the entry runs out.
Expire(m) ==
  /\ cache[m] # NotCached
  /\ cache' = [cache EXCEPT ![m] = NotCached]
  /\ ForgetDropped
  /\ UNCHANGED <<tables, pc, job, faults, rvars>>

\* A crash takes the readers with it; any other step leaves them alone.
RegistryStep ==
  \/ /\ Crash
     /\ rpc' = [r \in Readers |-> "idle"]
     /\ method' = [r \in Readers |-> NoMethod]
     /\ list' = [r \in Readers |-> {}]
     /\ ForgetDropped
  \/ /\ \E w \in Workers : \/ Begin(w)
                           \/ Continue(w)
                           \/ FailStatement(w)
                           \/ OutOfIds(w)
     /\ ForgetDropped
     /\ UNCHANGED rvars

ServingNext ==
  \/ RegistryStep
  \/ \E m \in Methods : Expire(m)
  \/ \E r \in Readers : \/ \E m \in Methods : Lookup(r, m)
                        \/ Load(r)
                        \/ Fill(r)

ServingSpec == ServingInit /\ [][ServingNext]_allvars

Progress(w) == /\ Continue(w) \/ OutOfIds(w)
               /\ ForgetDropped
               /\ UNCHANGED rvars

\* Goroutines keep running and time passes; nobody has to send a request.
Fairness == /\ \A w \in Workers : WF_allvars(Progress(w))
            /\ \A r \in Readers : WF_allvars(Load(r) \/ Fill(r))
            /\ \A m \in Methods : WF_allvars(Expire(m))

FairSpec == ServingSpec /\ Fairness

-----------------------------------------------------------------------------
Fresh(m) == cache[m] = NotCached \/ cache[m] = ListActiveByMethod(m)

\* Types of the readers' variables and of the registry's.
ServingTypeOK ==
  /\ TypeOK
  /\ rpc \in [Readers -> {"idle", "load", "fill"}]
  /\ method \in [Readers -> Methods \cup {NoMethod}]
  /\ \A r \in Readers : list[r] \subseteq Listed
  /\ outdated \in [Methods -> BOOLEAN]

\* With one writer and no fault, the invalidations of create, update,
\* rollback, delete and import reach every list they changed: between
\* requests an entry can only be stale because a mock request stored rows
\* it had read before a write (service.go:147, 216-217, 299, 421-426).
StaleOnlyByOutdatedFill ==
  Quiet /\ faults = 0 => \A m \in Methods : Fresh(m) \/ outdated[m]

\* Between requests the cache holds what the database holds: "the cache is
\* invalidated on mutations so the dynamic router always sees fresh
\* endpoints" (service.go:103-105).
RouterSeesFresh ==
  Quiet /\ (\A r \in Readers : rpc[r] = "idle") => \A m \in Methods : Fresh(m)

\* "The TTL acts as a fallback, so stale data self-heals" (service.go:573):
\* once the endpoints stop changing, every entry is fresh from some point
\* on, whatever was missed before - failed invalidations, outdated fills,
\* crashes between a commit and its invalidation, aborted imports.
SelfHeals == <>[](\A m \in Methods : Fresh(m))

\* Every control-plane request is answered, or dies with the process.
RequestsEnd == \A w \in Workers : pc[w] # "idle" ~> pc[w] = "idle"
=============================================================================
