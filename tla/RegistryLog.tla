----------------------------- MODULE RegistryLog -----------------------------
(***************************************************************************)
(* The registry implements the version log: the k-th entry of an           *)
(* endpoint's log is the row of endpoint_versions with number k, and an    *)
(* endpoint is gone when its uuid was inserted once and has no row.        *)
(***************************************************************************)
EXTENDS Registry

Content == [cfg: Snapshot, schema: Schemas]

AsEntry(v) == [owner |-> v.owner,
               content |-> [cfg |-> v.cfg, schema |-> v.schema]]

Numbered(id, k) == CHOOSE v \in versions : v.ep = id /\ v.num = k

LogOf(id) == [k \in Numbers(id) |-> AsEntry(Numbered(id, k))]

History == INSTANCE VersionLog
             WITH Contents <- Content,
                  log <- [id \in Ids |-> LogOf(id)],
                  gone <- issued \ Live

\* Every step of every request is a step of the version log or leaves it
\* alone: a snapshot is never overwritten, renumbered or moved to another
\* account, and no write brings a deleted endpoint back
\* (service.go:206-211, 257-262; repository.go:88-124, 168-173).
HistoryIsLog == History!Spec

\* What a rollback records is a snapshot the endpoint already had, schema
\* included, even when other requests move the history on meanwhile
\* (service.go:225-262).
RollbackRestores ==
  [][\A w \in Workers :
       /\ pc[w] = "version" /\ job[w].op = "rollback"
       /\ pc'[w] = "commit"
       => \E v \in versions : /\ v.ep = job[w].id
                              /\ v.cfg = job[w].cfg
                              /\ v.schema = job[w].schema]_vars
=============================================================================
