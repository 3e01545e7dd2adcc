----------------------------- MODULE VersionLog -----------------------------
(***************************************************************************)
(* What the version history of the registry promises its readers (diff,    *)
(* rollback, the dashboard): every endpoint has a log of snapshots that    *)
(* only ever grows at its end, belongs to one account, and goes for good   *)
(* with the endpoint.                                                      *)
(***************************************************************************)
EXTENDS Naturals, Sequences

CONSTANTS Ids,      \* endpoints
          Accounts, \* their owners
          Contents  \* what a snapshot can hold

Entry == [owner: Accounts, content: Contents]

VARIABLES log,      \* log[id] is the sequence of snapshots of id
          gone      \* the endpoints that were deleted

Init == /\ log = [id \in Ids |-> <<>>]
        /\ gone = {}

\* t is s with one more snapshot, of the account that owns the earlier ones.
Extends(s, t) ==
  /\ Len(t) = Len(s) + 1
  /\ t[Len(t)] \in Entry
  /\ \A k \in 1 .. Len(s) : t[k] = s[k] /\ t[k].owner = t[Len(t)].owner

Record(id) ==
  /\ id \notin gone
  /\ Extends(log[id], log'[id])
  /\ log' = [log EXCEPT ![id] = log'[id]]
  /\ UNCHANGED gone

Erase(id) ==
  /\ id \notin gone
  /\ log' = [log EXCEPT ![id] = <<>>]
  /\ gone' = gone \cup {id}

Next == \E id \in Ids : Record(id) \/ Erase(id)

Spec == Init /\ [][Next]_<<log, gone>>
=============================================================================
