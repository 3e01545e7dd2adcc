------------------------------ MODULE MCServing ------------------------------
(* Small instances of the registry with mock requests reading through the  *)
(* cache.                                                                   *)
EXTENDS Serving, TLC

CONSTANTS GET, POST, p1, i1, i2

Body(m, status) == [method |-> m, path |-> "/x", prompt |-> p1,
                    status |-> status, public |-> Omitted]

MCItem(m, schema) ==
  [method |-> m, path |-> "/x", prompt |-> p1, schema |-> schema]

\* The update moves an endpoint from one list to the other.
MCCreates == {Body(GET, Omitted)}
MCUpdates == {Body(POST, Omitted)}
MCDocs    == {<<MCItem(POST, NoSchema), MCItem(GET, NoSchema)>>}
MCPaths   == {"/x"}

Symmetric == Permutations({i1, i2})
=============================================================================
