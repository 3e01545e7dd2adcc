----------------------------- MODULE MCRegistry -----------------------------
(* Small request sets for checking Registry.                               *)
EXTENDS RegistryLog, TLC

CONSTANTS GET, POST, p1, p2, alice, bob, i1, i2, w1, w2

Body(m, prompt, status, public) ==
  [method |-> m, path |-> "/x", prompt |-> prompt,
   status |-> status, public |-> public]

\* Racing requests: one body each.  The update moves the endpoint to another
\* method, so that it can collide with an import of that method.
RacingCreates == {Body(GET, p1, Omitted, Omitted)}
RacingUpdates == {Body(POST, p2, Omitted, TRUE)}

MCItem(m, prompt, schema) ==
  [method |-> m, path |-> "/x", prompt |-> prompt, schema |-> schema]

RacingDocs == {<<MCItem(GET, p1, p1), MCItem(POST, p2, NoSchema)>>}

MCPaths == {"/x"}

\* Requests one after the other, but from two accounts and with more bodies:
\* only the prompt changes, only the public flag, the status falls back to
\* its default, and a document that names one route twice.
SerialCreates == {Body(GET, p1, "inactive", FALSE), Body(POST, p1, Omitted, Omitted)}
SerialUpdates == {Body(GET, p2, Omitted, Omitted), Body(GET, p1, "inactive", TRUE)}
SerialDocs == {<<MCItem(GET, p1, NoSchema), MCItem(GET, p2, p2)>>,
               <<MCItem(POST, p2, p2)>>}

Symmetric == Permutations({i1, i2}) \cup Permutations({w1, w2}) \cup Permutations({alice, bob})
=============================================================================
