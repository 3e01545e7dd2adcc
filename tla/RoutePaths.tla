------------------------------ MODULE RoutePaths ------------------------------
(***************************************************************************)
(* Paths as the router matches them (internal/router/path.go) and as the   *)
(* importers write them (internal/importer/parse.go, postman.go).  A path  *)
(* is the sequence of its segments.  <<"lit", s>> is text, <<"param", n>>  *)
(* is :n, <<"var", n>> is {n} in an OpenAPI template or {{n}} in a Postman *)
(* URL, <<"mixed", s>> is text around such a placeholder.                  *)
(***************************************************************************)
EXTENDS Naturals, Sequences, FiniteSets

IsParam(seg) == seg[1] = "param"
IsVar(seg) == seg[1] = "var"

\* What splitPath is left with after empty segments at both ends.
NonEmpty(segs) == SelectSeq(segs, LAMBDA seg : seg # <<"lit", "">>)

-----------------------------------------------------------------------------
matchPath(pattern, path) ==
  /\ Len(pattern) = Len(path)
  /\ \A i \in DOMAIN pattern : IsParam(pattern[i]) \/ pattern[i] = path[i]

\* The captured parameters: a name used twice keeps its last segment.
PathParams(pattern, path) ==
  [name \in {pattern[i][2] : i \in {j \in DOMAIN pattern : IsParam(pattern[j])}} |->
     LET at == {i \in DOMAIN pattern : pattern[i] = <<"param", name>>}
     IN  path[CHOOSE i \in at : \A j \in at : i >= j][2]]

staticSegments(pattern) == Cardinality({i \in DOMAIN pattern : ~IsParam(pattern[i])})

\* Mutant of bestMatch: the last of several equally specific endpoints.
LastMatch(patterns, path) ==
  LET matching == {i \in DOMAIN patterns : matchPath(patterns[i], path)}
  IN  IF matching = {} THEN 0
      ELSE CHOOSE i \in matching : \A j \in matching :
             /\ staticSegments(patterns[i]) >= staticSegments(patterns[j])
             /\ staticSegments(patterns[i]) = staticSegments(patterns[j]) => i >= j

\* The index of the first endpoint of the list with the most static segments
\* among those that match, or 0.
bestMatch(patterns, path) ==
  LET matching == {i \in DOMAIN patterns : matchPath(patterns[i], path)}
  IN  IF matching = {} THEN 0
      ELSE CHOOSE i \in matching : \A j \in matching :
             /\ staticSegments(patterns[i]) >= staticSegments(patterns[j])
             /\ staticSegments(patterns[i]) = staticSegments(patterns[j]) => i <= j

-----------------------------------------------------------------------------
\* A placeholder that is not a whole segment leaves text with a colon in it.
Colon(seg) == IF IsVar(seg) THEN <<"param", seg[2]>>
              ELSE IF seg[1] = "mixed" THEN <<"lit", ":" \o seg[2]>>
              ELSE seg

toRoutePath(template) == [i \in DOMAIN template |-> Colon(template[i])]

\* A path with every variable of the template replaced by one text.
Instantiates(path, template) ==
  /\ Len(path) = Len(template)
  /\ \E text \in [{template[i][2] : i \in DOMAIN template} -> {path[i][2] : i \in DOMAIN path}] :
       \A i \in DOMAIN path : path[i][2] = IF IsVar(template[i]) THEN text[template[i][2]]
                                          ELSE template[i][2]

\* url.path, or url.raw without scheme and host.
stripURLPrefix(raw) == IF raw.scheme THEN Tail(raw.segs) ELSE raw.segs

\* {{baseUrl}}/users: only where the text starts with the variable, which it
\* does not after a scheme and host were cut off.
dropLeadingVariable(segs, scheme) ==
  IF ~scheme /\ Len(segs) > 1 /\ IsVar(Head(segs)) THEN Tail(segs) ELSE segs

\* <<>> stands for "", a request that is skipped.
postmanPath(url) ==
  LET raw == IF url.path # <<>> THEN [scheme |-> FALSE, segs |-> url.path] ELSE url.raw
  IN  NonEmpty(toRoutePath(dropLeadingVariable(stripURLPrefix(raw), raw.scheme)))
=============================================================================
