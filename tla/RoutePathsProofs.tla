--------------------------- MODULE RoutePathsProofs ---------------------------
(***************************************************************************)
(* Proofs about how the router picks the endpoint of a request: bestMatch  *)
(* of RoutePaths says which endpoint wins, bestMatch of path.go is a loop  *)
(* that remembers the best so far.  For every list of endpoints both give  *)
(* the same one.  What an imported document describes is routed to the     *)
(* endpoint it became, or to a better one, and its variables come back     *)
(* with the caller's text.                                                 *)
(***************************************************************************)
EXTENDS RoutePaths, Integers, FiniteSetTheorems, SequenceTheorems,
        WellFoundedInduction, TLAPS

\* A set of naturals has a least one.
LEMMA Least ==
  ASSUME NEW T \in SUBSET Nat, T # {}
  PROVE  \E m \in T : \A k \in T : m <= k
<1> DEFINE R == OpToRel(<, Nat)
<1>1. IsWellFoundedOn(R, Nat)
  BY NatLessThanWellFounded
<1>2. \A x, y \in Nat : <<y, x>> \in R <=> y < x
  BY DEF OpToRel
<1> HIDE DEF R
<1>3. PICK m \in T : \A k \in T : <<k, m>> \notin R
  BY <1>1, WFMin
<1>4. \A k \in T : ~(k < m)
  BY <1>2, <1>3
<1> QED
  BY <1>4

\* A template has at most as many static segments as segments, and exactly as
\* many when it has no parameter.
LEMMA StaticBounds ==
  ASSUME NEW Segs, NEW p \in Seq(Segs)
  PROVE  /\ staticSegments(p) \in 0 .. Len(p)
         /\ staticSegments(p) = Len(p) <=> \A i \in 1 .. Len(p) : ~IsParam(p[i])
<1> DEFINE S == {i \in DOMAIN p : ~IsParam(p[i])}
<1>1. DOMAIN p = 1 .. Len(p) /\ Len(p) \in Nat
  OBVIOUS
<1>S. S \subseteq 1 .. Len(p)
  BY <1>1
<1>2. IsFiniteSet(1 .. Len(p)) /\ Cardinality(1 .. Len(p)) = Len(p)
  BY <1>1, FS_Interval
<1> HIDE DEF S
<1>3. /\ IsFiniteSet(S) /\ Cardinality(S) <= Len(p)
      /\ Cardinality(S) = Len(p) => S = 1 .. Len(p)
  BY <1>S, <1>2, FS_Subset
<1> USE DEF S
<1>4. Cardinality(S) \in Nat
  BY <1>3, FS_CardinalityType
<1>5. staticSegments(p) = Cardinality(S)
  BY Zenon DEF staticSegments
<1>6. S = 1 .. Len(p) <=> \A i \in 1 .. Len(p) : ~IsParam(p[i])
  BY <1>1
<1> HIDE DEF S
<1>7. Cardinality(S) = Len(p) <=> S = 1 .. Len(p)
  BY <1>2, <1>3
<1> QED
  BY <1>1, <1>3, <1>4, <1>5, <1>6, <1>7

\* The endpoints that match.
Matching(patterns, path) == {i \in DOMAIN patterns : matchPath(patterns[i], path)}

\* i is the first of the endpoints that match with the most static segments.
FirstMostSpecific(patterns, path, i) ==
  /\ i \in Matching(patterns, path)
  /\ \A j \in Matching(patterns, path) :
       /\ staticSegments(patterns[i]) >= staticSegments(patterns[j])
       /\ staticSegments(patterns[i]) = staticSegments(patterns[j]) => i <= j

\* There is at most one such endpoint, and if there is one, bestMatch is it.
LEMMA BestIsFirst ==
  ASSUME NEW Segs, NEW patterns \in Seq(Seq(Segs)), NEW path,
         NEW i, FirstMostSpecific(patterns, path, i)
  PROVE  bestMatch(patterns, path) = i
<1> DEFINE M == Matching(patterns, path)
           static(k) == staticSegments(patterns[k])
           Best(k) == \A j \in M : /\ static(k) >= static(j)
                                   /\ static(k) = static(j) => k <= j
<1>1. \A k \in M : k \in Nat /\ static(k) \in Nat
  <2> SUFFICES ASSUME NEW k \in M PROVE k \in Nat /\ static(k) \in Nat
    OBVIOUS
  <2>1. k \in DOMAIN patterns
    BY DEF Matching
  <2>2. k \in Nat /\ patterns[k] \in Seq(Segs)
    BY <2>1
  <2> QED
    BY <2>2, StaticBounds
<1>2. i \in M /\ Best(i)
  BY DEF FirstMostSpecific
<1>3. M # {} /\ bestMatch(patterns, path) = CHOOSE k \in M : Best(k)
  BY <1>2 DEF bestMatch, Matching
<1>4. \A k \in M : Best(k) => k = i
  <2> SUFFICES ASSUME NEW k \in M, Best(k) PROVE k = i
    OBVIOUS
  <2>1. static(k) >= static(i) /\ static(i) >= static(k)
    BY <1>2
  <2>2. static(k) = static(i)
    BY <1>1, <1>2, <2>1
  <2>3. k <= i /\ i <= k
    BY <1>2, <2>2
  <2> QED
    BY <1>1, <1>2, <2>3
<1> HIDE DEF M, Best
<1>5. \A k : (k \in M /\ Best(k)) <=> k = i
  BY <1>2, <1>4
<1>6. (CHOOSE k \in M : Best(k)) = i
  BY <1>5
<1> QED
  BY <1>3, <1>6

\* bestMatch is what the loop of path.go:42-53 ends with.  best[n] and
\* bestStatic[n] are the loop's variables after n endpoints, best = 0 is nil:
\* the loop replaces its best only by a strictly more specific endpoint, so
\* that of equally specific ones the first of the list stays.
THEOREM LoopFindsBest ==
  ASSUME NEW Segs, NEW patterns \in Seq(Seq(Segs)), NEW path,
         NEW best, NEW bestStatic, best[0] = 0, bestStatic[0] = -1,
         \A n \in 1 .. Len(patterns) :
           IF /\ matchPath(patterns[n], path)
              /\ staticSegments(patterns[n]) > bestStatic[n - 1]
           THEN best[n] = n /\ bestStatic[n] = staticSegments(patterns[n])
           ELSE best[n] = best[n - 1] /\ bestStatic[n] = bestStatic[n - 1]
  PROVE  best[Len(patterns)] = bestMatch(patterns, path)
<1> DEFINE N == Len(patterns)
           M == Matching(patterns, path)
           static(k) == staticSegments(patterns[k])
           Found(n) ==
             /\ best[n] = 0 => bestStatic[n] = -1 /\ \A k \in 1 .. n : k \notin M
             /\ best[n] # 0 =>
                  /\ best[n] \in 1 .. n /\ best[n] \in M
                  /\ bestStatic[n] = static(best[n])
                  /\ \A k \in 1 .. n : k \in M =>
                       /\ bestStatic[n] >= static(k)
                       /\ bestStatic[n] = static(k) => best[n] <= k
<1>0. N \in Nat /\ DOMAIN patterns = 1 .. N /\ M \subseteq 1 .. N
  BY DEF Matching
<1>1. \A k \in 1 .. N : /\ static(k) \in Nat
                        /\ k \in M <=> matchPath(patterns[k], path)
  BY <1>0, StaticBounds DEF Matching
<1>2. Found(0)
  OBVIOUS
<1>3. ASSUME NEW n \in 1 .. N, Found(n - 1) PROVE Found(n)
  <2>0. n \in Nat /\ n - 1 \in Nat /\ \A k \in 1 .. n : k \in 1 .. n - 1 \/ k = n
    BY <1>0
  <2>1. /\ best[n - 1] = 0 \/ best[n - 1] \in 1 .. n - 1
        /\ bestStatic[n - 1] \in Int
        /\ bestStatic[n - 1] = -1 \/ best[n - 1] # 0
    BY <1>0, <1>1, <1>3
  <2>2. CASE n \in M /\ static(n) > bestStatic[n - 1]
    <3>1. best[n] = n /\ bestStatic[n] = static(n)
      BY <1>1, <2>2
    <3>2. \A k \in 1 .. n - 1 : k \in M => static(n) > static(k)
      BY <1>0, <1>1, <1>3, <2>1, <2>2
    <3> QED
      BY <1>1, <2>0, <2>2, <3>1, <3>2
  <2>3. CASE ~(n \in M /\ static(n) > bestStatic[n - 1])
    <3>1. best[n] = best[n - 1] /\ bestStatic[n] = bestStatic[n - 1]
      BY <1>1, <2>3
    <3>2. n \in M => bestStatic[n] >= static(n) /\ best[n] # 0
      BY <1>1, <2>1, <2>3, <3>1
    <3> QED
      BY <1>1, <1>3, <2>0, <2>1, <3>1, <3>2
  <2> QED
    BY <2>2, <2>3
<1>4. Found(N)
  <2> SUFFICES ASSUME ~Found(N) PROVE FALSE
    OBVIOUS
  <2> DEFINE Bad == {n \in 0 .. N : ~Found(n)}
  <2>1. Bad \in SUBSET Nat /\ N \in Bad
    BY <1>0
  <2> HIDE DEF Found
  <2>2. PICK n \in Bad : \A k \in Bad : n <= k
    BY <2>1, Least
  <2>3. n # 0 /\ n \in 1 .. N
    BY <1>0, <1>2, <2>2
  <2>4. Found(n - 1)
    BY <1>0, <2>2, <2>3
  <2> QED
    BY <1>3, <2>2, <2>3, <2>4
<1>5. CASE best[N] = 0
  <2>1. M = {}
    BY <1>0, <1>4, <1>5
  <2> QED
    BY <1>5, <2>1 DEF bestMatch, Matching
<1>6. CASE best[N] # 0
  <2>1. FirstMostSpecific(patterns, path, best[N])
    BY <1>0, <1>4, <1>6 DEF FirstMostSpecific
  <2> QED
    BY <2>1, BestIsFirst
<1> QED
  BY <1>5, <1>6

\* "/users/me wins over /users/:id for a request to /users/me"
\* (path.go:32-34): a path that is itself a route is answered by that route,
\* whatever other routes match it and wherever they are in the list.
THEOREM ExactWins ==
  ASSUME NEW Segs, NEW patterns \in Seq(Seq(Segs)), NEW path \in Seq(Segs),
         \A i \in 1 .. Len(path) : ~IsParam(path[i]),
         NEW e \in 1 .. Len(patterns), patterns[e] = path
  PROVE  patterns[bestMatch(patterns, path)] = path
<1> DEFINE N == Len(patterns)
           M == Matching(patterns, path)
           static(k) == staticSegments(patterns[k])
           Exact == {k \in 1 .. N : patterns[k] = path}
<1>0. /\ N \in Nat /\ DOMAIN patterns = 1 .. N
      /\ \A k \in 1 .. N : patterns[k] \in Seq(Segs)
  OBVIOUS
<1>a. Exact \in SUBSET Nat /\ e \in Exact
  BY <1>0
<1> HIDE DEF Exact
<1>1. PICK i \in Exact : \A k \in Exact : i <= k
  BY <1>a, Least
<1> USE DEF Exact
<1>2. i \in M
  BY <1>0, <1>1 DEF Matching, matchPath
<1>3. static(i) = Len(path)
  BY <1>1, StaticBounds
<1>4. ASSUME NEW j \in M
      PROVE  /\ static(i) >= static(j)
             /\ static(i) = static(j) => i <= j
  <2>1. /\ j \in 1 .. N /\ patterns[j] \in Seq(Segs) /\ Len(patterns[j]) = Len(path)
        /\ \A s \in 1 .. Len(path) : IsParam(patterns[j][s]) \/ patterns[j][s] = path[s]
    BY <1>0 DEF Matching, matchPath
  <2>2. static(j) \in 0 .. Len(path)
    BY <2>1, StaticBounds
  <2>3. ASSUME static(i) = static(j) PROVE i <= j
    <3>1. \A s \in 1 .. Len(path) : ~IsParam(patterns[j][s])
      BY <1>3, <2>1, <2>3, StaticBounds
    <3>2. \A s \in 1 .. Len(path) : patterns[j][s] = path[s]
      BY <2>1, <3>1
    <3>3. patterns[j] = path
      BY <2>1, <3>2, SeqEqual
    <3> QED
      BY <1>1, <2>1, <3>3
  <2> QED
    BY <1>3, <2>2, <2>3
<1>5. FirstMostSpecific(patterns, path, i)
  BY <1>2, <1>4 DEF FirstMostSpecific
<1> QED
  BY <1>1, <1>5, BestIsFirst

-----------------------------------------------------------------------------
\* Where an endpoint matches, bestMatch is one that matches, at least as
\* specific, and if equally specific, not after it in the list.
LEMMA BestIsNoWorse ==
  ASSUME NEW Segs, NEW patterns \in Seq(Seq(Segs)), NEW path,
         NEW e \in Matching(patterns, path)
  PROVE  LET best == bestMatch(patterns, path)
         IN  /\ best \in Matching(patterns, path)
             /\ staticSegments(patterns[best]) >= staticSegments(patterns[e])
             /\ staticSegments(patterns[best]) = staticSegments(patterns[e]) => best <= e
<1> DEFINE N == Len(patterns)
           M == Matching(patterns, path)
           static(k) == staticSegments(patterns[k])
           Missing == {Len(path) - static(k) : k \in M}
<1>1. M \subseteq 1 .. N /\ N \in Nat
  BY DEF Matching
<1>2. ASSUME NEW k \in M
      PROVE  static(k) \in 0 .. Len(path) /\ Len(path) \in Nat
  <2>1. /\ patterns[k] \in Seq(Segs) /\ Len(patterns[k]) \in Nat
        /\ Len(patterns[k]) = Len(path)
    BY <1>1 DEF Matching, matchPath
  <2> QED
    BY <2>1, StaticBounds
<1>3. Missing \in SUBSET Nat /\ Missing # {}
  BY <1>2
<1> HIDE DEF static
<1>4. PICK m \in Missing : \A k \in Missing : m <= k
  BY <1>3, Least
<1> DEFINE Top == {k \in M : Len(path) - static(k) = m}
<1>5. Top \in SUBSET Nat /\ Top # {}
  BY <1>1, <1>4
<1> HIDE DEF Top
<1>6. PICK i \in Top : \A k \in Top : i <= k
  BY <1>5, Least
<1> USE DEF Top
<1>7. ASSUME NEW j \in M
      PROVE  /\ static(i) >= static(j)
             /\ static(i) = static(j) => i <= j
  <2>1. i \in M /\ Len(path) - static(i) = m /\ m <= Len(path) - static(j)
    BY <1>4, <1>6
  <2> QED
    BY <1>2, <1>6, <2>1
<1>8. FirstMostSpecific(patterns, path, i)
  BY <1>6, <1>7 DEF FirstMostSpecific, static
<1>9. bestMatch(patterns, path) = i
  BY <1>8, BestIsFirst
<1> QED
  BY <1>6, <1>7, <1>9 DEF static

\* The order of the list only chooses among equally specific endpoints, which
\* is where created_at, the same for a whole import, leaves it open
\* (repository.go:188-200; path.go:35-62): with the same routes in another
\* order and number, the winner is as specific, and the same route unless
\* another route that matches is as specific.
THEOREM OrderBreaksTiesOnly ==
  ASSUME NEW Segs, NEW patterns \in Seq(Seq(Segs)), NEW others \in Seq(Seq(Segs)),
         {patterns[i] : i \in DOMAIN patterns} = {others[i] : i \in DOMAIN others},
         NEW path, Matching(patterns, path) # {}
  PROVE  LET route == patterns[bestMatch(patterns, path)]
             other == others[bestMatch(others, path)]
         IN  /\ matchPath(other, path)
             /\ staticSegments(other) = staticSegments(route)
             /\ \/ other = route
                \/ \E i \in Matching(patterns, path) :
                     /\ patterns[i] # route
                     /\ staticSegments(patterns[i]) = staticSegments(route)
<1> DEFINE best == bestMatch(patterns, path)
           best2 == bestMatch(others, path)
<1>1. best \in Matching(patterns, path)
  BY BestIsNoWorse
<1>2. PICK e \in DOMAIN others : others[e] = patterns[best]
  BY <1>1 DEF Matching
<1>3. e \in Matching(others, path)
  BY <1>1, <1>2 DEF Matching
<1>4. /\ best2 \in Matching(others, path)
      /\ staticSegments(others[best2]) >= staticSegments(patterns[best])
  BY <1>2, <1>3, BestIsNoWorse
<1>5. PICK d \in DOMAIN patterns : patterns[d] = others[best2]
  BY <1>4 DEF Matching
<1>6. d \in Matching(patterns, path)
  BY <1>4, <1>5 DEF Matching
<1>7. staticSegments(patterns[best]) >= staticSegments(others[best2])
  BY <1>5, <1>6, BestIsNoWorse
<1>8. /\ staticSegments(patterns[best]) \in Nat
      /\ staticSegments(others[best2]) \in Nat
  <2>1. patterns[best] \in Seq(Segs) /\ others[best2] \in Seq(Segs)
    BY <1>1, <1>4 DEF Matching
  <2>2. ASSUME NEW p \in Seq(Segs) PROVE staticSegments(p) \in Nat
    <3>1. staticSegments(p) \in 0 .. Len(p) /\ Len(p) \in Nat
      BY StaticBounds
    <3> QED
      BY <3>1
  <2> HIDE DEF best, best2
  <2> QED
    BY <2>1, <2>2
<1>9. staticSegments(others[best2]) = staticSegments(patterns[best])
  BY <1>4, <1>7, <1>8
<1> QED
  BY <1>4, <1>5, <1>6, <1>9 DEF Matching

\* Segments of requests, of the templates a document writes them with and of
\* the routes the templates become, over any set of texts; a placeholder is
\* a whole segment.
Literals(Texts) == {"lit"} \X Texts
Templates(Texts) == Seq({"lit", "var"} \X Texts)
Routes(Texts) == Seq({"lit", "param"} \X Texts)

\* A template becomes a route of its length, with a parameter for a variable.
LEMMA RouteOfTemplate ==
  ASSUME NEW Texts, NEW template \in Templates(Texts)
  PROVE  /\ toRoutePath(template) \in Routes(Texts)
         /\ DOMAIN toRoutePath(template) = 1 .. Len(template)
         /\ Len(toRoutePath(template)) = Len(template)
         /\ \A i \in 1 .. Len(template) :
              toRoutePath(template)[i] = IF IsVar(template[i]) THEN <<"param", template[i][2]>>
                                         ELSE template[i]
<1>1. ASSUME NEW i \in 1 .. Len(template)
      PROVE  /\ template[i] \in {"lit", "var"} \X Texts
             /\ Colon(template[i]) = IF IsVar(template[i]) THEN <<"param", template[i][2]>>
                                     ELSE template[i]
             /\ Colon(template[i]) \in {"lit", "param"} \X Texts
  BY DEF Templates, Colon, IsVar
<1>2. DOMAIN template = 1 .. Len(template) /\ Len(template) \in Nat
  BY DEF Templates
<1>3. toRoutePath(template) = [i \in 1 .. Len(template) |-> Colon(template[i])]
  BY <1>2 DEF toRoutePath
<1>4. toRoutePath(template) \in Routes(Texts)
  BY <1>1, <1>2, <1>3 DEF Routes
<1> QED
  BY <1>1, <1>2, <1>3, <1>4, LenProperties DEF Routes

\* A request with one text for each variable matches the route.
LEMMA InstanceMatches ==
  ASSUME NEW Texts, NEW template \in Templates(Texts), NEW path \in Seq(Literals(Texts)),
         Instantiates(path, template)
  PROVE  matchPath(toRoutePath(template), path)
<1>1. Len(path) = Len(template) /\ DOMAIN path = 1 .. Len(path)
  BY DEF Instantiates
<1>2. ASSUME NEW i \in 1 .. Len(template)
      PROVE  IsParam(toRoutePath(template)[i]) \/ toRoutePath(template)[i] = path[i]
  <2>1. CASE IsVar(template[i])
    <3>1. toRoutePath(template)[i] = <<"param", template[i][2]>>
      BY <2>1, RouteOfTemplate
    <3> QED
      BY <3>1 DEF IsParam
  <2>2. CASE ~IsVar(template[i])
    <3>1. template[i] \in {"lit"} \X Texts
      BY <2>2 DEF Templates, IsVar
    <3>2. path[i] \in {"lit"} \X Texts /\ path[i][2] = template[i][2]
      BY <1>1, <2>2 DEF Instantiates, Literals
    <3>3. path[i] = template[i]
      BY <3>1, <3>2
    <3> QED
      BY <2>2, <3>3, RouteOfTemplate
  <2> QED
    BY <2>1, <2>2
<1> QED
  BY <1>1, <1>2, RouteOfTemplate DEF matchPath

\* Every request an imported document describes is routed: to an endpoint
\* whose route matches it and is at least as specific as the one the template
\* became, whatever else is in the list, and of equally specific ones to the
\* first (path.go:35-62, parse.go:88-92).
THEOREM DescribedIsRouted ==
  ASSUME NEW Texts, NEW patterns \in Seq(Routes(Texts)),
         NEW template \in Templates(Texts), NEW path \in Seq(Literals(Texts)),
         Instantiates(path, template),
         NEW e \in 1 .. Len(patterns), patterns[e] = toRoutePath(template)
  PROVE  LET best == bestMatch(patterns, path)
         IN  /\ best \in 1 .. Len(patterns)
             /\ matchPath(patterns[best], path)
             /\ staticSegments(patterns[best]) >= staticSegments(patterns[e])
             /\ staticSegments(patterns[best]) = staticSegments(patterns[e]) => best <= e
<1>1. e \in Matching(patterns, path)
  BY InstanceMatches DEF Matching
<1>2. patterns \in Seq(Seq({"lit", "param"} \X Texts))
  BY DEF Routes
<1>3. \A k \in Matching(patterns, path) : k \in 1 .. Len(patterns) /\ matchPath(patterns[k], path)
  BY <1>2 DEF Matching
<1> QED
  BY <1>1, <1>2, <1>3, BestIsNoWorse

\* A request that puts one text in place of each variable of the template:
\* the handler is given that text for each variable, and nothing else
\* (path.go:9-30).
THEOREM ParamsComeBack ==
  ASSUME NEW Texts, NEW template \in Templates(Texts), NEW text,
         NEW path \in Seq(Literals(Texts)), Len(path) = Len(template),
         \A i \in 1 .. Len(template) :
           path[i][2] = IF IsVar(template[i]) THEN text[template[i][2]] ELSE template[i][2]
  PROVE  PathParams(toRoutePath(template), path) =
           [name \in {template[i][2] : i \in {j \in DOMAIN template : IsVar(template[j])}} |->
              text[name]]
<1> DEFINE N == Len(template)
           route == toRoutePath(template)
           Names == {template[i][2] : i \in {j \in DOMAIN template : IsVar(template[j])}}
           At(name) == {i \in DOMAIN route : route[i] = <<"param", name>>}
           Last(name) == CHOOSE i \in At(name) : \A j \in At(name) : i >= j
<1>1. N \in Nat /\ DOMAIN template = 1 .. N /\ DOMAIN route = 1 .. N
  <2>1. template \in Seq({"lit", "var"} \X Texts)
    BY DEF Templates
  <2> QED
    BY <2>1, RouteOfTemplate
<1>2. ASSUME NEW i \in 1 .. N
      PROVE  /\ IsParam(route[i]) <=> IsVar(template[i])
             /\ IsVar(template[i]) => route[i] = <<"param", template[i][2]>>
  <2>1. template[i] \in {"lit", "var"} \X Texts
    BY <1>1 DEF Templates
  <2>2. IsVar(template[i]) => route[i] = <<"param", template[i][2]>>
    BY RouteOfTemplate
  <2>3. ~IsVar(template[i]) => route[i] = template[i]
    BY RouteOfTemplate
  <2> QED
    BY <2>1, <2>2, <2>3 DEF IsParam, IsVar
<1> HIDE DEF route
<1>3. {route[i][2] : i \in {j \in DOMAIN route : IsParam(route[j])}} = Names
  BY <1>1, <1>2
<1>4. ASSUME NEW name \in Names PROVE path[Last(name)][2] = text[name]
  <2>1. At(name) # {} /\ At(name) \subseteq 1 .. N
    BY <1>1, <1>2, <1>4
  <2> DEFINE Back == {N - i : i \in At(name)}
  <2>2. Back \in SUBSET Nat /\ Back # {}
    BY <1>1, <2>1
  <2>3. PICK b \in Back : \A k \in Back : b <= k
    BY <2>2, Least
  <2>4. PICK i \in At(name) : b = N - i
    BY <2>3
  <2>5. \A j \in At(name) : i >= j
    <3> SUFFICES ASSUME NEW j \in At(name) PROVE i >= j
      OBVIOUS
    <3>1. N - i <= N - j /\ i \in 1 .. N /\ j \in 1 .. N
      BY <2>1, <2>3, <2>4
    <3> QED
      BY <1>1, <3>1
  <2>6. Last(name) \in At(name)
    BY <2>4, <2>5
  <2> HIDE DEF Last
  <2>7. Last(name) \in 1 .. N /\ route[Last(name)] = <<"param", name>>
    BY <2>1, <2>6
  <2>8. IsVar(template[Last(name)])
    BY <1>2, <2>7 DEF IsParam
  <2>9. template[Last(name)][2] = name
    BY <1>2, <2>7, <2>8
  <2> QED
    BY <2>7, <2>8, <2>9
<1>5. PathParams(route, path) = [name \in Names |-> path[Last(name)][2]]
  BY <1>3, Zenon DEF PathParams
<1> QED
  BY <1>4, <1>5 DEF route
===============================================================================
