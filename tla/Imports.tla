-------------------------------- MODULE Imports --------------------------------
(***************************************************************************)
(* From an API description to the mock it becomes, without an AI backend:  *)
(* OpenAPI documents and Postman collections are parsed                    *)
(* (internal/importer), their endpoints stored, and requests matched,      *)
(* checked and answered by the faker (internal/router, internal/generator).*)
(* Both ends are pure functions; documents, requests and the values filled *)
(* in are chosen.  Concurrency of imports is Registry's, that of requests  *)
(* MockRequest's matter.                                                   *)
(***************************************************************************)
EXTENDS RoutePaths, JsonSchemas, TLC

CONSTANTS
  OpenAPI,     \* OpenAPI documents
  Postman,     \* Postman collections
  Orders,      \* orders a map iteration can have over other 2xx statuses and
               \* other media types
  Calls,       \* mock requests: method, path, query, headers, cookies, body
  MaxImports,  \* bound on the imports
  None         \* no schema, no body, no URL, not JSON

VARIABLES
  imported,   \* the documents imported, in order
  endpoints,  \* table endpoints with the first versions, oldest first
  answer      \* what the last request was answered

vars == <<imported, endpoints, answer>>

-----------------------------------------------------------------------------
\* Prompts are sequences of words; buildPrompt and postmanPrompt.
promptOf(title, description, method) ==
  IF title \o description = <<>> THEN <<"handle", method>> ELSE title \o description

\* The first of the schemas a list of keys leads to.
FirstSchema(schemas) ==
  LET found == SelectSeq(schemas, LAMBDA s : s # None)
  IN  IF found = <<>> THEN None ELSE Head(found)

resolvedSchema(s, schemas) == IF s = None THEN None ELSE resolveRefs(s, schemas, 0)

MediaTypes == <<"application/json", "application/*", "*/*">>

contentSchema(content, schemas, order) ==
  LET keys == MediaTypes \o order
      At(ct) == IF ct \in DOMAIN content THEN resolvedSchema(content[ct], schemas) ELSE None
  IN  FirstSchema([i \in DOMAIN keys |-> At(keys[i])])

\* schemaValue: OpenAPI 3 content, or the schema of Swagger 2.
schemaValue(r, schemas, order) ==
  LET fromContent == contentSchema(r.content, schemas, order)
  IN  IF fromContent # None THEN fromContent ELSE resolvedSchema(r.schema, schemas)

\* Mutant of responseSchema: the error response comes first.
DefaultFirst(responses, schemas, order) ==
  LET keys == <<"default", "200", "201">> \o order
      At(status) == IF status \in DOMAIN responses
                    THEN schemaValue(responses[status], schemas, order) ELSE None
  IN  FirstSchema([i \in DOMAIN keys |-> At(keys[i])])

responseSchema(responses, schemas, order) ==
  LET keys == <<"200", "201", "2XX", "2xx", "default">> \o order
      At(status) == IF status \in DOMAIN responses
                    THEN schemaValue(responses[status], schemas, order) ELSE None
  IN  FirstSchema([i \in DOMAIN keys |-> At(keys[i])])

requestSchema(op, schemas, order) == contentSchema(op.request, schemas, order)

orderedMethods == <<"GET", "PUT", "POST", "DELETE", "OPTIONS", "HEAD", "PATCH">>

operationsOf(item) == SelectSeq(orderedMethods, LAMBDA m : m \in DOMAIN item.ops)

\* What an endpoint is imported from is kept to compare it with.
operationSpec(item, m, schemas, order) ==
  LET op == item.ops[m]
  IN  [method |-> m, path |-> toRoutePath(item.path),
       prompt |-> promptOf(op.summary, op.description, m),
       schema |-> responseSchema(op.responses, schemas, order),
       request |-> requestSchema(op, schemas, order),
       origin |-> [template |-> item.path, sample |-> None, examples |-> <<>>,
                   responses |-> op.responses, schemas |-> schemas]]

\* A document without a version marker or paths is refused.
Parses(doc) == doc.marked /\ doc.paths # <<>>

\* Components override definitions of the same name.
Parse(doc, order) ==
  LET schemas == Merge(doc.definitions, doc.components)
      Specs(item) == [i \in DOMAIN operationsOf(item) |->
                        operationSpec(item, operationsOf(item)[i], schemas, order)]
  IN  FlattenSeq([i \in DOMAIN doc.paths |-> Specs(doc.paths[i])])

-----------------------------------------------------------------------------
\* Only raw bodies that are JSON, and not null, are looked at.
isJSON(v) == v # None /\ v # Null

requestExampleSchema(body) == IF isJSON(body) THEN inferJSONSchema(body) ELSE None

Succeeded(x) == x.code \in 200..299

\* The first 2xx example with a JSON body, or else the first with one.
responseExampleSchema(examples) ==
  LET json == SelectSeq(examples, LAMBDA x : isJSON(x.body))
      good == SelectSeq(json, Succeeded)
  IN  IF json = <<>> THEN None
      ELSE inferJSONSchema(Head(IF good # <<>> THEN good ELSE json).body)

postmanEndpoint(it) ==
  LET m == IF it.request.method = "" THEN "GET" ELSE it.request.method
  IN  [method |-> m, path |-> postmanPath(it.request.url),
       prompt |-> promptOf(it.name, it.request.description, m),
       schema |-> responseExampleSchema(it.response),
       request |-> requestExampleSchema(it.request.body),
       origin |-> [template |-> <<>>, sample |-> it.request.body, examples |-> it.response,
                   responses |-> Empty, schemas |-> Empty]]

\* Requests in document order, an item's own before those of its children.
RECURSIVE walk(_)
walk(items) ==
  FlattenSeq([i \in DOMAIN items |->
    LET it == items[i]
        own == it.request # None /\ it.request.url # None
               /\ postmanPath(it.request.url) # <<>>
    IN  (IF own THEN <<postmanEndpoint(it)>> ELSE <<>>) \o walk(it.item)])

ParsePostman(col) == walk(col.item)

\* No name, no items, or no request that can be served.
ParsesPostman(col) == col.named /\ ParsePostman(col) # <<>>

-----------------------------------------------------------------------------
Vetted(s) == IF s # None /\ Compiles(s) THEN s ELSE None

\* Import: method and path may be there already, and then the item is skipped;
\* a schema that does not compile is dropped.
Store(stored, spec) ==
  IF \E i \in DOMAIN stored : stored[i].method = spec.method /\ stored[i].path = spec.path
  THEN stored
  ELSE Append(stored, [batch |-> Len(imported)] @@ [spec EXCEPT !.schema = Vetted(@),
                                                                !.request = Vetted(@)])

Refused == [status |-> 400, endpoint |-> 0, params |-> Empty, prompt |-> <<>>, call |-> None, body |-> None]

\* Nothing is written of a document that does not parse.
ImportDocument(doc, accepted, specs) ==
  /\ Len(imported) < MaxImports
  /\ imported' = Append(imported, doc)
  /\ endpoints' = FoldLeft(Store, endpoints, IF accepted THEN specs ELSE <<>>)
  /\ answer' = [Refused EXCEPT !.status = IF accepted THEN 201 ELSE 400]

-----------------------------------------------------------------------------
\* The scalars of a JSON body under their dotted names; null is nothing.
RECURSIVE bodyVars(_, _)
bodyVars(prefix, v) ==
  LET Named(text) == IF prefix = "" THEN Empty ELSE prefix :> text
      Under(k) == IF prefix = "" THEN k ELSE prefix \o "." \o k
  IN  CASE Is("obj", v)  -> FoldLeft(LAMBDA vs, k : bodyVars(Under(k), v.obj[k]) @@ vs,
                                     Empty, SetToSeq(DOMAIN v.obj))
        [] Is("arr", v)  -> Named(<<"json">>)
        [] Is("str", v)  -> Named(v.str)
        [] Is("int", v)  -> Named(<<ToString(v.int)>>)
        [] Is("frac", v) -> Named(<<ToString(v.frac)>>)
        [] Is("bool", v) -> Named(<<ToString(v.bool)>>)
        [] OTHER         -> Named(<<>>)

Prefixed(namespace, vs) ==
  [n \in {namespace \o "." \o k : k \in DOMAIN vs} |->
     vs[CHOOSE k \in DOMAIN vs : namespace \o "." \o k = n]]

extractVariables(call, params) ==
  LET paths == [n \in DOMAIN params |-> <<params[n]>>]
      fields == IF isJSON(call.body) THEN bodyVars("", call.body) ELSE Empty
  IN  Prefixed("path", paths) @@ Prefixed("query", call.query) @@ Prefixed("headers", call.headers)
      @@ Prefixed("cookies", call.cookies) @@ Prefixed("body", fields)

Position(words, word) == CHOOSE i \in DOMAIN words : /\ words[i] = word
                                                     /\ \A j \in 1..(i-1) : words[j] # word

\* Mutant of RenderVariables: what was inserted is looked at again.
RECURSIVE RenderAgain(_, _)
RenderAgain(prompt, vs) ==
  IF "{{" \notin ToSet(prompt) THEN prompt
  ELSE LET start == Position(prompt, "{{")
           rest == SubSeq(prompt, start + 1, Len(prompt))
           end == Position(rest, "}}")
           text == IF end = 2 /\ rest[1] \in DOMAIN vs THEN vs[rest[1]] ELSE <<>>
       IN  IF "}}" \notin ToSet(rest) THEN prompt
           ELSE RenderAgain(SubSeq(prompt, 1, start - 1) \o text
                            \o SubSeq(rest, end + 1, Len(rest)), vs)

\* Placeholders from left to right; what is inserted is not looked at again.
\* The words between the braces are one name, unknown names are empty, and
\* without closing braces the rest is text.
RECURSIVE RenderVariables(_, _)
RenderVariables(prompt, vs) ==
  IF "{{" \notin ToSet(prompt) THEN prompt
  ELSE LET start == Position(prompt, "{{")
           rest == SubSeq(prompt, start + 1, Len(prompt))
           end == Position(rest, "}}")
           text == IF end = 2 /\ rest[1] \in DOMAIN vs THEN vs[rest[1]] ELSE <<>>
       IN  IF "}}" \notin ToSet(rest) THEN prompt
           ELSE SubSeq(prompt, 1, start - 1) \o text
                \o RenderVariables(SubSeq(rest, end + 1, Len(rest)), vs)

\* fakerGenerator without an AI backend; None stands for the echo of Static.
Filled(schema) == IF schema = None THEN {None} ELSE fillValue(schema, 0)

\* ListActiveByMethod: endpoints of one import share their created_at, and
\* come in any order.  Those that do not match are left out.
Lists(call) ==
  {list \in SetToSeqs({i \in DOMAIN endpoints : /\ endpoints[i].method = call.method
                                                /\ matchPath(endpoints[i].path, call.path)}) :
     \A i, j \in DOMAIN list :
       endpoints[list[i]].batch < endpoints[list[j]].batch => i < j}

Answered(call, list) ==
  LET best == bestMatch([i \in DOMAIN list |-> endpoints[list[i]].path], call.path)
      e == endpoints[list[best]]
      params == PathParams(e.path, call.path)
      rejected == e.request # None /\ (call.body = None \/ ~Conforms(call.body, e.request))
  IN  IF best = 0 THEN {[Refused EXCEPT !.status = 404, !.call = call]}
      ELSE IF rejected THEN {[Refused EXCEPT !.call = call, !.endpoint = list[best]]}
      ELSE {[status |-> 200, endpoint |-> list[best], params |-> params, call |-> call,
             prompt |-> RenderVariables(e.prompt, extractVariables(call, params)),
             body |-> body] : body \in Filled(e.schema)}

Serve(call) == /\ \E list \in Lists(call) : answer' \in Answered(call, list)
               /\ UNCHANGED <<imported, endpoints>>

Init == imported = <<>> /\ endpoints = <<>> /\ answer = Refused

Next == \/ \E doc \in OpenAPI, order \in Orders : ImportDocument(doc, Parses(doc), Parse(doc, order))
        \/ \E col \in Postman : ImportDocument(col, ParsesPostman(col), ParsePostman(col))
        \/ \E call \in Calls : Serve(call)

Spec == Init /\ [][Next]_vars
-----------------------------------------------------------------------------
\* Two JSON values of one kind, objects with the same keys, arrays with
\* elements of one kind.
RECURSIVE Alike(_, _)
Alike(v, w) ==
  /\ DOMAIN v = DOMAIN w
  /\ Is("obj", v) => /\ DOMAIN v.obj = DOMAIN w.obj
                     /\ \A k \in DOMAIN v.obj : Alike(v.obj[k], w.obj[k])
  /\ Is("arr", v) => \A x \in ToSet(v.arr), y \in ToSet(w.arr) : Alike(x, y)

Uniform(v) == Alike(v, v)

Numeric == {"integer", "number"}

\* Schemas without what the faker gets wrong: a keyword in two of the members
\* of allOf, members of oneOf or anyOf that overlap or have a keyword beside
\* them, a bound on the other side of the default of the missing one, and
\* more levels than maxFillDepth.
RECURSIVE Plain(_, _, _)
Plain(s, schemas, depth) ==
  /\ depth < maxFillDepth
  /\ Has(s, "ref") => s.ref \in DOMAIN schemas /\ Plain(schemas[s.ref], schemas, depth + 1)
  /\ Has(s, "type") /\ s.type = "integer" => Bound(s, "minimum", 1) <= Bound(s, "maximum", 1000)
  /\ Has(s, "type") /\ s.type = "number" => Bound(s, "minimum", 0) <= Bound(s, "maximum", 100)
  /\ Bound(s, "minItems", 0) <= Bound(s, "maxItems", 1000)
  /\ Has(s, "required") => Has(s, "properties") /\ s.required \subseteq DOMAIN s.properties
  /\ Has(s, "allOf") =>
       LET Member(m) == IF Has(m, "ref") /\ m.ref \in DOMAIN schemas THEN schemas[m.ref] ELSE m
       IN  \A i, j \in DOMAIN s.allOf :
             /\ DOMAIN Member(s.allOf[i]) \cap (DOMAIN s \cup {"allOf", "anyOf", "oneOf"}) = {}
             /\ i # j => DOMAIN Member(s.allOf[i]) \cap DOMAIN Member(s.allOf[j]) = {}
  /\ \A keyword \in DOMAIN s \cap {"oneOf", "anyOf"} :
       /\ DOMAIN s = {keyword}
       /\ \A i, j \in DOMAIN s[keyword] :
            /\ Has(s[keyword][i], "type")
            /\ i # j => /\ s[keyword][i].type # s[keyword][j].type
                        /\ {s[keyword][i].type, s[keyword][j].type} # Numeric
  /\ \A sub \in SubSchemas(s) : Plain(sub, schemas, depth + 1)

\* What a document says of a successful JSON answer.
Promised(e) ==
  LET At(status) == IF status \notin DOMAIN e.origin.responses THEN None
                    ELSE LET r == e.origin.responses[status]
                         IN  IF "application/json" \in DOMAIN r.content
                             THEN r.content["application/json"] ELSE r.schema
  IN  FirstSchema(<<At("200"), At("201")>>)

\* "With AI disabled, the faker generator immediately serves
\* schema-conforming data" (README.md:284-285): what an imported operation
\* answers conforms to the schema the document itself gives for success, with
\* its references looked up there, wherever the schema is one of those the
\* faker handles (internal/importer/parse.go:127-245, generator/faker.go).
DocumentIsHonoured ==
  answer.status = 200 =>
    LET e == endpoints[answer.endpoint]
        s == Promised(e)
    IN  s # None /\ Plain(s, e.origin.schemas, 0) =>
          answer.body # None /\ ConformsIn(answer.body, s, e.origin.schemas)

\* A recorded request is accepted by the endpoint it became, and what is
\* answered has the form of the recorded success: schemas stay "faithful to
\* the recorded example" (internal/importer/postman.go:274-277), wherever the
\* elements of its arrays are alike.
ExampleIsHonoured ==
  /\ \A i \in DOMAIN endpoints :
       LET sample == endpoints[i].origin.sample
       IN  isJSON(sample) /\ Uniform(sample) =>
             endpoints[i].request # None /\ Conforms(sample, endpoints[i].request)
  /\ answer.status = 200 =>
       \A x \in ToSet(SelectSeq(endpoints[answer.endpoint].origin.examples, Succeeded)) :
         (isJSON(x.body) /\ Uniform(x.body) /\ x = Head(SelectSeq(
            endpoints[answer.endpoint].origin.examples, LAMBDA y : Succeeded(y) /\ isJSON(y.body))))
         => answer.body # None /\ Alike(answer.body, x.body)

\* Every request an imported document describes is routed to an endpoint at
\* least as specific, whatever else was imported, and of equally specific
\* ones the endpoint that was there first stays in charge
\* (internal/router/path.go:35-62, repository.go:188-200).
DocumentIsServed ==
  answer.call # None =>
    \A i \in {j \in DOMAIN endpoints : endpoints[j].method = answer.call.method} :
      LET template == endpoints[i].origin.template
          described == /\ template # <<>>
                       /\ \A k \in DOMAIN template : template[k][1] # "mixed"
                       /\ Instantiates(answer.call.path, template)
          mine == staticSegments(endpoints[i].path)
          chosen == staticSegments(endpoints[answer.endpoint].path)
      IN  described => /\ answer.endpoint # 0
                       /\ \/ chosen > mine
                          \/ chosen = mine /\ endpoints[answer.endpoint].batch <= endpoints[i].batch

\* What a caller sends gets into the prompt only where the endpoint's own
\* prompt asks for it: a value cannot name another one, whether it comes in
\* the path, a header or the body (internal/generator/variables.go:31-51).
ValuesStayValues ==
  answer.status = 200 =>
    LET template == endpoints[answer.endpoint].prompt
        vs == extractVariables(answer.call, answer.params)
        asked == {n \in DOMAIN vs : n \in ToSet(template)}
    IN  ToSet(answer.prompt) \subseteq ToSet(template) \cup UNION {ToSet(vs[n]) : n \in asked}
=============================================================================
