------------------------------- MODULE MCImports -------------------------------
(* Two OpenAPI documents that describe overlapping paths, one with          *)
(* references, the other with the schemas the faker is most easily wrong    *)
(* about: composed, bounded, empty, recursive, deep; one without a version. *)
(* A Postman collection with folders, templates and examples, one with      *)
(* less regular requests, one without a name.                               *)
EXTENDS Imports

Obj(f) == [obj |-> f]
Str(w) == [str |-> <<w>>]
Whole(n) == [int |-> n]
String == [type |-> "string"]
Ref(n) == [ref |-> n]
Object(props, required) == [type |-> "object", properties |-> props, required |-> required]

Json(s) == [content |-> "application/json" :> s, schema |-> None]
\* A schema as application/json, beside two other JSON media types for errors.
Negotiated(s, error) ==
  [content |-> "application/problem+json" :> error @@ "application/hal+json" :> error
               @@ "application/json" :> s,
   schema |-> None]
Plainly(s) == [content |-> Empty, schema |-> s]
Op(summary, request, responses) ==
  [summary |-> summary, description |-> <<>>, request |-> request, responses |-> responses]
Lit(s) == <<"lit", s>>
Var(n) == <<"var", n>>

Pets ==
  [marked |-> TRUE, definitions |-> "Error" :> String,
   components |->
     [Pet |-> Object([id |-> [type |-> "integer", minimum |-> 7],
                      mail |-> [type |-> "string", format |-> "email"]], {"id", "mail"}),
      Pets |-> [type |-> "array", items |-> Ref("Pet"), minItems |-> 2],
      Error |-> Object([error |-> String], {"error"})],
   paths |->
     << [path |-> <<Lit("pets")>>,
         ops |-> [GET |-> Op(<<"list">>, Empty, ("200" :> Json(Ref("Pets")) @@ "default" :> Json(Ref("Error")))),
                  POST |-> Op(<<"add", "{{", "body.mail", "}}">>, "application/json" :> Ref("Pet"),
                              ("201" :> Negotiated(Ref("Pet"), Ref("Error")) @@ "default" :> Json(Ref("Error"))))]],
        [path |-> <<Lit("pets"), Lit("mine")>>,
         ops |-> [GET |-> Op(<<>>, Empty, ("202" :> Json(Ref("Pet")) @@ "206" :> Json(Ref("Pets"))))]],
        [path |-> <<Lit("pets"), Var("id")>>,
         ops |-> [GET |-> Op(<<"show", "{{", "path.id", "}}">>, Empty,
                             ("200" :> [content |-> "application/*" :> Ref("Pet") @@ "application/hal+json" :> Ref("Error"),
                                      schema |-> None]))]],
        [path |-> <<<<"mixed", "v{n}">>, Lit("pets")>>,
         ops |-> [GET |-> Op(<<>>, Empty, ("200" :> Json(Ref("Gone"))))]] >>]

RECURSIVE Nested(_)
Nested(n) == IF n = 0 THEN [type |-> "boolean"] ELSE [type |-> "array", items |-> Nested(n - 1)]

Shapes ==
  << [oneOf |-> <<[type |-> "integer", maximum |-> 5], String>>],
     [allOf |-> <<[type |-> "object"], Ref("Named")>>],
     [allOf |-> <<Ref("Pair"), Ref("Named")>>],
     [type |-> "array", items |-> [type |-> "number", maximum |-> 2], maxItems |-> 0],
     [type |-> "integer", maximum |-> 0],
     Nested(9),
     Nested(12),
     Ref("Node"),
     Object([kind |-> [enum |-> <<Str("a"), Whole(3)>>], gone |-> [const |-> Null]], {"kind"}) >>

ShapesDoc ==
  [marked |-> TRUE, components |-> Empty,
   definitions |-> [Named |-> [properties |-> [name |-> String], required |-> {"name"}],
                    Pair |-> Object([left |-> String], {"left"}),
                    Node |-> Object([next |-> Ref("Node")], {})],
   paths |-> << [path |-> <<Lit("pets"), Var("petId")>>,
                 ops |-> [GET |-> Op(<<"again">>, Empty, ("200" :> Plainly(String)))]] >>
             \o [i \in DOMAIN Shapes |->
                   [path |-> <<Lit("shapes"), Lit(ToString(i))>>,
                    ops |-> [GET |-> Op(<<>>, Empty, ("200" :> Plainly(Shapes[i])))]]]]

MCOpenAPI == {Pets, ShapesDoc, [Pets EXCEPT !.marked = FALSE]}

User == Obj([name |-> Str("ada"), age |-> Whole(36), score |-> [frac |-> 1],
             tags |-> [arr |-> <<Null, Whole(1)>>]])
Plain1 == Obj([name |-> Str("ada"), score |-> [frac |-> 1], tags |-> [arr |-> <<Whole(2), Whole(1)>>]])

Url(path, scheme, segs) == [path |-> path, raw |-> [scheme |-> scheme, segs |-> segs]]
Item(name, m, url, body, examples, items) ==
  [name |-> name, response |-> examples, item |-> items,
   request |-> [method |-> m, description |-> <<>>, url |-> url, body |-> body]]
Folder(items) == [name |-> <<"folder">>, response |-> <<>>, request |-> None, item |-> items]

Users ==
  [named |-> TRUE, item |->
    << Folder(<<Item(<<"tell", "{{", "body.name", "}}", "{{", "query.x">>, "POST",
                     Url(<<>>, FALSE, <<Var("baseUrl"), Lit("users")>>), Plain1,
                     <<[code |-> 404, body |-> Obj([error |-> Str("no")])],
                       [code |-> 201, body |-> Plain1]>>, <<>>)>>),
       Item(<<>>, "", Url(<<>>, TRUE, <<Lit("host"), Lit("pets"), Var("pet"), Lit("")>>), None,
            <<[code |-> 200, body |-> None]>>,
            <<Item(<<>>, "GET", Url(<<Var("user")>>, FALSE, <<>>), None, <<>>, <<>>)>>) >>]

Odd ==
  [named |-> TRUE, item |->
    << Item(<<>>, "POST", Url(<<Lit("users")>>, FALSE, <<>>), User, <<>>, <<>>),
       Item(<<>>, "PUT", Url(<<Lit("users")>>, FALSE, <<>>), User, <<>>, <<>>),
       Item(<<>>, "PUT", None, User, <<>>, <<>>),
       Item(<<>>, "PUT", Url(<<>>, TRUE, <<Lit("host")>>), User, <<>>, <<>>) >>]

MCPostman == {Users, Odd, [Users EXCEPT !.named = FALSE]}

MCOrders == LET keys == <<"202", "application/hal+json", "206", "application/problem+json">>
            IN  {keys, Reverse(keys)}

Call(m, path, body) == [method |-> m, path |-> [i \in DOMAIN path |-> Lit(path[i])], body |-> body,
                        query |-> "x" :> <<"y">>, headers |-> "auth" :> <<"secret">>, cookies |-> Empty]

MCCalls ==
  {Call("GET", <<"pets">>, None), Call("GET", <<"pets", "mine">>, None), Call("GET", <<"pets", "7">>, None),
   Call("GET", <<"v1", "pets">>, None), Call("GET", <<"7">>, None),
   Call("POST", <<"pets">>, None), Call("PUT", <<"users">>, User),
   Call("POST", <<"pets">>, Obj([id |-> Whole(8), mail |-> [str |-> <<"email">>]])),
   Call("POST", <<"pets">>, Obj([id |-> Whole(1), mail |-> [str |-> <<"email">>]])),
   Call("POST", <<"users">>,
        Obj([name |-> [str |-> <<"{{", "headers.auth", "}}">>], score |-> Whole(1), tags |-> [arr |-> <<>>]]))}
  \cup {Call("GET", <<"shapes", ToString(i)>>, None) : i \in DOMAIN Shapes}
=============================================================================
