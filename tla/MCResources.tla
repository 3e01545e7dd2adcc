----------------------------- MODULE MCResources -----------------------------
(* Two clients, two ids of which one is issued by the server, documents    *)
(* with an id of either type, a scalar and a nested object.                *)
EXTENDS Resources

S(t) == <<"string", t>>
N(t) == <<"number", t>>
Doc(paths, f(_)) == [p \in paths |-> f(p)]

MCPaths == {<<"id">>, <<"b">>, <<"b", "x">>, <<"b", "y">>}
MCLeaves == {S("1"), N("1"), S("u")}
MCBodies ==
  { Doc({}, LAMBDA p : S("u")),
    Doc({<<"id">>, <<"b">>}, LAMBDA p : N("1")),
    Doc({<<"id">>, <<"b", "y">>}, LAMBDA p : S("u")),
    Doc({<<"b", "x">>}, LAMBDA p : S("u")) }
=============================================================================
