------------------------------- MODULE MCAccess -------------------------------
(* Two spellings of one address, a second one and one that is not valid, a  *)
(* key secret listed under two names, and configurations with auth off, on, *)
(* and on with no JWT secret.  Other holders of the secret signed a token   *)
(* of a service, without expiry, and tokens of accounts: one whose subject  *)
(* is no UUID, one of the legacy account, one of the nil UUID and one of an *)
(* account that may never register.                                         *)
EXTENDS Access, TLC

CONSTANTS k, w, t1, t2, x1, x2, x3, x4, x5, a1, a2

MCConfigs ==
  { [auth |-> FALSE, secret |-> "s", keys |-> {}, workspaces |-> {}],
    [auth |-> TRUE, secret |-> "s", keys |-> {<<"dev", k>>, <<"ci", k>>},
     workspaces |-> {<<"team", w>>}],
    [auth |-> TRUE, secret |-> None, keys |-> {}, workspaces |-> {<<"team", w>>}] }

Signed(kind, sub, exp) ==
  [secret |-> "s", issuer |-> "mocksvr", kind |-> kind, sub |-> sub, exp |-> exp]

MCForeign ==
  x1 :> Signed("service", "partner", 0) @@ x2 :> Signed("account", "partner", 3) @@
  x3 :> Signed("account", Legacy, 3) @@ x4 :> Signed("account", Nil, 2) @@
  x5 :> Signed("account", a1, 3)

MCCanonical == [raw \in {"Ada@x.io", "ada@x.io", "bob@x.io", "bob"} |->
                  IF raw = "Ada@x.io" THEN "ada@x.io" ELSE raw]

\* No guard and no invariant reads the history variable: states that differ in
\* it only are one, and OnlyOwnersWrite is still checked on every step.
View == <<config, keyName, tokens, accounts, rows, clock>>

Symmetry == Permutations({t1, t2})
=============================================================================
