----------------------------- MODULE MCMockRequest -----------------------------
(* Four writes of one endpoint: public and free, private with the first     *)
(* schema as its request contract and failures in one percent of requests,  *)
(* public with the second and connections dropped in all but one percent,   *)
(* and one that only asks for a latency, at the rate that means always.     *)
(* The two schemas accept different documents, a third one is accepted by   *)
(* neither, and what the faker makes of the first may be that one.  Callers *)
(* send each of them or nothing, with and without an identity.  One         *)
(* goroutine serves any number of requests, one at a time: requests share   *)
(* nothing but the validator's cache, which is locked.                      *)
EXTENDS MockRequest

CONSTANTS d1, d2, junk

Sim(rate, status, drop) ==
  [rate |-> rate, status |-> status, drop |-> drop, timeout |-> FALSE, malformed |-> FALSE]

MCVersions ==
  << [schema |-> "s1", request |-> NoSchema, sim |-> NoSim, public |-> TRUE],
     [schema |-> "s2", request |-> "s1", sim |-> Sim(1, 503, FALSE), public |-> FALSE],
     [schema |-> "s1", request |-> "s2", sim |-> Sim(99, 0, TRUE), public |-> TRUE],
     [schema |-> "s2", request |-> NoSchema, sim |-> Sim(0, 0, FALSE), public |-> TRUE] >>

MCInputs == [body : {d1, Empty}, identity : {FALSE}] \cup [body : {d1, d2, junk}, identity : {TRUE}]

MCAccepts == [s \in {"s1", "s2"} |-> IF s = "s1" THEN {d1} ELSE {d2}]
MCFills == [s \in {"s1", "s2"} |-> IF s = "s1" THEN {d1, junk} ELSE {d2}]
=============================================================================
