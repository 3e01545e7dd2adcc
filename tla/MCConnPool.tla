----------------------------- MODULE MCConnPool -----------------------------
(* The pool with fewer goroutines in WithTx than connections, and with as  *)
(* many.                                                                   *)
EXTENDS ConnPool

Few  == {"w1", "w2"}
Many == {"w1", "w2", "w3"}
=============================================================================
