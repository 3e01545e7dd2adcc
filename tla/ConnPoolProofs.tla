---------------------------- MODULE ConnPoolProofs ----------------------------
(***************************************************************************)
(* Proofs about ConnPool, for every number of goroutines and connections.  *)
(*                                                                         *)
(* That some holder of a connection can go on is a matter of counting: as  *)
(* long as fewer goroutines are in WithTx than there are connections, a    *)
(* pool without a free one has a statement running.                        *)
(***************************************************************************)
EXTENDS ConnPool, FiniteSetTheorems, TLAPS

\* A callback that asks for a connection has a statement to run.
StatementLeft == \A w \in Writers : at[w] \in {"more", "run"} => left[w] > 0

IInv == TypeOK /\ StatementLeft

LEMMA MoveType ==
  ASSUME TypeOK, NEW g \in Goroutines, NEW from, NEW to \in States, Move(g, from, to)
  PROVE  /\ at' \in [Goroutines -> States]
         /\ at'[g] = to
         /\ \A o \in Goroutines \ {g} : at'[o] = at[o]
BY DEF TypeOK, Move

LEMMA InitIInv == Init => IInv
BY PoolAssumption DEF Init, IInv, TypeOK, StatementLeft, States, Goroutines

LEMMA WriterKeeps ==
  ASSUME IInv, NEW w \in Writers,
         \/ Enter(w) \/ BeginTx(w) \/ NextStatement(w) \/ Execute(w)
         \/ Executed(w) \/ EndTx(w)
  PROVE  IInv'
<1>1. w \in Goroutines /\ TypeOK /\ left[w] \in 0..Nested
  BY DEF Goroutines, IInv, TypeOK
<1>2. CASE Enter(w)
  <2>1. PICK n \in 1..Nested : left' = [left EXCEPT ![w] = n]
    BY <1>2 DEF Enter
  <2>2. at'[w] = "begin" /\ at' \in [Goroutines -> States]
        /\ \A o \in Goroutines \ {w} : at'[o] = at[o]
    BY <1>1, <1>2, MoveType DEF Enter, States
  <2>3. n \in 0..Nested
    BY PoolAssumption
  <2> QED
    BY <2>1, <2>2, <2>3 DEF IInv, TypeOK, StatementLeft, Goroutines
<1>3. ASSUME NEW from, NEW to \in States, Move(w, from, to), UNCHANGED left,
             to \in {"more", "run"} => left[w] > 0
      PROVE  IInv'
  <2>1. at'[w] = to /\ at' \in [Goroutines -> States]
        /\ \A o \in Goroutines \ {w} : at'[o] = at[o]
    BY <1>1, <1>3, MoveType
  <2> QED
    BY <1>3, <2>1 DEF IInv, TypeOK, StatementLeft, Goroutines
<1>4. CASE BeginTx(w) \/ NextStatement(w) \/ EndTx(w)
  BY <1>3, <1>4 DEF BeginTx, NextStatement, EndTx, States
<1>5. CASE Execute(w)
  <2>1. left[w] > 0
    BY <1>5 DEF Execute, Move, IInv, StatementLeft
  <2> QED
    BY <1>3, <1>5, <2>1 DEF Execute, States
<1>6. CASE Executed(w)
  <2>1. at'[w] = "tx" /\ at' \in [Goroutines -> States]
        /\ \A o \in Goroutines \ {w} : at'[o] = at[o]
    BY <1>1, <1>6, MoveType DEF Executed, States
  <2>2. left[w] - 1 \in 0..Nested /\ 0 \in 0..Nested
    BY <1>1, <1>6, PoolAssumption DEF Executed, Move, IInv, StatementLeft
  <2>3. left' = [left EXCEPT ![w] = left[w] - 1] \/ left' = [left EXCEPT ![w] = 0]
    BY <1>6 DEF Executed
  <2>4. left' \in [Writers -> 0..Nested] /\ \A o \in Writers \ {w} : left'[o] = left[o]
    BY <2>2, <2>3 DEF IInv, TypeOK
  <2> QED
    BY <2>1, <2>4 DEF IInv, TypeOK, StatementLeft, Goroutines
<1> QED
  BY <1>2, <1>4, <1>5, <1>6

LEMMA OtherKeeps ==
  ASSUME IInv, NEW o \in Others, Ask(o) \/ Query(o) \/ Done(o)
  PROVE  IInv'
<1>1. o \in Goroutines /\ o \notin Writers
  BY PoolAssumption DEF Goroutines
<1>2. /\ UNCHANGED left
      /\ at' \in [Goroutines -> States]
      /\ \A g \in Goroutines \ {o} : at'[g] = at[g]
  BY <1>1, MoveType DEF IInv, Ask, Query, Done, States
<1> QED
  BY <1>1, <1>2 DEF IInv, TypeOK, StatementLeft, Goroutines

LEMMA Invariance == Spec => []IInv
<1>1. Init => IInv
  BY InitIInv
<1>2. IInv /\ [Next]_vars => IInv'
  <2> SUFFICES ASSUME IInv, [Next]_vars PROVE IInv'
    OBVIOUS
  <2>1. ASSUME NEW w \in Writers, Enter(w) PROVE IInv'
    BY <2>1, WriterKeeps
  <2>2. ASSUME NEW o \in Others, Ask(o) PROVE IInv'
    BY <2>2, OtherKeeps
  <2>3. ASSUME NEW g \in Goroutines, Take(g) \/ Proceed(g) PROVE IInv'
    BY <2>3, WriterKeeps, OtherKeeps DEF Take, Proceed
  <2>4. CASE UNCHANGED vars
    BY <2>4 DEF vars, IInv, TypeOK, StatementLeft
  <2> QED
    BY <2>1, <2>2, <2>3, <2>4 DEF Next
<1> QED
  BY <1>1, <1>2, PTL DEF Spec

-----------------------------------------------------------------------------
\* Goroutines are where the code can be, and no callback runs more statements
\* than it has (internal/endpoint/repository.go:72-86).
THEOREM TypeCorrect == Spec => []TypeOK
<1>1. IInv => TypeOK
  BY DEF IInv
<1> QED
  BY <1>1, Invariance, PTL

\* While fewer goroutines are in WithTx than the pool has connections, an
\* exhausted pool has a statement running, whatever else asks for connections:
\* transactions alone cannot block one another (internal/database/database.go:26,
\* internal/endpoint/repository.go:72-86).  With as many, run pool_full shows
\* that they can.
THEOREM NoStarvation ==
  ASSUME Cardinality(Writers) < MaxOpen
  PROVE  Spec => []SomebodyRuns
<1>1. SomebodyRuns
  <2> SUFFICES ASSUME Running = {} PROVE Free
    BY DEF SomebodyRuns
  <2>1. InTx \subseteq Writers
    BY DEF InTx
  <2>2. /\ Cardinality(InTx) \in Nat /\ Cardinality(Writers) \in Nat
        /\ Cardinality(InTx) <= Cardinality(Writers)
    BY <2>1, PoolAssumption, FS_Subset, FS_CardinalityType
  <2>3. Cardinality(Running) = 0
    BY FS_EmptySet
  <2> QED
    BY <2>2, <2>3, PoolAssumption DEF Free, InUse
<1> QED
  BY <1>1, PTL
=============================================================================
