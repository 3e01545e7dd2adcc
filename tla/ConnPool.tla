------------------------------ MODULE ConnPool ------------------------------
(***************************************************************************)
(* The database connections of one server process.  database.go limits the *)
(* pool to ten; a goroutine that finds none free waits, without a deadline *)
(* (no request context has one).  Repository.WithTx takes a connection for *)
(* its transaction and keeps it while the callback runs; the callback's    *)
(* statements go to the pool again (repository.go:72-86), so a goroutine   *)
(* inside WithTx needs a second connection for each of them.               *)
(***************************************************************************)
EXTENDS Naturals, FiniteSets

CONSTANTS
  Writers,  \* goroutines that run WithTx: create, update, rollback, import
  Others,   \* goroutines that run single statements: every other query
  MaxOpen,  \* SetMaxOpenConns
  Nested    \* most statements of one WithTx callback (an import's length)

ASSUME PoolAssumption == /\ MaxOpen \in Nat \ {0}
                         /\ Nested \in Nat \ {0}
                         /\ IsFiniteSet(Writers) /\ IsFiniteSet(Others)
                         /\ Writers \cap Others = {}

VARIABLES
  at,    \* what each goroutine is doing
  left   \* statements a writer's callback still has to run

vars == <<at, left>>

Goroutines == Writers \cup Others

\* "begin" and "wait" wait for a connection; "tx" is between two statements
\* of a callback, "more" waits for the connection of the next one, "run"
\* executes a statement.
States == {"idle", "begin", "tx", "more", "wait", "run"}

Init == /\ at = [g \in Goroutines |-> "idle"]
        /\ left = [w \in Writers |-> 0]

\* The connections in use: one per open transaction, one per statement.
InTx    == {w \in Writers : at[w] \in {"tx", "more", "run"}}
Running == {g \in Goroutines : at[g] = "run"}
InUse   == Cardinality(InTx) + Cardinality(Running)

\* Mutant of Free: one connection fewer than the writers need.
FreeOfFewer == InUse < MaxOpen - 1

Free == InUse < MaxOpen

Move(g, from, to) == at[g] = from /\ at' = [at EXCEPT ![g] = to]

-----------------------------------------------------------------------------
\* A request reaches WithTx, with this many statements to run in it.
Enter(w) == /\ Move(w, "idle", "begin")
            /\ \E n \in 1 .. Nested : left' = [left EXCEPT ![w] = n]

\* RunInTx: BEGIN on a connection of its own.
BeginTx(w) == Free /\ Move(w, "begin", "tx") /\ UNCHANGED left

\* Mutant of NextStatement: the callback's loop runs once more.
NextStatementOvershoots(w) == Move(w, "tx", "more") /\ UNCHANGED left

\* The callback calls the repository, which asks the pool.
NextStatement(w) == left[w] > 0 /\ Move(w, "tx", "more") /\ UNCHANGED left

Execute(w) == Free /\ Move(w, "more", "run") /\ UNCHANGED left

\* Mutant of Executed: a failed statement is tried again, and again.
ExecutedRetries(w) == /\ Move(w, "run", "tx")
                      /\ left' \in {left, [left EXCEPT ![w] = @ - 1]}

\* The statement's connection goes back to the pool; after an error the
\* callback returns and no statement is left.
Executed(w) == /\ Move(w, "run", "tx")
               /\ left' \in {[left EXCEPT ![w] = @ - 1], [left EXCEPT ![w] = 0]}

\* COMMIT or ROLLBACK on the transaction's connection.
EndTx(w) == left[w] = 0 /\ Move(w, "tx", "idle") /\ UNCHANGED left

\* Any other statement: wait, run, give the connection back.
Ask(o)   == Move(o, "idle", "wait") /\ UNCHANGED left
Query(o) == Free /\ Move(o, "wait", "run") /\ UNCHANGED left
Done(o)  == Move(o, "run", "idle") /\ UNCHANGED left

\* The steps that take a connection, and those that need none.
Take(g) == \/ g \in Writers /\ (BeginTx(g) \/ Execute(g))
           \/ g \in Others /\ Query(g)

Proceed(g) == \/ g \in Writers /\ (NextStatement(g) \/ Executed(g) \/ EndTx(g))
              \/ g \in Others /\ Done(g)

Next == \/ \E w \in Writers : Enter(w)
        \/ \E o \in Others : Ask(o)
        \/ \E g \in Goroutines : Take(g) \/ Proceed(g)

Spec == Init /\ [][Next]_vars

\* Goroutines run; database/sql hands a freed connection to one of the
\* waiting requests, passing over none of them forever.
Fairness == \A g \in Goroutines : /\ WF_vars(Proceed(g))
                                  /\ SF_vars(Take(g))

FairSpec == Spec /\ Fairness

-----------------------------------------------------------------------------
TypeOK == /\ at \in [Goroutines -> States]
          /\ left \in [Writers -> 0 .. Nested]

\* The pool is never exhausted by transactions that all wait for a second
\* connection: whenever every connection is taken, some statement is running
\* and will give its connection back.  ("Implementations must bind the
\* transaction to ctx so nested repository calls participate in it",
\* repository.go:41-42.)
SomebodyRuns == ~Free => Running # {} \/ \E w \in InTx : at[w] = "tx"

\* Nobody waits for a connection forever: every request ends.
RequestsEnd == \A g \in Goroutines : at[g] # "idle" ~> at[g] = "idle"
=============================================================================
