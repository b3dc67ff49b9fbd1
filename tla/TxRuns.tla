------------------------------- MODULE TxRuns -------------------------------
(***************************************************************************)
(* The transaction helpers, pkg/util/tx/tx.go and app/infra/db.py, under   *)
(* callers that nest them in any way: a run opens a transaction, runs      *)
(* within it write rows, statements fail, connections are lost, and fn     *)
(* returns, fails or panics.  A nested run joins the transaction of the    *)
(* outer one in Go and opens a session of its own in Python.               *)
(***************************************************************************)
EXTENDS Integers, FiniteSets, Sequences, SequencesExt

CONSTANTS
    Actors,         \* requests being served
    Joins,          \* those of the Go server, whose nested runs join
    Strays,         \* those of them that also pass a context from outside
    Rows,
    MaxDepth,       \* runs an actor has open at a time
    Budgets         \* how many runs and statements each actor may begin

ASSUME TxAssumption ==
    /\ Strays \subseteq Joins /\ Joins \subseteq Actors
    /\ MaxDepth \in Nat /\ Budgets \subseteq [Actors -> Nat]

VARIABLES
    defaultDB,  \* has tx.Init been called
    stack,      \* per actor, the runs it is in, outermost first
    pending,    \* per actor, the statement it waits for
    left,       \* per actor, what is left of its budget
    work,       \* per actor, what its outermost run has written
    landed,     \* the writes the last step has committed
    said        \* how a run has just ended, if one has

vars == <<defaultDB, stack, pending, left, work, landed, said>>

(* A write is known by who makes it and when.  A run that joins holds no   *)
(* transaction of its own; its place on the stack stays empty.             *)
Write == [by : Actors, left : Nat, row : Rows]
Run == [state : {"open", "aborted", "lost"}, writes : SUBSET Write]
Opened == [state |-> "open", writes |-> {}]
NoStatement == [session |-> -1]

\* Mutant of Current: a nested run of Go begins a transaction of its own.
CurrentInnermost(a) == Len(stack[a])

(* The transaction tx.From and tx.session find, 0 where there is none. *)
Current(a) == IF a \in Joins /\ stack[a] # <<>> THEN 1 ELSE Len(stack[a])

(* Row locks: those of the transactions that are neither aborted nor lost. *)
Sessions == {<<a, i>> : a \in Actors, i \in 0..MaxDepth}
Holds(s, row) ==
    /\ s[2] \in DOMAIN stack[s[1]]
    /\ stack[s[1]][s[2]].state = "open"
    /\ \E w \in stack[s[1]][s[2]].writes : w.row = row
Waiting(a) == pending[a] # NoStatement
Waits(a) == <<a, pending[a].session>>
HeldBack(a) == {s \in Sessions \ {Waits(a)} : Waiting(a) /\ Holds(s, pending[a].row)}

(* A set of actors each of which waits for one of them; as PostgreSQL sees   *)
(* it, which knows of sessions that wait, and as it is.                      *)
RealNext(a) == {s[1] : s \in HeldBack(a)}
SeenNext(a) == {b \in RealNext(a) : Waiting(b) /\ Waits(b) \in HeldBack(a)}
Seen(S) == S # {} /\ \A a \in S : SeenNext(a) \cap S # {}
Unseen(S) ==
    /\ S # {} /\ \A a \in S : RealNext(a) \cap S # {}
    /\ \A T \in SUBSET S : ~Seen(T)

Init ==
    /\ defaultDB = FALSE
    /\ stack = [a \in Actors |-> <<>>]
    /\ pending = [a \in Actors |-> NoStatement]
    /\ left \in Budgets
    /\ work = [a \in Actors |-> {}]
    /\ landed = {}
    /\ said = "nothing"

(* A step that commits nothing and ends no run. *)
Quiet == landed' = {} /\ said' = "nothing"

(* tx.Init, once; the Python engine is made when the module is imported. *)
InitPool ==
    /\ ~defaultDB
    /\ defaultDB' = TRUE
    /\ Quiet
    /\ UNCHANGED <<stack, pending, left, work>>

(* Entering a run.  In Go the outermost one panics without a pool and may    *)
(* fail to begin; a Python session connects with its first statement.        *)
Begin(a) ==
    /\ pending[a] = NoStatement
    /\ Len(stack[a]) < MaxDepth
    /\ left[a] > 0
    /\ a \in Joins /\ stack[a] = <<>> => defaultDB
    /\ stack' = [stack EXCEPT ![a] = Append(@, Opened)]
    /\ left' = [left EXCEPT ![a] = @ - 1]
    /\ Quiet
    /\ UNCHANGED <<defaultDB, pending, work>>

NotBegun(a) ==
    /\ a \in Joins /\ stack[a] = <<>> /\ pending[a] = NoStatement
    /\ said' = "error"
    /\ landed' = {}
    /\ UNCHANGED <<defaultDB, stack, pending, left, work>>

(* A repository sends a statement, on the transaction it finds or, where its *)
(* caller passed a context from outside the run, on the pool.                *)
Issue(a, row) ==
    /\ pending[a] = NoStatement
    /\ left[a] > 0
    /\ a \in Joins => defaultDB
    /\ \E session \in {Current(a)} \cup (IF a \in Strays THEN {0} ELSE {}) :
            pending' = [pending EXCEPT ![a] = [session |-> session, row |-> row]]
    /\ left' = [left EXCEPT ![a] = @ - 1]
    /\ Quiet
    /\ UNCHANGED <<defaultDB, stack, work>>

\* Mutant of PoolCommits: the session Python makes outside a run commits.
PoolCommitsAll(a) == TRUE

PoolCommits(a) == a \in Joins

(* It takes effect when no other transaction holds the row.  The pool of Go  *)
(* commits at once; the session Python makes outside a run never commits.    *)
(* That it is rolled back, and its row let go of, when Python collects it,   *)
(* by its count of references as the repository's method returns, is taken   *)
(* to be at once.                                                            *)
Perform(a) ==
    /\ Waiting(a)
    /\ HeldBack(a) = {}
    /\ LET s == pending[a].session
           w == [by |-> a, left |-> left[a], row |-> pending[a].row]
       IN  \/ /\ s = 0
              /\ landed' = IF PoolCommits(a) THEN {w} ELSE {}
              /\ UNCHANGED <<stack, work>>
           \/ /\ s # 0
              /\ stack[a][s].state = "open"
              /\ stack' = [stack EXCEPT ![a][s].writes = @ \cup {w}]
              /\ work' = [work EXCEPT ![a] = @ \cup {w}]
              /\ landed' = {}
    /\ pending' = [pending EXCEPT ![a] = NoStatement]
    /\ said' = "nothing"
    /\ UNCHANGED <<defaultDB, left>>

(* Or it fails, and with it the transaction: a constraint, a deadlock, or a  *)
(* transaction that has failed before.  What fn makes of it is fn's own.     *)
Fail(a) ==
    /\ Waiting(a)
    /\ LET s == pending[a].session
       IN  stack' = IF s = 0 \/ stack[a][s].state # "open" THEN stack
                    ELSE [stack EXCEPT ![a][s].state = "aborted"]
    /\ pending' = [pending EXCEPT ![a] = NoStatement]
    /\ Quiet
    /\ UNCHANGED <<defaultDB, left, work>>

\* Mutant of MustFail: a statement on a connection that is gone never returns.
MustFailDeadlock(a) ==
    /\ HeldBack(a) # {} /\ \E S \in SUBSET Actors : a \in S /\ Seen(S)
    /\ Fail(a)

(* What must fail, or is chosen by PostgreSQL to end a deadlock. *)
MustFail(a) ==
    /\ \/ HeldBack(a) # {} /\ \E S \in SUBSET Actors : a \in S /\ Seen(S)
       \/ pending[a].session > 0 /\ stack[a][pending[a].session].state # "open"
    /\ Fail(a)

(* The connection of a transaction is lost; the database rolls it back. *)
Lose(a) ==
    /\ \E i \in DOMAIN stack[a] :
          /\ stack[a][i].state = "open" /\ (a \in Joins => i = 1)
          /\ stack' = [stack EXCEPT ![a][i].state = "lost"]
    /\ Quiet
    /\ UNCHANGED <<defaultDB, pending, left, work>>

(* fn returns.  A joined run returns what fn did.  Commit may fail, or        *)
(* succeed and its answer be lost; on an aborted transaction it rolls back,   *)
(* which pgx reports and psycopg does not.                                    *)
Leave(a, how) ==
    /\ stack' = [stack EXCEPT ![a] = Front(@)]
    /\ work' = [work EXCEPT ![a] = IF Len(stack[a]) = 1 THEN {} ELSE @]
    /\ said' = how

Owned(a) == Current(a) = Len(stack[a])

Leaving(a) == pending[a] = NoStatement /\ stack[a] # <<>>

\* Mutant of Commit: what Commit reports is not looked at.
CommitUnchecked(a) ==
    LET run == Last(stack[a])
    IN  \/ run.state = "open" /\ landed' = run.writes /\ Leave(a, "ok")
        \/ landed' = {} /\ Leave(a, "ok")

Commit(a) ==
    LET run == Last(stack[a])
    IN  \/ run.state = "open" /\ landed' = run.writes /\ Leave(a, "ok")
        \/ run.state = "open" /\ landed' = run.writes /\ Leave(a, "error")
        \/ landed' = {} /\ Leave(a, "error")
        \/ run.state = "aborted" /\ a \notin Joins /\ landed' = {} /\ Leave(a, "ok")

Return(a) ==
    /\ Leaving(a)
    /\ IF Owned(a) THEN Commit(a) ELSE landed' = {} /\ Leave(a, "ok")
    /\ UNCHANGED <<defaultDB, pending, left>>

(* fn fails or panics: its transaction is rolled back, if it has one. *)
Raise(a) ==
    /\ Leaving(a)
    /\ Leave(a, "error")
    /\ landed' = {}
    /\ UNCHANGED <<defaultDB, pending, left>>

Step(a) ==
    \/ Begin(a) \/ NotBegun(a) \/ \E row \in Rows : Issue(a, row)
    \/ Perform(a) \/ Fail(a) \/ Lose(a) \/ Return(a) \/ Raise(a)

Next == InitPool \/ \E a \in Actors : Step(a)

(* PostgreSQL executes what it can and ends the deadlocks it sees; fn ends. *)
Fairness ==
    \A a \in Actors : WF_vars(Perform(a) \/ MustFail(a) \/ Return(a) \/ Raise(a))

Spec == Init /\ [][Next]_vars /\ Fairness

-----------------------------------------------------------------------------
TypeOK ==
    /\ defaultDB \in BOOLEAN
    /\ stack \in [Actors -> Seq(Run)]
    /\ \A a \in Actors : Len(stack[a]) <= MaxDepth
    /\ pending \in [Actors -> {NoStatement} \cup [session : Nat, row : Rows]]
    /\ \A a \in Actors : Waiting(a) => pending[a].session \in {0, Current(a)}
    /\ left \in [Actors -> Nat]
    /\ work \in [Actors -> SUBSET Write]
    /\ landed \subseteq Write
    /\ said \in {"nothing", "ok", "error"}

(* Until the outermost run of a Go request ends, none of what was written in *)
(* it, at whatever depth, has landed, and its transaction holds all of it.   *)
HeldTogether ==
    \A a \in Joins : stack[a] # <<>> =>
        stack[a][1].writes = work[a]

(* Every state is well typed, and a nested run of Go has joined.             *)
Inv == TypeOK /\ HeldTogether

(* tx.Run (tx.go:26-30): when it ends, all that was written in it through its *)
(* context has landed or none has, nested runs that failed included, and all  *)
(* if it returned nil.                                                        *)
AllOrNothing ==
    [][\A a \in Joins : stack[a] # <<>> /\ stack'[a] = <<>> =>
          \/ work[a] \subseteq landed'
          \/ work[a] \cap landed' = {} /\ said' = "error"]_vars

(* A write lands only with the end of the run it was made in, in Python the   *)
(* innermost: a nested run that commits keeps its writes when the outer one   *)
(* rolls back.  What Python writes outside a run never lands.                 *)
Ending(a) == {i \in DOMAIN stack[a] : i > Len(stack'[a])}
LandsWithItsRun ==
    [][\A w \in landed' \ landed :
          \/ \E i \in Ending(w.by) : w \in stack[w.by][i].writes
          \/ w.by \in Joins /\ pending[w.by].session = 0]_vars

(* Go requests that pass on the context they were given never wait for each    *)
(* other for ever: where PostgreSQL does not see that requests do, there is a   *)
(* nested run of Python among them, or a context from outside.                  *)
TwoSessions(a) == a \in Strays \/ (a \notin Joins /\ Len(stack[a]) > 1)
HangsWithTwoSessions ==
    \A S \in SUBSET Actors : Unseen(S) => \E a \in S : TwoSessions(a)

(* Every run ends, unless its statement waits, directly or not, for requests   *)
(* that wait for each other unseen.                                            *)
Hangs(a) == \E S \in SUBSET Actors : a \in S /\ Unseen(S)
RunsEnd == \A a \in Actors : stack[a] # <<>> ~> stack[a] = <<>> \/ Hangs(a)
=============================================================================
