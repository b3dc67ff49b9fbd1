--------------------------- MODULE ApplyMigrations ---------------------------
(***************************************************************************)
(* tools/apply-migrations.py, which every container of the Python stack    *)
(* runs before it serves.  Containers start together, are killed at any    *)
(* step and started again; the database may be out of reach.  Nothing is   *)
(* locked: what keeps two containers from applying one file twice is that  *)
(* the file and its row in _mss_migrations are one transaction.            *)
(***************************************************************************)
EXTENDS Naturals, FiniteSets

CONSTANTS
    Replicas,   \* containers
    Files,      \* the migration files, numbered in the order of their names
    Image,      \* Image[r]: the files in the image of r
    Broken,     \* files with a statement the database never accepts
    MaxTries,   \* how often the runner tries to connect (30 in the code)
    MaxFaults   \* bound of the kills and outages of a behaviour

\* An image is built from a state of the repository: it has the files up to one.
ASSUME ImageAssumption ==
    /\ Files \subseteq Nat \ {0}
    /\ Image \in [Replicas -> SUBSET Files]
    /\ \A r \in Replicas : \A k \in Image[r] : \A j \in Files :
            j < k => j \in Image[r]
    /\ Broken \subseteq Files
    /\ MaxTries \in Nat \ {0}
    /\ MaxFaults \in Nat

VARIABLES
    up,         \* the database can be reached
    log,        \* _mss_migrations exists
    recorded,   \* its rows: the files that have been applied
    times,      \* times[k]: how often the statements of k have taken effect
    pc,         \* pc[r]: where container r is
    tries,      \* tries[r]: attempts to connect
    done,       \* done[r]: the rows r has read
    at,         \* at[r]: the file r has come to
    faults      \* kills and outages so far

dbVars == <<up, log, recorded, times>>
vars   == <<dbVars, pc, tries, done, at, faults>>

Init ==
    /\ up = TRUE
    /\ log = FALSE
    /\ recorded = {}
    /\ times = [k \in Files |-> 0]
    /\ pc = [r \in Replicas |-> "off"]
    /\ tries = [r \in Replicas |-> 0]
    /\ done = [r \in Replicas |-> {}]
    /\ at = [r \in Replicas |-> 0]
    /\ faults = 0

Goto(r, l) == pc' = [pc EXCEPT ![r] = l]

-----------------------------------------------------------------------------
(* Connecting.                                                             *)

\* The container is started: for the first time, or after it ended.
Start(r) ==
    /\ pc[r] \in {"off", "failed"}
    /\ Goto(r, "connect")
    /\ tries' = [tries EXCEPT ![r] = 0]
    /\ done' = [done EXCEPT ![r] = {}]
    /\ at' = [at EXCEPT ![r] = 0]
    /\ UNCHANGED <<dbVars, faults>>

Connect(r) ==
    /\ pc[r] = "connect"
    /\ \/ up /\ Goto(r, "create") /\ UNCHANGED tries
       \/ /\ ~up
          /\ tries' = [tries EXCEPT ![r] = @ + 1]
          /\ IF tries[r] + 1 = MaxTries THEN Goto(r, "failed") ELSE UNCHANGED pc
    /\ UNCHANGED <<dbVars, done, at, faults>>

-----------------------------------------------------------------------------
(* One transaction: CREATE TABLE IF NOT EXISTS, then SELECT.  IF NOT EXISTS *)
(* does not see a table another transaction has not committed; it waits    *)
(* for that one, and fails if it commits.                                  *)

Creating(r) == pc[r] = "created"

CreateLog(r) ==
    /\ pc[r] = "create" /\ up
    /\ \/ log /\ Goto(r, "select")
       \/ ~log /\ (\A q \in Replicas : ~Creating(q)) /\ Goto(r, "created")
       \/ ~log /\ (\E q \in Replicas : Creating(q)) /\ Goto(r, "waiting")
    /\ UNCHANGED <<dbVars, tries, done, at, faults>>

Waited(r) ==
    /\ pc[r] = "waiting" /\ up
    /\ \A q \in Replicas : ~Creating(q)
    /\ IF log THEN Goto(r, "failed") ELSE Goto(r, "created")
    /\ UNCHANGED <<dbVars, tries, done, at, faults>>

ReadLog(r) ==
    /\ pc[r] \in {"created", "select"} /\ up
    /\ log' = TRUE
    /\ done' = [done EXCEPT ![r] = recorded]
    /\ Goto(r, "next")
    /\ UNCHANGED <<up, recorded, times, tries, at, faults>>

-----------------------------------------------------------------------------
(* One transaction per file that was not in the log when it was read.      *)

\* Mutant of Todo: what has been read is not looked at.
TodoAll(r) == {k \in Image[r] : k > at[r]}

Todo(r) == {k \in Image[r] : k > at[r] /\ k \notin done[r]}

\* Mutant of IsNext: the files are not sorted.
IsNextUnsorted(r, k) == k \in Todo(r)

IsNext(r, k) == k \in Todo(r) /\ \A j \in Todo(r) : k <= j

\* Mutant of Exec: a file that fails is passed over.
ExecPassing(r) ==
    /\ pc[r] = "next" /\ up
    /\ \E k \in Image[r] :
        /\ IsNext(r, k)
        /\ ~\E q \in Replicas : pc[q] = "commit" /\ at[q] = k
        /\ at' = [at EXCEPT ![r] = k]
        /\ IF k \in recorded \cup Broken THEN UNCHANGED pc ELSE Goto(r, "commit")
    /\ UNCHANGED <<dbVars, tries, done, faults>>

\* The statements and the row in the log.  Where another container has done
\* as much and not committed, this one waits; where it has committed, the
\* statements fail, or if they can be repeated, the row's key does.
Exec(r) ==
    /\ pc[r] = "next" /\ up
    /\ \E k \in Image[r] :
        /\ IsNext(r, k)
        /\ ~\E q \in Replicas : pc[q] = "commit" /\ at[q] = k
        /\ IF k \in recorded \cup Broken
           THEN Goto(r, "failed") /\ UNCHANGED at
           ELSE Goto(r, "commit") /\ at' = [at EXCEPT ![r] = k]
    /\ UNCHANGED <<dbVars, tries, done, faults>>

\* Mutant of Commit: the row is left to a transaction of its own, and lost.
CommitUnrecorded(r) ==
    /\ pc[r] = "commit" /\ up
    /\ times' = [times EXCEPT ![at[r]] = @ + 1]
    /\ Goto(r, "next")
    /\ UNCHANGED <<up, log, recorded, tries, done, at, faults>>

Commit(r) ==
    /\ pc[r] = "commit" /\ up
    /\ times' = [times EXCEPT ![at[r]] = @ + 1]
    /\ recorded' = recorded \cup {at[r]}
    /\ Goto(r, "next")
    /\ UNCHANGED <<up, log, tries, done, at, faults>>

\* "migrations up to date"; the API server is started.
Finish(r) ==
    /\ pc[r] = "next" /\ Todo(r) = {}
    /\ Goto(r, "serving")
    /\ UNCHANGED <<dbVars, tries, done, at, faults>>

-----------------------------------------------------------------------------
(* Faults.  A transaction that has not committed is rolled back.           *)

\* A statement does not reach the database: an exception ends the runner.
Lose(r) ==
    /\ ~up
    /\ pc[r] \in {"create", "waiting", "created", "select", "next", "commit"}
    /\ pc[r] = "next" => Todo(r) # {}
    /\ Goto(r, "failed")
    /\ UNCHANGED <<dbVars, tries, done, at, faults>>

Kill(r) ==
    /\ faults < MaxFaults
    /\ pc[r] \notin {"off", "failed"}
    /\ Goto(r, "off")
    /\ faults' = faults + 1
    /\ UNCHANGED <<dbVars, tries, done, at>>

Outage ==
    /\ faults < MaxFaults
    /\ up
    /\ up' = FALSE
    /\ faults' = faults + 1
    /\ UNCHANGED <<log, recorded, times, pc, tries, done, at>>

Recover ==
    /\ ~up
    /\ up' = TRUE
    /\ UNCHANGED <<log, recorded, times, pc, tries, done, at, faults>>

Runner(r) ==
    \/ Start(r)
    \/ Connect(r)
    \/ CreateLog(r)
    \/ Waited(r)
    \/ ReadLog(r)
    \/ Exec(r)
    \/ Commit(r)
    \/ Finish(r)
    \/ Lose(r)

Next ==
    \/ \E r \in Replicas : Runner(r) \/ Kill(r)
    \/ Outage
    \/ Recover

Spec == Init /\ [][Next]_vars

\* A container goes on, and one that has ended is started again; the database
\* comes back.
FairSpec == Spec /\ (\A r \in Replicas : WF_vars(Runner(r))) /\ WF_vars(Recover)

-----------------------------------------------------------------------------
Labels == {"off", "connect", "create", "waiting", "created", "select", "next",
           "commit", "serving", "failed"}

TypeOK ==
    /\ up \in BOOLEAN
    /\ log \in BOOLEAN
    /\ recorded \subseteq Files
    /\ times \in [Files -> Nat]
    /\ pc \in [Replicas -> Labels]
    /\ tries \in [Replicas -> Nat]
    /\ done \in [Replicas -> SUBSET Files]
    /\ at \in [Replicas -> Files \cup {0}]
    /\ faults \in Nat

\* A file has taken effect as often as it is in the log: never by half, and
\* no more than once, whichever containers were killed between its statements
\* and their commit (apply-migrations.py:54-57).
LogTellsEffects == \A k \in Files : times[k] = IF k \in recorded THEN 1 ELSE 0

\* One container at most is between creating the log and committing it, and
\* none takes the log to exist before it does.
OneCreates ==
    \A q, r \in Replicas :
        /\ Creating(q) => ~log /\ (Creating(r) => q = r)
        /\ pc[r] = "select" => log

\* What a container has read of the log, and the files it has come past, stay
\* applied; the file it is about to commit is nobody else's, and the next one.
InStep ==
    \A r \in Replicas :
        /\ done[r] \subseteq recorded
        /\ pc[r] \in {"connect", "create", "waiting", "created", "select"} => at[r] = 0
        /\ pc[r] = "next" => \A j \in Image[r] : j <= at[r] => j \in recorded
        /\ pc[r] = "commit" =>
            /\ at[r] \in Image[r] \ recorded
            /\ \A j \in Image[r] : j < at[r] => j \in recorded
            /\ \A q \in Replicas : pc[q] = "commit" /\ at[q] = at[r] => q = r

\* A container serves only on a database that has every migration its image
\* was built for, although it never looks at the log again.
ServesMigrated == \A r \in Replicas : pc[r] = "serving" => Image[r] \subseteq recorded

\* The inductive invariant.
Inv == TypeOK /\ LogTellsEffects /\ OneCreates /\ InStep

\* Several containers, killed and restarted at any step, apply the files as one
\* would that is never killed: once each, in the order of their names.
Log == INSTANCE MigrationLog
Sequential == Log!Spec

\* As long as containers that end are started again, each whose files are sound
\* comes to serve, the ones included that lost a race or the database.
AllServe ==
    \A r \in Replicas :
        Image[r] \cap Broken = {} => <>[](pc[r] = "serving")
=============================================================================
