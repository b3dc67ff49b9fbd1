---------------------------- MODULE MigrationRuns ----------------------------
(***************************************************************************)
(* What the Go and the Python migration generator have in common: entities *)
(* are edited; a run compares them with the snapshot, writes one file per  *)
(* changed table, a second apart, saves the snapshot last, and may stop    *)
(* half-way.  A language's module says which changes a run finds and how   *)
(* its files are applied.                                                  *)
(***************************************************************************)
EXTENDS Schemas, Functions, FiniteSets

CONSTANTS
    EntitySchemas,  \* EntitySchemas[t]: the schemas the entity of t may have
    Rank,           \* Rank[t]: the place of t in the order a run goes through
    MaxTime,        \* bound of the clock
    MaxStops,       \* bound of the runs that stop half-way
    MaxSoon         \* bound of the runs that start while a version is ahead

ASSUME RunAssumption ==
    /\ EntitySchemas \in [Tables -> SUBSET TableSchema]
    /\ Rank \in [Tables -> Nat] /\ IsInjective(Rank)
    /\ MaxTime \in Nat
    /\ MaxStops \in Nat
    /\ MaxSoon \in Nat

VARIABLES
    entities,   \* the registry of entities, as the generator loads it
    snapshot,   \* migrations/.snapshot.json
    files,      \* migrations/*.up.sql
    run,        \* the run in progress, or Idle
    clock,      \* seconds
    stops,      \* runs that stopped half-way
    soon,       \* runs that started while some version was not past
    db          \* the tables of the database the files are applied to

genVars == <<entities, snapshot, files, run, clock, stops, soon>>

\* A change of one table, as one file makes it: its schemas before and after.
Change(t, p, s) == [table |-> t, prev |-> p, next |-> s]

Kind(ch) == CASE ch.prev = NoTable -> "create"
              [] ch.prev # NoTable /\ ch.next = NoTable -> "drop"
              [] OTHER -> "alter"

File(v, ch) == [version |-> v, change |-> ch]

\* A run: when it started, how many files it has written, the changes it has
\* still to write, the schema it will save.
Idle == [base |-> 0, done |-> 0, todo |-> {}, target |-> <<>>]

NoTables == [t \in Tables |-> NoTable]

GenInit ==
    /\ entities = NoTables
    /\ snapshot = NoTables
    /\ files = {}
    /\ run = Idle
    /\ clock = 1
    /\ stops = 0
    /\ soon = 0
    /\ db = NoTables

\* proto-gen: an entity appears, changes or disappears.
Edit(t, s) ==
    /\ entities[t] # s
    /\ entities' = [entities EXCEPT ![t] = s]
    /\ UNCHANGED <<snapshot, files, run, clock, stops, soon>>

Tick ==
    /\ clock < MaxTime
    /\ clock' = clock + 1
    /\ UNCHANGED <<entities, snapshot, files, run, stops, soon>>

\* A run that finds the changes chs; one that finds none ends at once.  It does
\* not look at the versions that are there: one that starts within the seconds
\* the stamps of another reach writes some of them again.
StartRun(chs) ==
    /\ run = Idle
    /\ chs # {}
    /\ run' = [base |-> clock, done |-> 0, todo |-> chs, target |-> entities]
    /\ \/ (\A f \in files : f.version < clock) /\ UNCHANGED soon
       \/ (\E f \in files : f.version >= clock) /\ soon < MaxSoon /\ soon' = soon + 1
    /\ UNCHANGED <<entities, snapshot, files, clock, stops>>

\* Mutant of Stamp: every file of a run has the version of the run.
StampBase(r) == r.base

\* The time the run started, and a second more for every file.  (Python adds
\* to the digits, and may write second 60: the order of a run's files, and of
\* runs that do not start soon after another, is the same.)
Stamp(r) == r.base + r.done

\* A file of the same version, kind and table is overwritten.
SameName(f, g) ==
    /\ f.version = g.version
    /\ f.change.table = g.change.table
    /\ Kind(f.change) = Kind(g.change)

FirstTable(chs) ==
    {ch \in chs : \A other \in chs : Rank[ch.table] <= Rank[other.table]}

\* One of chs, the changes that may come next, is written to a file.
Write(chs) ==
    /\ \E ch \in chs :
        /\ LET f == File(Stamp(run), ch) IN
           files' = {g \in files : ~SameName(f, g)} \cup {f}
        /\ run' = [run EXCEPT !.done = @ + 1, !.todo = @ \ {ch}]
    /\ UNCHANGED <<entities, snapshot, clock, stops, soon>>

\* Mutant of SaveSnapshot: only the tables that changed are saved.
SaveChanged ==
    /\ run # Idle /\ run.todo = {}
    /\ snapshot' = [t \in {u \in Tables : run.target[u] # snapshot[u]} |->
                        run.target[t]]
    /\ run' = Idle
    /\ UNCHANGED <<entities, files, clock, stops, soon>>

\* Mutant of SaveSnapshot: the snapshot is saved before the last file.
SaveEarly ==
    /\ run # Idle /\ (\A x, y \in run.todo : x = y)
    /\ snapshot' = run.target
    /\ run' = IF run.todo = {} THEN Idle ELSE run
    /\ UNCHANGED <<entities, files, clock, stops, soon>>

\* Mutant of SaveSnapshot: the snapshot is of the entities as they are now.
SaveEntities ==
    /\ run # Idle /\ run.todo = {}
    /\ snapshot' = entities
    /\ run' = Idle
    /\ UNCHANGED <<entities, files, clock, stops, soon>>

SaveSnapshot ==
    /\ run # Idle /\ run.todo = {}
    /\ snapshot' = run.target
    /\ run' = Idle
    /\ UNCHANGED <<entities, files, clock, stops, soon>>

\* A file cannot be written, or the developer interrupts: what has been
\* written stays, the snapshot does not change.  The next run will write the
\* same changes again: from here the files are the developer's to clean up.
StopRun ==
    /\ stops < MaxStops
    /\ run # Idle
    /\ run' = Idle
    /\ stops' = stops + 1
    /\ UNCHANGED <<entities, snapshot, files, clock, soon>>

-----------------------------------------------------------------------------
Schema  == [Tables -> TableSchema \cup {NoTable}]
Changes == [table: Tables, prev: TableSchema \cup {NoTable},
            next: TableSchema \cup {NoTable}]

GenTypeOK ==
    /\ entities \in Schema
    /\ snapshot \in Schema
    /\ IsFiniteSet(files)
    /\ \A f \in files : f.version \in Nat /\ f.change \in Changes
    /\ run.base \in Nat /\ run.done \in Nat /\ run.todo \subseteq Changes
    /\ run # Idle => run.target \in Schema
    /\ clock \in Nat
    /\ stops \in Nat
    /\ soon \in Nat
    /\ db \in [Tables -> DbTable \cup {NoTable}]

\* No two files have one version: golang-migrate refuses to start otherwise.
VersionsDistinct == \A f, g \in files : f.version = g.version => f = g

\* The files of a run are a second apart, so that two of one version are of two
\* runs, and the later one started within the seconds the stamps of the other
\* reach (main.go:81-83, main.py:156-159): each run that starts so soon may add
\* one file to a version, and no other run adds to a version that is there,
\* wherever runs stop.
VersionsCounted ==
    \A f \in files : Cardinality({g \in files : g.version = f.version}) <= 1 + soon

\* Every run was finished, and none was started so soon.
Undisturbed == stops = 0 /\ soon = 0

\* The change is of a type, to one PostgreSQL does not convert it to by itself.
\* The file has a WARNING of it (sql.go:119-122, main.py:111-113).
TypeRefused(ch) == Kind(ch) = "alter" /\ NeedsUsing(ch.prev, ch.next) # {}
=============================================================================
