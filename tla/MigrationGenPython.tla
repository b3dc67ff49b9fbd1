------------------------- MODULE MigrationGenPython -------------------------
(***************************************************************************)
(* tools/mss-migration-gen of the Python stack, from an edited entity to   *)
(* the database tools/apply-migrations.py applies its files to.  The       *)
(* generator looks at columns only (no indexes), and writes no statement   *)
(* for a UNIQUE that comes or goes on a column that stays.  The runner     *)
(* cuts a file at every semicolon, those in comments included.             *)
(***************************************************************************)
EXTENDS MigrationRuns

VARIABLE
    applied     \* _mss_migrations: the files that have been applied

pyDbVars == <<db, applied>>
pyVars   == <<genVars, pyDbVars>>

PyInit ==
    /\ GenInit
    /\ applied = {}

-----------------------------------------------------------------------------
(* What a run finds: a table to create or drop, or one for which _alter_sql *)
(* has a statement.                                                        *)

Statements(p, s) ==
    AddColumns(p, s) \cup DropColumns(p, s) \cup AlterColumns(p, s)

FoundChanges(p, s) ==
    {Change(t, p[t], s[t]) : t \in
        {u \in Tables : \/ (p[u] = NoTable) # (s[u] = NoTable)
                        \/ /\ p[u] # NoTable /\ s[u] # NoTable
                           /\ Statements(p[u], s[u]) # {}}}

\* Tables that are there in the order of the registry, then those that are gone.
NextChanges ==
    LET kept == {ch \in run.todo : Kind(ch) # "drop"}
    IN  FirstTable(IF kept # {} THEN kept ELSE run.todo)

-----------------------------------------------------------------------------
(* The files, applied.                                                     *)

\* Mutant of PyAltered: a column that is gone stays in the table.
PyAlteredKeeping(d, p, s) ==
    [cols |-> [c \in Cols |-> IF c \in DropColumns(p, s) THEN d.cols[c]
                             ELSE ColsAfter(d, p, s)[c]],
     uniques |-> d.uniques \cup Inline(s, AddColumns(p, s)),
     idx |-> d.idx]

\* Mutant of PyAltered: a column is added without its UNIQUE.
PyAlteredPlain(d, p, s) ==
    [cols |-> ColsAfter(d, p, s),
     uniques |-> {u \in d.uniques : u[1] \notin DropColumns(p, s)},
     idx |-> d.idx]

PyAltered(d, p, s) ==
    [cols |-> ColsAfter(d, p, s),
     uniques |-> {u \in d.uniques \cup Inline(s, AddColumns(p, s)) :
                    u[1] \notin DropColumns(p, s)},
     idx |-> d.idx]

\* The warning above ADD COLUMN ... NOT NULL has a semicolon in it: what
\* follows it on the line goes to the database with the statement.
Garbled(p, s) == \E c \in AddColumns(p, s) : s.cols[c].notNull

PyApplies(d, ch) ==
    CASE Kind(ch) = "create" -> d = NoTable
      [] Kind(ch) = "drop"   -> d # NoTable
      [] OTHER -> /\ d # NoTable
                  /\ ColsFit(d, ch.prev, ch.next)
                  /\ ~Garbled(ch.prev, ch.next)

PyApplied(d, ch) ==
    CASE Kind(ch) = "create" -> Created(ch.next)
      [] Kind(ch) = "drop"   -> NoTable
      [] OTHER -> PyAltered(d, ch.prev, ch.next)

\* _mss_migrations has the names of files: one that was overwritten since is not
\* applied again.
Waiting == {f \in files : \A g \in applied : ~SameName(f, g)}

\* sorted(glob(...)): by version first; which of two files of one version comes
\* first is left open.
IsNextFile(f) == f \in Waiting /\ \A g \in Waiting : f.version <= g.version

\* apply-migrations, one file: its statements and its row in _mss_migrations
\* are one transaction.  It ends at a file that fails, and so does every
\* later run of it.
Apply ==
    /\ \E f \in files :
        LET t == f.change.table IN
        /\ IsNextFile(f)
        /\ PyApplies(db[t], f.change)
        /\ db' = [db EXCEPT ![t] = PyApplied(db[t], f.change)]
        /\ applied' = applied \cup {f}
    /\ UNCHANGED genVars

PyGenerate ==
    /\ \/ \E t \in Tables : \E s \in EntitySchemas[t] \cup {NoTable} : Edit(t, s)
       \/ Tick
       \/ StartRun(FoundChanges(snapshot, entities))
       \/ Write(NextChanges)
       \/ SaveSnapshot
       \/ StopRun
    /\ UNCHANGED pyDbVars

PyNext == PyGenerate \/ Apply

PySpec == PyInit /\ [][PyNext]_pyVars

-----------------------------------------------------------------------------
PyTypeOK ==
    /\ GenTypeOK
    /\ \A f \in applied : f.version \in Nat /\ f.change \in Changes

\* A schema without its UNIQUEs.
Plain(s) ==
    IF s = NoTable THEN NoTable
    ELSE [c \in Cols |-> IF s.cols[c] = NoCol THEN NoCol ELSE DbCol(s.cols[c])]

\* Where every run was finished before the next, some seconds later, and its
\* files are applied, the database has the columns of the snapshot, but for
\* their UNIQUEs.
ColumnsAreSnapshot ==
    (Undisturbed /\ run = Idle /\ Waiting = {})
        => \A t \in Tables : Plain(Shape(db[t])) = Plain(snapshot[t])

\* A column is UNIQUE in the database if and only if it was when it was last
\* created or added: a UNIQUE that comes or goes later gets into the snapshot
\* and never there (main.py:104-115).
Births(t, c) ==
    {f \in files :
        /\ f.change.table = t /\ f.change.next # NoTable /\ f.change.next.cols[c] # NoCol
        /\ f.change.prev = NoTable \/ f.change.prev.cols[c] = NoCol}
UniquesFromBirth ==
    Undisturbed /\ run = Idle /\ Waiting = {} =>
        \A t \in Tables, c \in Cols :
            db[t] # NoTable /\ db[t].cols[c] # NoCol =>
                \E f \in Births(t, c) :
                    /\ \A g \in Births(t, c) : g.version <= f.version
                    /\ f.change.next.cols[c].unique = (c \in UniqueCols(db[t]))

\* A file of undisturbed runs fails for two reasons only, rows apart: it changes
\* a type to one that does not convert by itself (main.py:111-113), or it adds a
\* NOT NULL column, and brings the warning the runner trips over.
PyFailuresKnown ==
    \A f \in files :
        Undisturbed /\ IsNextFile(f) /\ ~PyApplies(db[f.change.table], f.change) =>
        /\ Kind(f.change) = "alter"
        /\ TypeRefused(f.change) \/ Garbled(f.change.prev, f.change.next)

\* The columns of the snapshot never move ahead of the files: whatever they
\* come to be, a file is there to do, wherever runs are stopped and however soon
\* they are started again (main.py:155-167).
PySnapshotNotAhead ==
    [][\A t \in Tables : Plain(snapshot[t]) # Plain(snapshot'[t]) =>
        \E f \in files : f.change = Change(t, snapshot[t], snapshot'[t])]_pyVars

\* Every file is accepted by the database when its turn comes, but for a change
\* of type, of which the file has a WARNING.
PyEveryFileApplies ==
    \A f \in files : IsNextFile(f) /\ ~TypeRefused(f.change) =>
        PyApplies(db[f.change.table], f.change)
=============================================================================
