--------------------------- MODULE MigrationGenGo ---------------------------
(***************************************************************************)
(* cmd/mss-migration-gen of the Go stack, from an edited entity to the     *)
(* database its files are applied to by golang-migrate.                    *)
(***************************************************************************)
EXTENDS MigrationRuns

VARIABLES
    version,    \* schema_migrations.version
    dirty       \* schema_migrations.dirty

goDbVars == <<db, version, dirty>>
goVars   == <<genVars, goDbVars>>

GoInit ==
    /\ GenInit
    /\ version = 0
    /\ dirty = FALSE

-----------------------------------------------------------------------------
(* What a run finds.                                                       *)

DiffTable(p, s) ==
    UNION {AddColumns(p, s), DropColumns(p, s), AlterColumns(p, s),
           AddUniqueCols(p, s), DropUniqueCols(p, s),
           AddIndexes(p, s), DropIndexes(p, s)} # {}

DiffSchemas(p, s) ==
    {Change(t, p[t], s[t]) : t \in
        {u \in Tables : \/ (p[u] = NoTable) # (s[u] = NoTable)
                        \/ /\ p[u] # NoTable /\ s[u] # NoTable
                           /\ DiffTable(p[u], s[u])}}

-----------------------------------------------------------------------------
(* The files, applied.  emitAlter writes ADD COLUMN, ALTER COLUMN, ADD      *)
(* UNIQUE, DROP INDEX, ADD INDEX, DROP UNIQUE, DROP COLUMN in this order;  *)
(* no statement undoes another one, so their effect is given at once.      *)

UqNames(cs) == cs \X {"uq"}

\* A column that is dropped takes its constraints with it.
UniquesAfter(d, p, s) ==
    {u \in d.uniques \cup Inline(s, AddColumns(p, s))
                     \cup UqNames(AddUniqueCols(p, s)) :
        u \notin UqNames(DropUniqueCols(p, s)) /\ u[1] \notin DropColumns(p, s)}

IndexesAfter(d, p, s) ==
    [n \in IdxNames |-> IF n \in AddIndexes(p, s) THEN s.idx[n]
                        ELSE IF n \in DropIndexes(p, s) THEN NoIdx
                        ELSE d.idx[n]]

GoAltered(d, p, s) == [cols |-> ColsAfter(d, p, s),
                     uniques |-> UniquesAfter(d, p, s),
                     idx |-> IndexesAfter(d, p, s)]

\* ALTER TABLE fails on a type that does not convert, and on a constraint or
\* index that is already there, or is not there under the name it is dropped by.
Alterable(d, p, s) ==
    /\ ColsFit(d, p, s)
    /\ UqNames(AddUniqueCols(p, s)) \cap d.uniques = {}
    /\ UqNames(DropUniqueCols(p, s)) \subseteq d.uniques
    /\ \A n \in DropIndexes(p, s) : d.idx[n] # NoIdx
    /\ \A n \in AddIndexes(p, s) \ DropIndexes(p, s) : d.idx[n] = NoIdx

GoApplies(d, ch) ==
    CASE Kind(ch) = "create" -> d = NoTable
      [] Kind(ch) = "drop"   -> d # NoTable
      [] OTHER -> d # NoTable /\ Alterable(d, ch.prev, ch.next)

GoApplied(d, ch) ==
    CASE Kind(ch) = "create" -> Created(ch.next)
      [] Kind(ch) = "drop"   -> NoTable
      [] OTHER -> GoAltered(d, ch.prev, ch.next)

\* golang-migrate up, one file: the next version above the database's.  It
\* refuses to start on two files of one version, and after a failure until
\* someone has repaired the database.  A file is one implicit transaction.
Migrate ==
    /\ ~dirty
    /\ VersionsDistinct
    /\ \E f \in files :
        /\ f.version > version
        /\ \A g \in files : g.version > version => f.version <= g.version
        /\ version' = f.version
        /\ LET t == f.change.table IN
           \/ /\ GoApplies(db[t], f.change)
              /\ db' = [db EXCEPT ![t] = GoApplied(db[t], f.change)]
              /\ UNCHANGED dirty
           \/ /\ ~GoApplies(db[t], f.change)
              /\ dirty' = TRUE
              /\ UNCHANGED db
    /\ UNCHANGED genVars

GoGenerate ==
    /\ \/ \E t \in Tables : \E s \in EntitySchemas[t] \cup {NoTable} : Edit(t, s)
       \/ Tick
       \/ StartRun(DiffSchemas(snapshot, entities))
       \/ Write(FirstTable(run.todo))
       \/ SaveSnapshot
       \/ StopRun
    /\ UNCHANGED goDbVars

GoNext == GoGenerate \/ Migrate

GoSpec == GoInit /\ [][GoNext]_goVars

-----------------------------------------------------------------------------
GoTypeOK ==
    /\ GenTypeOK
    /\ version \in Nat
    /\ dirty \in BOOLEAN

\* What every state keeps: the types, and that a version has at most one file
\* more than runs were started soon after another.
GoInv == GoTypeOK /\ VersionsCounted

\* Where every run was finished before the next, some seconds later, and its
\* files are applied, the database has the schema of the snapshot: the next diff
\* starts from what is really there, although the generator never looks at the
\* database (main.go:45-102).
DatabaseIsSnapshot ==
    (Undisturbed /\ run = Idle /\ ~dirty /\ \A f \in files : f.version <= version)
        => \A t \in Tables : Shape(db[t]) = snapshot[t]

\* A file of undisturbed runs fails for two reasons only, rows apart: it changes
\* a type to one that does not convert by itself, of which it has a WARNING
\* (sql.go:119-122), or it drops, by the name emitAlter gives, a UNIQUE that
\* CREATE TABLE or ADD COLUMN wrote inline and PostgreSQL named (sql.go:69-71
\* against sql.go:104-107), of which it says nothing.
GoFailuresKnown ==
    Undisturbed /\ dirty => \E f \in files :
        /\ f.version = version
        /\ Kind(f.change) = "alter"
        /\ \/ TypeRefused(f.change)
           \/ \E c \in DropUniqueCols(f.change.prev, f.change.next) :
                /\ <<c, "key">> \in db[f.change.table].uniques
                /\ <<c, "uq">> \notin db[f.change.table].uniques

\* The snapshot never moves ahead of the files: whatever it comes to contain,
\* a file is there to do, wherever runs are stopped and however soon they are
\* started again (main.go:91-99).
GoSnapshotNotAhead ==
    [][snapshot' # snapshot =>
        \A ch \in DiffSchemas(snapshot, snapshot') :
            \E f \in files : f.change = ch]_goVars

\* Every change the generator writes a file for is accepted by the database,
\* but for a change of type, of which the file has a WARNING.
GoEveryFileApplies ==
    dirty => \E f \in files : f.version = version /\ TypeRefused(f.change)
=============================================================================
