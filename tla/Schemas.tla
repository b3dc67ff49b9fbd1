------------------------------ MODULE Schemas ------------------------------
(***************************************************************************)
(* Table schemas as the migration generators see them, tables as           *)
(* PostgreSQL keeps them, and the effect of the DDL that goes between.     *)
(*                                                                         *)
(* A schema is what the generators extract from the entities and save as   *)
(* the snapshot.  The primary-key column is left out of it: it comes with  *)
(* CREATE TABLE and goes with DROP TABLE; making another column the key is *)
(* manual work, for which the generators emit no statement.  The rows are  *)
(* left out too: a statement that depends on them (SET NOT NULL, ADD       *)
(* COLUMN ... NOT NULL, a new UNIQUE) is taken to find no row that stops   *)
(* it.  A change of type that PostgreSQL refuses whatever the rows is not. *)
(***************************************************************************)
EXTENDS Integers, Sequences

CONSTANTS
    Tables,     \* table names
    Cols,       \* column names other than the key's
    Types,      \* SQL types
    Casts,      \* pairs of types the first of which PostgreSQL converts to the
                \* second by itself, as ALTER COLUMN ... TYPE without USING does
    IdxNames,   \* names of indexes on several columns, or not unique
    NoTable,    \* no such table
    NoCol,      \* no such column
    NoIdx       \* no such index

Column == [type: Types, notNull: BOOLEAN, unique: BOOLEAN]
Index  == [on: Seq(Cols), unique: BOOLEAN]

TableSchema == [cols: [Cols -> Column \cup {NoCol}],
                idx: [IdxNames -> Index \cup {NoIdx}]]

\* A unique constraint has a name: the one PostgreSQL gives to an inline
\* UNIQUE ("<table>_<column>_key"), or the generators' "uq_<table>_<column>".
ConstraintNames == Cols \X {"key", "uq"}

DbColumn == [type: Types, notNull: BOOLEAN]
DbTable  == [cols: [Cols -> DbColumn \cup {NoCol}],
             uniques: SUBSET ConstraintNames,
             idx: [IdxNames -> Index \cup {NoIdx}]]

ASSUME SchemaAssumption ==
    /\ Casts \subseteq Types \X Types
    /\ NoTable \notin TableSchema /\ NoTable \notin DbTable
    /\ NoCol \notin Column /\ NoCol \notin DbColumn
    /\ NoIdx \notin Index

Has(f, none) == {n \in DOMAIN f : f[n] # none}

\* The schema of a table: what a generator would have to see in the entities
\* for the table to be theirs.
UniqueCols(d) == {c \in Cols : \E k \in {"key", "uq"} : <<c, k>> \in d.uniques}

Shape(d) ==
    IF d = NoTable THEN NoTable
    ELSE [cols |-> [c \in Cols |->
                      IF d.cols[c] = NoCol THEN NoCol
                      ELSE [type |-> d.cols[c].type,
                            notNull |-> d.cols[c].notNull,
                            unique |-> c \in UniqueCols(d)]],
          idx |-> d.idx]

-----------------------------------------------------------------------------
(* The differences of two schemas of one table, named as in tableChange.   *)

AddColumns(p, s)  == Has(s.cols, NoCol) \ Has(p.cols, NoCol)
DropColumns(p, s) == Has(p.cols, NoCol) \ Has(s.cols, NoCol)
Both(p, s)        == Has(p.cols, NoCol) \cap Has(s.cols, NoCol)

AlterColumns(p, s) ==
    {c \in Both(p, s) : \/ p.cols[c].type # s.cols[c].type
                        \/ p.cols[c].notNull # s.cols[c].notNull}

\* Columns whose type changes to one PostgreSQL does not convert it to by
\* itself: the statement wants a USING clause, which the generators leave to
\* the developer.
NeedsUsing(p, s) ==
    {c \in Both(p, s) : /\ p.cols[c].type # s.cols[c].type
                        /\ <<p.cols[c].type, s.cols[c].type>> \notin Casts}

AddUniqueCols(p, s)  == {c \in Both(p, s) : ~p.cols[c].unique /\ s.cols[c].unique}
DropUniqueCols(p, s) == {c \in Both(p, s) : p.cols[c].unique /\ ~s.cols[c].unique}

AddIndexes(p, s)  == {n \in Has(s.idx, NoIdx) : p.idx[n] # s.idx[n]}

\* Mutant of DropIndexes: an index that changed is not dropped first.
DropIndexesGone(p, s) == {n \in Has(p.idx, NoIdx) : s.idx[n] = NoIdx}

DropIndexes(p, s) == {n \in Has(p.idx, NoIdx) : p.idx[n] # s.idx[n]}

-----------------------------------------------------------------------------
(* The statements.  columnDefSQL writes UNIQUE inline, in CREATE TABLE as   *)
(* in ADD COLUMN.                                                          *)

DbCol(c) == [type |-> c.type, notNull |-> c.notNull]

Inline(s, cs) == {<<c, "key">> : c \in {n \in cs : s.cols[n].unique}}

Created(s) ==
    [cols |-> [c \in Cols |-> IF s.cols[c] = NoCol THEN NoCol ELSE DbCol(s.cols[c])],
     uniques |-> Inline(s, Has(s.cols, NoCol)),
     idx |-> s.idx]

\* The columns after ADD COLUMN, ALTER COLUMN and DROP COLUMN; only what
\* differs between the schemas is altered.
ColsAfter(d, p, s) ==
    [c \in Cols |->
        CASE c \in AddColumns(p, s) -> DbCol(s.cols[c])
          [] c \in DropColumns(p, s) -> NoCol
          [] c \in AlterColumns(p, s) ->
                [type |-> IF p.cols[c].type # s.cols[c].type
                          THEN s.cols[c].type ELSE d.cols[c].type,
                 notNull |-> IF p.cols[c].notNull # s.cols[c].notNull
                             THEN s.cols[c].notNull ELSE d.cols[c].notNull]
          [] OTHER -> d.cols[c]]

\* ADD COLUMN needs a new column, the others an old one; a type that is
\* changed must convert by itself.
ColsFit(d, p, s) ==
    /\ \A c \in AddColumns(p, s) : d.cols[c] = NoCol
    /\ \A c \in AlterColumns(p, s) \cup DropColumns(p, s) : d.cols[c] # NoCol
    /\ \A c \in AlterColumns(p, s) :
        \/ p.cols[c].type = s.cols[c].type
        \/ d.cols[c].type = s.cols[c].type
        \/ <<d.cols[c].type, s.cols[c].type>> \in Casts
=============================================================================
