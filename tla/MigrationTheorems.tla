--------------------------- MODULE MigrationTheorems ---------------------------
(***************************************************************************)
(* For any tables, columns, indexes and entity schemas, however often they  *)
(* are edited and however the runs of a generator and of its runner         *)
(* alternate: the files lead from the database to the snapshot, by name and *)
(* UNIQUE in Go, by column in Python.                                       *)
(* And for any containers that run the runner of Python at one time, of any *)
(* images, killed and restarted in any order: each file takes effect once,  *)
(* in order, before anything is served.  Go* and Py* are the two generators *)
(* with their databases; Spec is ApplyMigrations.                           *)
(***************************************************************************)
EXTENDS MigrationGenGo, MigrationGenPython, ApplyMigrations, FiniteSetTheorems, TLAPS

(* A table has its uniques on columns it has. *)
TableOK(d) == d \in DbTable /\ \A u \in d.uniques : d.cols[u[1]] # NoCol

-----------------------------------------------------------------------------
(* Schemas and tables.                                                     *)

(* The differences of two schemas, column by column and index by index. *)
LEMMA DiffsAt ==
    ASSUME NEW p \in TableSchema, NEW s \in TableSchema
    PROVE  /\ AddColumns(p, s) = {c \in Cols : s.cols[c] # NoCol /\ p.cols[c] = NoCol}
           /\ DropColumns(p, s) = {c \in Cols : p.cols[c] # NoCol /\ s.cols[c] = NoCol}
           /\ Both(p, s) = {c \in Cols : p.cols[c] # NoCol /\ s.cols[c] # NoCol}
           /\ AddIndexes(p, s) = {n \in IdxNames : s.idx[n] # NoIdx /\ p.idx[n] # s.idx[n]}
           /\ DropIndexes(p, s) = {n \in IdxNames : p.idx[n] # NoIdx /\ p.idx[n] # s.idx[n]}
<1>1. /\ DOMAIN p.cols = Cols /\ DOMAIN s.cols = Cols
      /\ DOMAIN p.idx = IdxNames /\ DOMAIN s.idx = IdxNames
  BY DEF TableSchema
<1> QED
  BY <1>1 DEF AddColumns, DropColumns, Both, AddIndexes, DropIndexes, Has

LEMMA ColumnsAt ==
    ASSUME NEW s \in TableSchema, NEW c \in Cols, s.cols[c] # NoCol
    PROVE  /\ s.cols[c] \in Column
           /\ s.cols[c] = [type |-> s.cols[c].type, notNull |-> s.cols[c].notNull,
                           unique |-> s.cols[c].unique]
           /\ s.cols[c].type \in Types
           /\ s.cols[c].notNull \in BOOLEAN /\ s.cols[c].unique \in BOOLEAN
<1>1. s.cols[c] \in Column
  BY DEF TableSchema
<1> QED
  BY <1>1 DEF Column

(* The column the database has for it. *)
LEMMA DbColAt ==
    ASSUME NEW s \in TableSchema, NEW c \in Cols, s.cols[c] # NoCol
    PROVE  /\ DbCol(s.cols[c]) \in DbColumn /\ DbCol(s.cols[c]) # NoCol
           /\ DbCol(s.cols[c]).type = s.cols[c].type
           /\ DbCol(s.cols[c]).notNull = s.cols[c].notNull
<1>1. DbCol(s.cols[c]) \in DbColumn
  BY ColumnsAt DEF DbCol, DbColumn
<1> QED
  BY <1>1, SchemaAssumption DEF DbCol

(* Two schemas are the same if they have the same columns and indexes. *)
LEMMA SchemaEq ==
    ASSUME NEW p \in TableSchema, NEW s \in TableSchema,
           \A c \in Cols : p.cols[c] = s.cols[c],
           \A n \in IdxNames : p.idx[n] = s.idx[n]
    PROVE  p = s
<1>1. /\ p = [cols |-> p.cols, idx |-> p.idx] /\ s = [cols |-> s.cols, idx |-> s.idx]
      /\ p.cols \in [Cols -> Column \cup {NoCol}] /\ s.cols \in [Cols -> Column \cup {NoCol}]
      /\ p.idx \in [IdxNames -> Index \cup {NoIdx}] /\ s.idx \in [IdxNames -> Index \cup {NoIdx}]
  BY DEF TableSchema
<1>2. p.cols = s.cols
  BY <1>1
<1>3. p.idx = s.idx
  BY <1>1
<1> QED
  BY <1>1, <1>2, <1>3

(* A run that finds no difference has the same schema before it and after. *)
LEMMA NoDiffSame ==
    ASSUME NEW p \in TableSchema, NEW s \in TableSchema, ~DiffTable(p, s)
    PROVE  p = s
<1>1. /\ AddColumns(p, s) = {} /\ DropColumns(p, s) = {} /\ AlterColumns(p, s) = {}
      /\ AddUniqueCols(p, s) = {} /\ DropUniqueCols(p, s) = {}
      /\ AddIndexes(p, s) = {} /\ DropIndexes(p, s) = {}
  BY DEF DiffTable
<1>2. ASSUME NEW c \in Cols PROVE p.cols[c] = s.cols[c]
  <2>1. p.cols[c] = NoCol <=> s.cols[c] = NoCol
    BY <1>1, DiffsAt
  <2>2. CASE p.cols[c] # NoCol
    <3>1. c \in Both(p, s)
      BY <2>1, <2>2, DiffsAt
    <3>2. /\ p.cols[c].type = s.cols[c].type /\ p.cols[c].notNull = s.cols[c].notNull
          /\ p.cols[c].unique <=> s.cols[c].unique
      BY <1>1, <3>1 DEF AlterColumns, AddUniqueCols, DropUniqueCols
    <3>3. p.cols[c].unique = s.cols[c].unique
      BY <2>1, <2>2, <3>2, ColumnsAt
    <3> QED BY <2>1, <2>2, <3>2, <3>3, ColumnsAt
  <2> QED BY <2>1, <2>2
<1>3. ASSUME NEW n \in IdxNames PROVE p.idx[n] = s.idx[n]
  BY <1>1, DiffsAt
<1> QED
  BY <1>2, <1>3, SchemaEq

(* A run of the Python generator that finds no statement has the same columns. *)
LEMMA NoStatementSame ==
    ASSUME NEW p \in TableSchema, NEW s \in TableSchema, Statements(p, s) = {}
    PROVE  Plain(p) = Plain(s)
<1>1. AddColumns(p, s) = {} /\ DropColumns(p, s) = {} /\ AlterColumns(p, s) = {}
  BY DEF Statements
<1>2. ASSUME NEW c \in Cols
      PROVE  /\ p.cols[c] = NoCol <=> s.cols[c] = NoCol
             /\ p.cols[c] # NoCol => DbCol(p.cols[c]) = DbCol(s.cols[c])
  <2>1. p.cols[c] = NoCol <=> s.cols[c] = NoCol
    BY <1>1, DiffsAt
  <2>2. p.cols[c] # NoCol => c \in Both(p, s)
    BY <2>1, DiffsAt
  <2>3. p.cols[c] # NoCol => /\ p.cols[c].type = s.cols[c].type
                             /\ p.cols[c].notNull = s.cols[c].notNull
    BY <1>1, <2>2 DEF AlterColumns
  <2> QED BY <2>1, <2>3 DEF DbCol
<1>3. CASE p # NoTable /\ s # NoTable
  BY <1>2, <1>3 DEF Plain
<1> QED
  BY <1>3, SchemaAssumption

(* The schema of a table in the database, and its columns. *)
LEMMA ShapeAt ==
    ASSUME NEW d \in DbTable
    PROVE  /\ Shape(d) \in TableSchema /\ d # NoTable /\ Shape(d) # NoTable
           /\ Shape(d).idx = d.idx
           /\ \A c \in Cols :
                 /\ Shape(d).cols[c] = NoCol <=> d.cols[c] = NoCol
                 /\ d.cols[c] # NoCol => Shape(d).cols[c] =
                        [type |-> d.cols[c].type, notNull |-> d.cols[c].notNull,
                         unique |-> c \in UniqueCols(d)]
<1>1. /\ d # NoTable /\ NoCol \notin Column /\ NoTable \notin TableSchema
      /\ NoCol \notin DbColumn
  BY SchemaAssumption
<1> DEFINE col(c) == [type |-> d.cols[c].type, notNull |-> d.cols[c].notNull,
                      unique |-> c \in UniqueCols(d)]
           cs == [c \in Cols |-> IF d.cols[c] = NoCol THEN NoCol ELSE col(c)]
<1>2. Shape(d) = [cols |-> cs, idx |-> d.idx]
  BY <1>1 DEF Shape
<1>3. ASSUME NEW c \in Cols, d.cols[c] # NoCol PROVE col(c) \in Column
  <2>1. d.cols[c] \in DbColumn
    BY <1>3 DEF DbTable
  <2> QED BY <2>1 DEF DbColumn, Column
<1>4. d.idx \in [IdxNames -> Index \cup {NoIdx}]
  BY DEF DbTable
<1> HIDE DEF col
<1>5. cs \in [Cols -> Column \cup {NoCol}]
  BY <1>3
<1>6. Shape(d) \in TableSchema
  BY <1>2, <1>4, <1>5 DEF TableSchema
<1>7. \A c \in Cols : /\ Shape(d).cols[c] = NoCol <=> d.cols[c] = NoCol
                      /\ d.cols[c] # NoCol => Shape(d).cols[c] = col(c)
  BY <1>1, <1>2, <1>3
<1> QED
  BY <1>1, <1>2, <1>6, <1>7 DEF col

LEMMA PlainShape ==
    ASSUME NEW d \in DbTable
    PROVE  Plain(Shape(d)) = d.cols
<1>1. Shape(d) # NoTable
  BY ShapeAt
<1>2. Plain(Shape(d)) = [c \in Cols |-> IF Shape(d).cols[c] = NoCol THEN NoCol
                                        ELSE DbCol(Shape(d).cols[c])]
  BY <1>1 DEF Plain
<1>3. ASSUME NEW c \in Cols
      PROVE  (IF Shape(d).cols[c] = NoCol THEN NoCol ELSE DbCol(Shape(d).cols[c])) = d.cols[c]
  <2>1. CASE d.cols[c] = NoCol
    BY <2>1, ShapeAt
  <2>2. CASE d.cols[c] # NoCol
    <3>1. d.cols[c] = [type |-> d.cols[c].type, notNull |-> d.cols[c].notNull]
      BY <2>2 DEF DbTable, DbColumn
    <3>2. Shape(d).cols[c] # NoCol
      BY <2>2, ShapeAt
    <3>3. Shape(d).cols[c] = [type |-> d.cols[c].type, notNull |-> d.cols[c].notNull,
                              unique |-> c \in UniqueCols(d)]
      BY <2>2, ShapeAt
    <3>4. DbCol(Shape(d).cols[c]) = [type |-> d.cols[c].type, notNull |-> d.cols[c].notNull]
      BY <3>3 DEF DbCol
    <3> QED BY <3>1, <3>2, <3>4
  <2> QED BY <2>1, <2>2
<1>4. d.cols = [c \in Cols |-> d.cols[c]]
  BY DEF DbTable
<1> QED
  BY <1>2, <1>3, <1>4

(* A column's UNIQUE, as the table's constraints say. *)
LEMMA UniqueAt ==
    ASSUME NEW d, TableOK(d), NEW c \in Cols
    PROVE  /\ c \in UniqueCols(d) <=> <<c, "key">> \in d.uniques \/ <<c, "uq">> \in d.uniques
           /\ d.cols[c] = NoCol => c \notin UniqueCols(d)
           /\ d.cols[c] # NoCol => /\ Shape(d).cols[c].type = d.cols[c].type
                                   /\ Shape(d).cols[c].notNull = d.cols[c].notNull
                                   /\ Shape(d).cols[c].unique <=> c \in UniqueCols(d)
<1>1. c \in UniqueCols(d) <=> <<c, "key">> \in d.uniques \/ <<c, "uq">> \in d.uniques
  BY DEF UniqueCols
<1>2. d.cols[c] = NoCol => c \notin UniqueCols(d)
  BY <1>1 DEF TableOK
<1>3. d.cols[c] # NoCol => Shape(d).cols[c] =
        [type |-> d.cols[c].type, notNull |-> d.cols[c].notNull, unique |-> c \in UniqueCols(d)]
  BY ShapeAt DEF TableOK
<1>4. d.cols[c] # NoCol => Shape(d).cols[c].unique = (c \in UniqueCols(d))
  BY <1>3
<1>5. d.cols[c] # NoCol => /\ Shape(d).cols[c].type = d.cols[c].type
                           /\ Shape(d).cols[c].notNull = d.cols[c].notNull
  BY <1>3
<1> QED
  BY <1>1, <1>2, <1>4, <1>5

(* CREATE TABLE makes the table of the schema. *)
LEMMA CreatedTable ==
    ASSUME NEW s \in TableSchema
    PROVE  /\ TableOK(Created(s)) /\ Created(s).cols = Plain(s) /\ Created(s).idx = s.idx
           /\ Created(s).uniques = Inline(s, Has(s.cols, NoCol))
           /\ Created(s).uniques =
                 {<<c, "key">> : c \in {n \in Cols : s.cols[n] # NoCol /\ s.cols[n].unique}}
           /\ \A c \in Cols :
                 /\ Created(s).cols[c] = NoCol <=> s.cols[c] = NoCol
                 /\ s.cols[c] # NoCol => (c \in UniqueCols(Created(s)) <=> s.cols[c].unique)
<1> DEFINE d == Created(s)
<1>1. /\ d.cols = [c \in Cols |-> IF s.cols[c] = NoCol THEN NoCol ELSE DbCol(s.cols[c])]
      /\ d.uniques = Inline(s, Has(s.cols, NoCol))
      /\ d.idx = s.idx
      /\ d = [cols |-> d.cols, uniques |-> d.uniques, idx |-> d.idx]
  BY DEF Created
<1>2. d.cols = Plain(s)
  BY <1>1, SchemaAssumption DEF Plain
<1> HIDE DEF d
<1>3. ASSUME NEW c \in Cols, s.cols[c] # NoCol
      PROVE  d.cols[c] # NoCol /\ d.cols[c] \in DbColumn
  BY <1>1, <1>3, DbColAt, SchemaAssumption
<1>4. d.cols \in [Cols -> DbColumn \cup {NoCol}]
  BY <1>1, <1>3
<1>5. d.uniques = {<<c, "key">> : c \in {n \in Cols : s.cols[n] # NoCol /\ s.cols[n].unique}}
  BY <1>1 DEF Inline, Has, TableSchema
<1>6. d \in DbTable
  <2>1. d.uniques \subseteq ConstraintNames
    BY <1>5 DEF ConstraintNames
  <2>2. d.idx \in [IdxNames -> Index \cup {NoIdx}]
    BY <1>1 DEF TableSchema
  <2> QED BY <1>1, <1>4, <2>1, <2>2 DEF DbTable
<1>7. \A u \in d.uniques : d.cols[u[1]] # NoCol
  BY <1>3, <1>5
<1>8. ASSUME NEW c \in Cols
      PROVE  /\ d.cols[c] = NoCol <=> s.cols[c] = NoCol
             /\ s.cols[c] # NoCol => (c \in UniqueCols(d) <=> s.cols[c].unique)
  <2>1. d.cols[c] = NoCol <=> s.cols[c] = NoCol
    BY <1>1, <1>3
  <2>2. c \in UniqueCols(d) <=> s.cols[c] # NoCol /\ s.cols[c].unique
    BY <1>5 DEF UniqueCols
  <2> QED BY <2>1, <2>2
<1> QED
  BY <1>1, <1>2, <1>5, <1>6, <1>7, <1>8 DEF d, TableOK

-----------------------------------------------------------------------------
(* ALTER TABLE, as far as both stacks do it: the columns.                  *)

(* They are columns, whichever table it finds. *)
LEMMA ColsAfterType ==
    ASSUME NEW d \in DbTable, NEW p \in TableSchema, NEW s \in TableSchema, ColsFit(d, p, s)
    PROVE  /\ ColsAfter(d, p, s) \in [Cols -> DbColumn \cup {NoCol}]
           /\ \A c \in Cols :
                 /\ c \in AddColumns(p, s) => ColsAfter(d, p, s)[c] # NoCol
                 /\ c \in DropColumns(p, s) => ColsAfter(d, p, s)[c] = NoCol
                 /\ c \notin AddColumns(p, s) \cup DropColumns(p, s) =>
                       (ColsAfter(d, p, s)[c] = NoCol <=> d.cols[c] = NoCol)
<1> DEFINE e == ColsAfter(d, p, s)
<1>1. ASSUME NEW ty \in Types, NEW nn \in BOOLEAN
      PROVE  [type |-> ty, notNull |-> nn] \in DbColumn
  BY DEF DbColumn
<1>2. ASSUME NEW c \in Cols
      PROVE  /\ e[c] \in DbColumn \cup {NoCol}
             /\ c \in AddColumns(p, s) => e[c] # NoCol
             /\ c \in DropColumns(p, s) => e[c] = NoCol
             /\ c \notin AddColumns(p, s) \cup DropColumns(p, s) => (e[c] = NoCol <=> d.cols[c] = NoCol)
  <2>1. /\ c \in AddColumns(p, s) => s.cols[c] # NoCol /\ c \notin DropColumns(p, s)
        /\ c \in AlterColumns(p, s) => /\ c \notin AddColumns(p, s) /\ c \notin DropColumns(p, s)
                                       /\ s.cols[c] # NoCol /\ d.cols[c] # NoCol
    BY DiffsAt DEF AlterColumns, ColsFit
  <2>2. NoCol \notin DbColumn /\ d.cols[c] \in DbColumn \cup {NoCol}
    BY SchemaAssumption DEF DbTable
  <2>3. CASE c \in AddColumns(p, s)
    <3>1. e[c] = DbCol(s.cols[c])
      BY <2>1, <2>3 DEF ColsAfter
    <3>2. DbCol(s.cols[c]) \in DbColumn /\ DbCol(s.cols[c]) # NoCol
      BY <2>1, <2>3, DbColAt
    <3> HIDE DEF e
    <3> QED BY <2>1, <2>3, <3>1, <3>2
  <2>4. CASE c \in DropColumns(p, s)
    <3>1. e[c] = NoCol
      BY <2>1, <2>4 DEF ColsAfter
    <3> QED BY <2>1, <2>4, <3>1
  <2>5. CASE c \in AlterColumns(p, s)
    <3>1. e[c] = [type |-> IF p.cols[c].type # s.cols[c].type
                           THEN s.cols[c].type ELSE d.cols[c].type,
                  notNull |-> IF p.cols[c].notNull # s.cols[c].notNull
                              THEN s.cols[c].notNull ELSE d.cols[c].notNull]
      BY <2>1, <2>5 DEF ColsAfter
    <3>2. /\ s.cols[c].type \in Types /\ s.cols[c].notNull \in BOOLEAN
          /\ d.cols[c].type \in Types /\ d.cols[c].notNull \in BOOLEAN
      BY <2>1, <2>2, <2>5, ColumnsAt DEF DbColumn
    <3>3. e[c] \in DbColumn
      BY <1>1, <3>1, <3>2
    <3> QED BY <2>1, <2>2, <2>5, <3>3
  <2>6. CASE c \notin AddColumns(p, s) \cup DropColumns(p, s) \cup AlterColumns(p, s)
    <3>1. e[c] = d.cols[c]
      BY <2>6 DEF ColsAfter
    <3> QED BY <2>2, <2>6, <3>1
  <2> QED BY <2>3, <2>4, <2>5, <2>6
<1>3. e = [c \in Cols |-> e[c]]
  BY DEF ColsAfter
<1> HIDE DEF e
<1>4. e \in [Cols -> DbColumn \cup {NoCol}]
  BY <1>2, <1>3
<1> QED
  BY <1>2, <1>4 DEF e

(* They are those of the schema, if the table has those it starts from; and   *)
(* only a type that does not convert can be refused.                          *)
LEMMA ColsAfterSchema ==
    ASSUME NEW d \in DbTable, NEW p \in TableSchema, NEW s \in TableSchema, Plain(p) = d.cols
    PROVE  /\ NeedsUsing(p, s) = {} => ColsFit(d, p, s)
           /\ ColsAfter(d, p, s) = Plain(s)
<1> DEFINE e == ColsAfter(d, p, s)
<1>1. ASSUME NEW c \in Cols
      PROVE  /\ p.cols[c] = NoCol <=> d.cols[c] = NoCol
             /\ p.cols[c] # NoCol => /\ p.cols[c].type = d.cols[c].type
                                     /\ p.cols[c].notNull = d.cols[c].notNull
                                     /\ d.cols[c] = DbCol(p.cols[c])
  <2>1. d.cols[c] = IF p.cols[c] = NoCol THEN NoCol ELSE DbCol(p.cols[c])
    BY SchemaAssumption DEF Plain
  <2> QED BY <2>1, DbColAt, SchemaAssumption
<1>2. ASSUME NeedsUsing(p, s) = {} PROVE ColsFit(d, p, s)
  <2>1. /\ AlterColumns(p, s) \subseteq Both(p, s)
        /\ \A c \in Both(p, s) : c \in Cols /\ p.cols[c] # NoCol
    BY DiffsAt DEF AlterColumns
  <2>2. /\ \A c \in AddColumns(p, s) : d.cols[c] = NoCol
        /\ \A c \in AlterColumns(p, s) \cup DropColumns(p, s) : d.cols[c] # NoCol
    BY <1>1, <2>1, DiffsAt
  <2>3. ASSUME NEW c \in AlterColumns(p, s), p.cols[c].type # s.cols[c].type
        PROVE  <<d.cols[c].type, s.cols[c].type>> \in Casts
    <3>1. <<p.cols[c].type, s.cols[c].type>> \in Casts
      BY <1>2, <2>1, <2>3 DEF NeedsUsing
    <3> QED BY <1>1, <2>1, <3>1
  <2> QED BY <2>2, <2>3 DEF ColsFit
<1>3. ASSUME NEW c \in Cols
      PROVE  e[c] = IF s.cols[c] = NoCol THEN NoCol ELSE DbCol(s.cols[c])
  <2>1. /\ c \in AddColumns(p, s) <=> s.cols[c] # NoCol /\ p.cols[c] = NoCol
        /\ c \in DropColumns(p, s) <=> p.cols[c] # NoCol /\ s.cols[c] = NoCol
        /\ c \in AlterColumns(p, s) => p.cols[c] # NoCol /\ s.cols[c] # NoCol
        /\ p.cols[c] # NoCol /\ s.cols[c] # NoCol /\ c \notin AlterColumns(p, s) =>
              p.cols[c].type = s.cols[c].type /\ p.cols[c].notNull = s.cols[c].notNull
    BY DiffsAt DEF AlterColumns
  <2>2. CASE c \in AddColumns(p, s)
    BY <2>1, <2>2 DEF ColsAfter
  <2>3. CASE c \in DropColumns(p, s)
    BY <2>1, <2>3 DEF ColsAfter
  <2>4. CASE c \in AlterColumns(p, s)
    <3>1. e[c] = [type |-> IF p.cols[c].type # s.cols[c].type
                           THEN s.cols[c].type ELSE d.cols[c].type,
                  notNull |-> IF p.cols[c].notNull # s.cols[c].notNull
                              THEN s.cols[c].notNull ELSE d.cols[c].notNull]
      BY <2>1, <2>4 DEF ColsAfter
    <3>2. e[c] = [type |-> s.cols[c].type, notNull |-> s.cols[c].notNull]
      BY <1>1, <2>1, <2>4, <3>1
    <3> QED BY <2>1, <2>4, <3>2 DEF DbCol
  <2>5. CASE c \notin AddColumns(p, s) \cup DropColumns(p, s) \cup AlterColumns(p, s)
    <3>1. e[c] = d.cols[c]
      BY <2>5 DEF ColsAfter
    <3>2. p.cols[c] = NoCol <=> s.cols[c] = NoCol
      BY <2>1, <2>5
    <3>3. s.cols[c] # NoCol => DbCol(p.cols[c]) = DbCol(s.cols[c])
      BY <2>1, <2>5, <3>2 DEF DbCol
    <3> QED BY <1>1, <3>1, <3>2, <3>3
  <2> QED BY <2>2, <2>3, <2>4, <2>5
<1>4. e = [c \in Cols |-> e[c]]
  BY DEF ColsAfter
<1> HIDE DEF e
<1>5. e = Plain(s)
  BY <1>3, <1>4, SchemaAssumption DEF Plain
<1> QED
  BY <1>2, <1>5 DEF e

-----------------------------------------------------------------------------
(* A file, applied.                                                        *)

LEMMA KindOf ==
    ASSUME NEW ch \in Changes, ch.prev # NoTable \/ ch.next # NoTable
    PROVE  /\ Kind(ch) = "create" => ch.prev = NoTable /\ ch.next \in TableSchema
           /\ Kind(ch) = "drop" => ch.prev # NoTable /\ ch.next = NoTable
           /\ Kind(ch) \notin {"create", "drop"} =>
                 Kind(ch) = "alter" /\ ch.prev \in TableSchema /\ ch.next \in TableSchema
           /\ ch.prev = NoTable => Kind(ch) = "create"
<1>1. ch.prev \in TableSchema \cup {NoTable} /\ ch.next \in TableSchema \cup {NoTable}
  BY DEF Changes
<1> QED
  BY <1>1 DEF Kind

(* In Go a table has none of its uniques under both names. *)
DbOK(d) ==
    /\ TableOK(d)
    /\ \A c \in Cols : ~(<<c, "key">> \in d.uniques /\ <<c, "uq">> \in d.uniques)

(* A table that agrees with a schema column by column has that schema. *)
LEMMA ShapeIs ==
    ASSUME NEW d, TableOK(d), NEW s \in TableSchema, d.cols = Plain(s),
           \A n \in IdxNames : d.idx[n] = s.idx[n],
           \A c \in Cols : s.cols[c] # NoCol => (c \in UniqueCols(d) <=> s.cols[c].unique)
    PROVE  Shape(d) = s
<1>1. d \in DbTable
  BY DEF TableOK
<1>2. ASSUME NEW c \in Cols PROVE Shape(d).cols[c] = s.cols[c]
  <2>0. d.cols[c] = IF s.cols[c] = NoCol THEN NoCol ELSE DbCol(s.cols[c])
    BY SchemaAssumption DEF Plain
  <2>1. CASE s.cols[c] = NoCol
    BY <1>1, <2>0, <2>1, ShapeAt
  <2>2. CASE s.cols[c] # NoCol
    <3>1. /\ d.cols[c] # NoCol
          /\ d.cols[c].type = s.cols[c].type /\ d.cols[c].notNull = s.cols[c].notNull
      BY <2>0, <2>2, DbColAt
    <3>2. (c \in UniqueCols(d)) = s.cols[c].unique
      <4>1. s.cols[c].unique \in BOOLEAN
        BY <2>2, ColumnsAt
      <4> QED BY <2>2, <4>1
    <3>3. Shape(d).cols[c] = [type |-> d.cols[c].type, notNull |-> d.cols[c].notNull,
                              unique |-> c \in UniqueCols(d)]
      BY <1>1, <3>1, ShapeAt
    <3>4. s.cols[c] = [type |-> s.cols[c].type, notNull |-> s.cols[c].notNull,
                       unique |-> s.cols[c].unique]
      BY <2>2, ColumnsAt
    <3> QED BY <3>1, <3>2, <3>3, <3>4
  <2> QED BY <2>1, <2>2
<1>3. Shape(d) \in TableSchema /\ Shape(d).idx = d.idx
  BY <1>1, ShapeAt
<1> QED
  BY <1>2, <1>3, SchemaEq

(* ALTER TABLE leaves a table, whichever table it finds. *)
LEMMA GoAlteredType ==
    ASSUME NEW d \in DbTable, NEW p \in TableSchema, NEW s \in TableSchema, ColsFit(d, p, s)
    PROVE  GoAltered(d, p, s) \in DbTable
<1>1. ColsAfter(d, p, s) \in [Cols -> DbColumn \cup {NoCol}]
  BY ColsAfterType
<1>2. UniquesAfter(d, p, s) \subseteq ConstraintNames
  <2>1. d.uniques \subseteq ConstraintNames
    BY DEF DbTable
  <2>2. AddColumns(p, s) \subseteq Cols /\ AddUniqueCols(p, s) \subseteq Cols
    BY DiffsAt DEF AddUniqueCols
  <2> QED BY <2>1, <2>2 DEF UniquesAfter, UqNames, Inline, ConstraintNames
<1>3. IndexesAfter(d, p, s) \in [IdxNames -> Index \cup {NoIdx}]
  <2>1. \A n \in IdxNames : /\ s.idx[n] \in Index \cup {NoIdx}
                            /\ d.idx[n] \in Index \cup {NoIdx}
    BY DEF TableSchema, DbTable
  <2> QED BY <2>1 DEF IndexesAfter
<1> QED
  BY <1>1, <1>2, <1>3 DEF GoAltered, DbTable

(* A file that the database accepts leaves a table or none. *)
LEMMA GoAppliedType ==
    ASSUME NEW d \in DbTable \cup {NoTable}, NEW ch \in Changes,
           ch.prev # NoTable \/ ch.next # NoTable, GoApplies(d, ch)
    PROVE  GoApplied(d, ch) \in DbTable \cup {NoTable}
<1>1. CASE Kind(ch) = "create"
  <2>1. GoApplied(d, ch) = Created(ch.next) /\ ch.next \in TableSchema
    BY <1>1, KindOf DEF GoApplied
  <2> QED BY <2>1, CreatedTable DEF TableOK
<1>2. CASE Kind(ch) = "drop"
  BY <1>2 DEF GoApplied
<1>3. CASE Kind(ch) \notin {"create", "drop"}
  <2>1. GoApplied(d, ch) = GoAltered(d, ch.prev, ch.next)
    BY <1>3 DEF GoApplied
  <2>2. d \in DbTable /\ ColsFit(d, ch.prev, ch.next)
    BY <1>3 DEF GoApplies, Alterable
  <2>3. ch.prev \in TableSchema /\ ch.next \in TableSchema
    BY <1>3, KindOf
  <2> QED BY <2>1, <2>2, <2>3, GoAlteredType
<1> QED
  BY <1>1, <1>2, <1>3

(* ALTER TABLE on a table of the schema it starts from, where the types convert, *)
(* fails for one reason only.                                                    *)
LEMMA AlterFits ==
    ASSUME NEW d, DbOK(d), NEW s \in TableSchema, ~Alterable(d, Shape(d), s),
           NeedsUsing(Shape(d), s) = {}
    PROVE  \E c \in DropUniqueCols(Shape(d), s) :
              <<c, "key">> \in d.uniques /\ <<c, "uq">> \notin d.uniques
<1> DEFINE p == Shape(d)
<1>1. /\ p \in TableSchema /\ p.idx = d.idx
      /\ \A c \in Cols : p.cols[c] = NoCol <=> d.cols[c] = NoCol
  BY ShapeAt DEF DbOK, TableOK
<1>2. ASSUME NEW c \in Cols, d.cols[c] # NoCol
      PROVE  p.cols[c].unique <=> <<c, "key">> \in d.uniques \/ <<c, "uq">> \in d.uniques
  BY <1>2, UniqueAt DEF DbOK
<1>3. ~Alterable(d, p, s) /\ NeedsUsing(p, s) = {}
  OBVIOUS
<1> HIDE DEF p
<1>4. ColsFit(d, p, s)
  BY <1>1, <1>3, PlainShape, ColsAfterSchema DEF p, DbOK, TableOK
<1>5. UqNames(AddUniqueCols(p, s)) \cap d.uniques = {}
  <2>1. ASSUME NEW c \in AddUniqueCols(p, s) PROVE <<c, "uq">> \notin d.uniques
    <3>1. c \in Both(p, s) /\ ~p.cols[c].unique
      BY DEF AddUniqueCols
    <3>2. c \in Cols /\ d.cols[c] # NoCol
      BY <1>1, <3>1, DiffsAt
    <3> QED BY <1>2, <3>1, <3>2
  <2> QED BY <2>1 DEF UqNames
<1>6. /\ \A n \in DropIndexes(p, s) : d.idx[n] # NoIdx
      /\ \A n \in AddIndexes(p, s) \ DropIndexes(p, s) : d.idx[n] = NoIdx
  BY <1>1, DiffsAt
<1>7. PICK c \in DropUniqueCols(p, s) : <<c, "uq">> \notin d.uniques
  BY <1>3, <1>4, <1>5, <1>6 DEF Alterable, UqNames
<1>8. c \in Both(p, s) /\ p.cols[c].unique
  BY DEF DropUniqueCols
<1>9. <<c, "key">> \in d.uniques
  <2>1. c \in Cols /\ d.cols[c] # NoCol
    BY <1>1, <1>8, DiffsAt
  <2> QED BY <1>2, <1>7, <1>8, <2>1
<1> QED
  BY <1>7, <1>9 DEF p

(* And its UNIQUE constraints are those of the schema. *)
LEMMA AlteredUniques ==
    ASSUME NEW d, DbOK(d), NEW s \in TableSchema, Alterable(d, Shape(d), s),
           NEW c \in Cols
    PROVE  LET W == UniquesAfter(d, Shape(d), s)
           IN  /\ s.cols[c] = NoCol => <<c, "key">> \notin W /\ <<c, "uq">> \notin W
               /\ s.cols[c] # NoCol =>
                     (s.cols[c].unique <=> <<c, "key">> \in W \/ <<c, "uq">> \in W)
               /\ ~(<<c, "key">> \in W /\ <<c, "uq">> \in W)
<1> DEFINE p == Shape(d)
           W == UniquesAfter(d, p, s)
<1>1. p \in TableSchema /\ (p.cols[c] = NoCol <=> d.cols[c] = NoCol)
  BY ShapeAt DEF DbOK, TableOK
<1>2. /\ d.cols[c] # NoCol =>
            (p.cols[c].unique <=> <<c, "key">> \in d.uniques \/ <<c, "uq">> \in d.uniques)
      /\ d.cols[c] = NoCol => <<c, "key">> \notin d.uniques /\ <<c, "uq">> \notin d.uniques
      /\ ~(<<c, "key">> \in d.uniques /\ <<c, "uq">> \in d.uniques)
  BY UniqueAt DEF DbOK, TableOK
<1>3. c \in DropUniqueCols(p, s) => <<c, "uq">> \in d.uniques
  BY DEF Alterable, UqNames
<1> HIDE DEF p
<1>4. /\ c \in AddColumns(p, s) <=> s.cols[c] # NoCol /\ p.cols[c] = NoCol
      /\ c \in DropColumns(p, s) <=> p.cols[c] # NoCol /\ s.cols[c] = NoCol
      /\ c \in Both(p, s) <=> p.cols[c] # NoCol /\ s.cols[c] # NoCol
  BY <1>1, DiffsAt
<1>5. /\ c \in AddUniqueCols(p, s) <=> c \in Both(p, s) /\ ~p.cols[c].unique /\ s.cols[c].unique
      /\ c \in DropUniqueCols(p, s) <=> c \in Both(p, s) /\ p.cols[c].unique /\ ~s.cols[c].unique
  BY DEF AddUniqueCols, DropUniqueCols
<1>6. <<c, "key">> \in W <=>
        /\ <<c, "key">> \in d.uniques \/ (c \in AddColumns(p, s) /\ s.cols[c].unique)
        /\ c \notin DropColumns(p, s)
  BY DEF UniquesAfter, UqNames, Inline
<1>7. <<c, "uq">> \in W <=>
        /\ <<c, "uq">> \in d.uniques \/ c \in AddUniqueCols(p, s)
        /\ c \notin DropUniqueCols(p, s) /\ c \notin DropColumns(p, s)
  BY DEF UniquesAfter, UqNames, Inline
<1> HIDE DEF W
<1>8. /\ s.cols[c] = NoCol => <<c, "key">> \notin W /\ <<c, "uq">> \notin W
      /\ s.cols[c] # NoCol =>
            (s.cols[c].unique <=> <<c, "key">> \in W \/ <<c, "uq">> \in W)
      /\ ~(<<c, "key">> \in W /\ <<c, "uq">> \in W)
  BY <1>1, <1>2, <1>3, <1>4, <1>5, <1>6, <1>7
<1> QED
  BY <1>8 DEF W, p

LEMMA AlteredShape ==
    ASSUME NEW d, DbOK(d), NEW s \in TableSchema, Alterable(d, Shape(d), s)
    PROVE  DbOK(GoAltered(d, Shape(d), s)) /\ Shape(GoAltered(d, Shape(d), s)) = s
<1> DEFINE p == Shape(d)
           e == GoAltered(d, p, s)
<1>1. /\ e.cols = ColsAfter(d, p, s) /\ e.uniques = UniquesAfter(d, p, s)
      /\ e.idx = IndexesAfter(d, p, s)
      /\ e \in DbTable
  <2>1. Shape(d) \in TableSchema /\ d \in DbTable
    BY ShapeAt DEF DbOK, TableOK
  <2> QED BY <2>1, GoAlteredType DEF GoAltered, Alterable
<1>2. p \in TableSchema /\ p.idx = d.idx /\ Plain(p) = d.cols
  BY ShapeAt, PlainShape DEF DbOK, TableOK
<1>3. e.cols = Plain(s)
  BY <1>1, <1>2, ColsAfterSchema DEF DbOK, TableOK
<1>4. \A c \in Cols :
        /\ s.cols[c] = NoCol => <<c, "key">> \notin e.uniques /\ <<c, "uq">> \notin e.uniques
        /\ s.cols[c] # NoCol =>
              (s.cols[c].unique <=> <<c, "key">> \in e.uniques \/ <<c, "uq">> \in e.uniques)
        /\ ~(<<c, "key">> \in e.uniques /\ <<c, "uq">> \in e.uniques)
  BY <1>1, AlteredUniques
<1>5. \A n \in IdxNames : e.idx[n] = s.idx[n]
  <2> SUFFICES ASSUME NEW n \in IdxNames PROVE e.idx[n] = s.idx[n]
    OBVIOUS
  <2>1. e.idx[n] = IF n \in AddIndexes(p, s) THEN s.idx[n]
                   ELSE IF n \in DropIndexes(p, s) THEN NoIdx ELSE d.idx[n]
    BY <1>1 DEF IndexesAfter
  <2>2. /\ n \in AddIndexes(p, s) <=> s.idx[n] # NoIdx /\ p.idx[n] # s.idx[n]
        /\ n \in DropIndexes(p, s) <=> p.idx[n] # NoIdx /\ p.idx[n] # s.idx[n]
    BY <1>2, DiffsAt
  <2> HIDE DEF e, p
  <2> QED BY <1>2, <2>1, <2>2
<1> HIDE DEF e, p
<1>6. DbOK(e)
  <2>1. \A u \in e.uniques : e.cols[u[1]] # NoCol
    <3> SUFFICES ASSUME NEW u \in e.uniques PROVE e.cols[u[1]] # NoCol
      OBVIOUS
    <3>1. PICK c \in Cols : u = <<c, "key">> \/ u = <<c, "uq">>
      BY <1>1 DEF DbTable, ConstraintNames
    <3>2. u[1] = c
      BY <3>1
    <3>3. s.cols[c] # NoCol
      BY <1>4, <3>1
    <3>4. e.cols[c] = DbCol(s.cols[c])
      BY <1>3, <3>3, SchemaAssumption DEF Plain
    <3> QED BY <3>2, <3>3, <3>4, DbColAt
  <2> QED BY <1>1, <1>4, <2>1 DEF DbOK, TableOK
<1>7. \A c \in Cols : s.cols[c] # NoCol => (c \in UniqueCols(e) <=> s.cols[c].unique)
  BY <1>4 DEF UniqueCols
<1>8. Shape(e) = s
  BY <1>3, <1>5, <1>6, <1>7, ShapeIs DEF DbOK
<1> QED
  BY <1>6, <1>8 DEF e, p

(* One file, on a table of the schema it starts from. *)
LEMMA AppliedShape ==
    ASSUME NEW d, d = NoTable \/ DbOK(d), NEW ch \in Changes,
           ch.prev # NoTable \/ ch.next # NoTable, ch.prev = Shape(d), GoApplies(d, ch)
    PROVE  /\ GoApplied(d, ch) = NoTable \/ DbOK(GoApplied(d, ch))
           /\ Shape(GoApplied(d, ch)) = ch.next
<1>1. CASE Kind(ch) = "create"
  <2>1. GoApplied(d, ch) = Created(ch.next) /\ ch.next \in TableSchema
    BY <1>1, KindOf DEF GoApplied
  <2>2. DbOK(Created(ch.next))
    <3>1. \A c \in Cols : <<c, "uq">> \notin Created(ch.next).uniques
      BY <2>1, CreatedTable
    <3> QED BY <2>1, <3>1, CreatedTable DEF DbOK
  <2>3. Shape(Created(ch.next)) = ch.next
    <3> HIDE DEF Created
    <3>1. /\ TableOK(Created(ch.next)) /\ Created(ch.next).cols = Plain(ch.next)
          /\ \A n \in IdxNames : Created(ch.next).idx[n] = ch.next.idx[n]
          /\ \A c \in Cols : ch.next.cols[c] # NoCol =>
                (c \in UniqueCols(Created(ch.next)) <=> ch.next.cols[c].unique)
      BY <2>1, CreatedTable
    <3> QED BY <2>1, <3>1, ShapeIs
  <2> QED BY <2>1, <2>2, <2>3
<1>2. CASE Kind(ch) = "drop"
  <2>1. GoApplied(d, ch) = NoTable
    BY <1>2 DEF GoApplied
  <2> QED BY <1>2, <2>1, KindOf DEF Shape
<1>3. CASE Kind(ch) \notin {"create", "drop"}
  <2>1. GoApplied(d, ch) = GoAltered(d, Shape(d), ch.next)
    BY <1>3 DEF GoApplied
  <2>2. d # NoTable /\ Alterable(d, Shape(d), ch.next)
    BY <1>3 DEF GoApplies
  <2>3. ch.next \in TableSchema
    BY <1>3, KindOf
  <2> QED BY <2>1, <2>2, <2>3, AlteredShape
<1> QED
  BY <1>1, <1>2, <1>3

(* It is refused for two reasons only. *)
LEMMA FailsKnown ==
    ASSUME NEW d, d = NoTable \/ DbOK(d), NEW ch \in Changes,
           ch.prev # NoTable \/ ch.next # NoTable, ch.prev = Shape(d), ~GoApplies(d, ch)
    PROVE  /\ Kind(ch) = "alter"
           /\ \/ TypeRefused(ch)
              \/ \E c \in DropUniqueCols(ch.prev, ch.next) :
                    <<c, "key">> \in d.uniques /\ <<c, "uq">> \notin d.uniques
<1>1. d = NoTable <=> ch.prev = NoTable
  BY ShapeAt DEF Shape, DbOK, TableOK
<1>2. Kind(ch) # "create"
  BY <1>1, KindOf DEF GoApplies
<1>3. Kind(ch) # "drop"
  BY <1>1, <1>2, KindOf DEF GoApplies
<1>4. Kind(ch) = "alter" /\ d # NoTable /\ ch.next \in TableSchema
  BY <1>1, <1>2, <1>3, KindOf
<1>5. ~Alterable(d, Shape(d), ch.next)
  BY <1>4 DEF GoApplies
<1>6. CASE NeedsUsing(ch.prev, ch.next) = {}
  BY <1>4, <1>5, <1>6, AlterFits
<1>7. CASE NeedsUsing(ch.prev, ch.next) # {}
  BY <1>4, <1>7 DEF TypeRefused
<1> QED
  BY <1>4, <1>6, <1>7

-----------------------------------------------------------------------------
(* The files that wait.  A view says what of a schema they are followed by: *)
(* in Go all of it, in Python whether it is there and its columns but for   *)
(* their UNIQUEs.                                                          *)

GoView == [s \in TableSchema \cup {NoTable} |-> s]
PyView == [s \in TableSchema \cup {NoTable} |-> IF s = NoTable THEN {} ELSE {Plain(s)}]

(* The files fs of one table, and what each leads from and to. *)
Link(view, f) == [at |-> f.version, from |-> view[f.change.prev], to |-> view[f.change.next]]
Links(view, fs, t) == {Link(view, f) : f \in {g \in fs : g.change.table = t}}

(* Links lead from x to y: the first starts at x, each goes on where the one *)
(* before it ends, the last ends at y.                                       *)
Leads(L, x, y) ==
    /\ L = {} => x = y
    /\ \A l \in L : (\A k \in L : l.at <= k.at) => l.from = x
    /\ \A k, l \in L : k.at < l.at /\ (~\E m \in L : k.at < m.at /\ m.at < l.at)
            => l.from = k.to
    /\ \A l \in L : (\A k \in L : k.at <= l.at) => l.to = y

LEMMA LeadsOn ==
    ASSUME NEW L, NEW x, NEW y, NEW l, Leads(L, x, y), l.from = y,
           l.at \in Nat, \A k \in L : k.at \in Nat /\ k.at < l.at
    PROVE  Leads(L \cup {l}, x, l.to)
<1>1. ASSUME NEW m \in L \cup {l}, \A k \in L \cup {l} : m.at <= k.at
      PROVE  m.from = x
  <2>1. CASE m \in L
    BY <1>1, <2>1 DEF Leads
  <2>2. CASE m \notin L
    <3>1. m = l /\ L = {}
      BY <1>1, <2>2
    <3> QED BY <3>1 DEF Leads
  <2> QED BY <2>1, <2>2
<1>2. ASSUME NEW k \in L \cup {l}, NEW n \in L \cup {l}, k.at < n.at,
             ~\E m \in L \cup {l} : k.at < m.at /\ m.at < n.at
      PROVE  n.from = k.to
  <2>1. k \in L
    BY <1>2
  <2>2. CASE n \in L
    BY <1>2, <2>1, <2>2 DEF Leads
  <2>3. CASE n = l
    <3>1. \A m \in L : m.at <= k.at
      BY <1>2, <2>1, <2>3
    <3> QED BY <2>1, <2>3, <3>1 DEF Leads
  <2> QED BY <2>2, <2>3
<1>3. ASSUME NEW m \in L \cup {l}, \A k \in L \cup {l} : k.at <= m.at
      PROVE  m.to = l.to
  BY <1>3
<1> QED
  BY <1>1, <1>2, <1>3 DEF Leads

LEMMA LeadsFrom ==
    ASSUME NEW L, NEW x, NEW y, NEW l \in L, Leads(L, x, y),
           l.at \in Nat, \A k \in L \ {l} : k.at \in Nat /\ l.at < k.at
    PROVE  l.from = x /\ Leads(L \ {l}, l.to, y)
<1>1. l.from = x
  BY DEF Leads
<1>2. L \ {l} = {} => l.to = y
  BY DEF Leads
<1>3. ASSUME NEW m \in L \ {l}, \A k \in L \ {l} : m.at <= k.at
      PROVE  m.from = l.to
  <2>1. ~\E k \in L : l.at < k.at /\ k.at < m.at
    BY <1>3
  <2> QED BY <1>3, <2>1 DEF Leads
<1>4. ASSUME NEW k \in L \ {l}, NEW n \in L \ {l}, k.at < n.at,
             ~\E m \in L \ {l} : k.at < m.at /\ m.at < n.at
      PROVE  n.from = k.to
  <2>1. ~\E m \in L : k.at < m.at /\ m.at < n.at
    BY <1>4
  <2> QED BY <1>4, <2>1 DEF Leads
<1>5. ASSUME NEW m \in L \ {l}, \A k \in L \ {l} : k.at <= m.at
      PROVE  m.to = y
  <2>1. \A k \in L : k.at <= m.at
    BY <1>5
  <2> QED BY <1>5, <2>1 DEF Leads
<1> QED
  BY <1>1, <1>2, <1>3, <1>4, <1>5 DEF Leads

(* The first file less. *)
LEMMA LinksFrom ==
    ASSUME NEW view, NEW fs, NEW f \in fs, NEW t,
           \A g, h \in fs : g.version = h.version => g = h
    PROVE  /\ f.change.table = t =>
                 Links(view, fs \ {f}, t) = Links(view, fs, t) \ {Link(view, f)}
           /\ f.change.table # t => Links(view, fs \ {f}, t) = Links(view, fs, t)
<1>1. \A g \in fs : g # f => Link(view, g) # Link(view, f)
  <2> SUFFICES ASSUME NEW g \in fs, Link(view, g) = Link(view, f) PROVE g = f
    OBVIOUS
  <2>1. Link(view, g).at = g.version /\ Link(view, f).at = f.version
    BY DEF Link
  <2> QED BY <2>1
<1>2. CASE f.change.table = t
  BY <1>1, <1>2 DEF Links
<1>3. CASE f.change.table # t
  BY <1>3 DEF Links
<1> QED
  BY <1>2, <1>3

-----------------------------------------------------------------------------
(* The generator's side, common to both stacks.                            *)

(* Every change there can be between two schemas; a run finds some of them. *)
AllChanges(p, s) ==
    {Change(t, p[t], s[t]) : t \in {u \in Tables : p[u] # NoTable \/ s[u] # NoTable}}

(* The run is one that StartRun began. *)
RunOK ==
    run # Idle =>
        /\ run \in [base : Nat \ {0}, done : Nat, todo : SUBSET Changes, target : Schema]
        /\ run.todo \subseteq AllChanges(snapshot, run.target)

FilesOK == \A f \in files : f.change.prev # NoTable \/ f.change.next # NoTable

(* The files fs of version v. *)
OfVersion(fs, v) == {f \in fs : f.version = v}

(* A version has one file more than runs were started soon; one that the run in *)
(* progress may still write has as many at most.                                *)
Counted ==
    \A v \in Nat : Cardinality(OfVersion(files, v)) <=
                      soon + (IF run # Idle /\ v >= run.base + run.done THEN 0 ELSE 1)

GInv == GenTypeOK /\ clock >= 1 /\ Counted /\ RunOK /\ FilesOK

(* Of the changes a run has found, it still has to write those it has not; what *)
(* it has written it does not write over.                                       *)
TodoLeft(r, fs, found) ==
    r # Idle =>
        /\ r.todo \subseteq found
        /\ \A ch \in found \ r.todo :
              \E f \in fs : f.change = ch /\ f.version < r.base + r.done

(* What the files written so far lead to. *)
Current(t) ==
    IF run # Idle /\ \A ch \in run.todo : ch.table # t
    THEN run.target[t] ELSE snapshot[t]

LEMMA ChangeAt ==
    ASSUME NEW p \in Schema, NEW s \in Schema, NEW ch \in AllChanges(p, s)
    PROVE  /\ ch.table \in Tables /\ ch.prev = p[ch.table] /\ ch.next = s[ch.table]
           /\ ch = Change(ch.table, p[ch.table], s[ch.table]) /\ ch \in Changes
           /\ ch.prev # NoTable \/ ch.next # NoTable
<1>1. PICK t \in Tables : /\ ch = Change(t, p[t], s[t])
                          /\ p[t] # NoTable \/ s[t] # NoTable
  BY DEF AllChanges
<1>2. p[t] \in TableSchema \cup {NoTable} /\ s[t] \in TableSchema \cup {NoTable}
  BY DEF Schema
<1> QED
  BY <1>1, <1>2 DEF Change, Changes

(* A run that is not Idle, and the files it may still write. *)
LEMMA RunAt ==
    ASSUME GInv, run # Idle
    PROVE  /\ run \in [base : Nat \ {0}, done : Nat, todo : SUBSET Changes, target : Schema]
           /\ run = [base |-> run.base, done |-> run.done, todo |-> run.todo,
                     target |-> run.target]
           /\ run.base \in Nat \ {0} /\ run.done \in Nat /\ Stamp(run) \in Nat \ {0}
           /\ run.todo \subseteq Changes /\ run.target \in Schema
           /\ run.todo \subseteq AllChanges(snapshot, run.target)
<1>1. run \in [base : Nat \ {0}, done : Nat, todo : SUBSET Changes, target : Schema]
  BY DEF GInv, RunOK
<1> QED
  BY <1>1 DEF GInv, RunOK, Stamp

(* A run that has begun is not Idle. *)
LEMMA NotIdle ==
    ASSUME NEW b \in Nat \ {0}, NEW n, NEW todo, NEW s
    PROVE  [base |-> b, done |-> n, todo |-> todo, target |-> s] # Idle
<1>1. Idle.base = 0
  BY DEF Idle
<1>2. [base |-> b, done |-> n, todo |-> todo, target |-> s].base = b
  OBVIOUS
<1> QED
  BY <1>1, <1>2

(* How many files a version has is a number, and none only if there is none. *)
LEMMA VersionCard ==
    ASSUME NEW fs, IsFiniteSet(fs), NEW v
    PROVE  /\ IsFiniteSet(OfVersion(fs, v)) /\ Cardinality(OfVersion(fs, v)) \in Nat
           /\ Cardinality(OfVersion(fs, v)) = 0 <=> OfVersion(fs, v) = {}
<1>1. OfVersion(fs, v) \subseteq fs
  BY DEF OfVersion
<1>2. IsFiniteSet(OfVersion(fs, v))
  BY <1>1, FS_Subset
<1> QED
  BY <1>2, FS_CardinalityType, FS_EmptySet

(* Where no run was started soon, versions are distinct and the files of the run *)
(* in progress come after all others.                                            *)
LEMMA NotSoon ==
    ASSUME GInv, soon = 0
    PROVE  /\ VersionsDistinct
           /\ run # Idle => \A f \in files : f.version < run.base + run.done
<1>1. /\ IsFiniteSet(files) /\ \A f \in files : f.version \in Nat
      /\ \A v \in Nat : Cardinality(OfVersion(files, v)) <=
              (IF run # Idle /\ v >= run.base + run.done THEN 0 ELSE 1)
  <2>1. ASSUME NEW v \in Nat, NEW n \in {0, 1}, Cardinality(OfVersion(files, v)) <= soon + n
        PROVE  Cardinality(OfVersion(files, v)) <= n
    BY <2>1
  <2> QED BY <2>1 DEF GInv, GenTypeOK, Counted
<1>2. ASSUME NEW f \in files, NEW g \in files, f.version = g.version
      PROVE  f = g
  <2> DEFINE F == OfVersion(files, f.version)
  <2>1. IsFiniteSet(F) /\ Cardinality(F) \in Nat /\ f \in F /\ g \in F
    BY <1>1, <1>2, VersionCard DEF OfVersion
  <2>2. Cardinality(F) <= 1 /\ Cardinality(F) # 0
    <3>1. Cardinality(F) <= 1
      BY <1>1, <2>1
    <3>2. F # {}
      BY <2>1
    <3> QED BY <1>1, <3>1, <3>2, VersionCard
  <2> HIDE DEF F
  <2>3. PICK x : F = {x}
    BY <2>1, <2>2, FS_Singleton
  <2> QED BY <2>1, <2>3
<1>3. ASSUME run # Idle, NEW f \in files
      PROVE  f.version < run.base + run.done
  <2>1. CASE f.version >= run.base + run.done
    <3>1. Cardinality(OfVersion(files, f.version)) <= 0
      BY <1>1, <1>3, <2>1
    <3>2. OfVersion(files, f.version) = {}
      BY <1>1, <3>1, VersionCard
    <3> QED BY <3>2 DEF OfVersion
  <2>2. f.version \in Nat /\ run.base \in Nat /\ run.done \in Nat
    BY <1>1, <1>3, RunAt
  <2> QED BY <2>1, <2>2
<1> QED
  BY <1>2, <1>3 DEF VersionsDistinct

(* Writing a file adds one, and overwrites those of its name. *)
LEMMA WriteAdds ==
    ASSUME GInv, NEW chs, chs \subseteq run.todo, Write(chs)
    PROVE  /\ run # Idle
           /\ \E ch \in run.todo :
                 /\ files' = {g \in files : ~SameName(File(Stamp(run), ch), g)}
                               \cup {File(Stamp(run), ch)}
                 /\ run' = [base |-> run.base, done |-> run.done + 1,
                            todo |-> run.todo \ {ch}, target |-> run.target]
                 /\ run' # Idle /\ run'.base = run.base /\ run'.done = run.done + 1
                 /\ run'.todo = run.todo \ {ch} /\ run'.target = run.target
           /\ UNCHANGED <<entities, snapshot, clock, stops, soon>>
<1>1. PICK ch \in chs :
          /\ files' = {g \in files : ~SameName(File(Stamp(run), ch), g)}
                        \cup {File(Stamp(run), ch)}
          /\ run' = [run EXCEPT !.done = @ + 1, !.todo = @ \ {ch}]
  BY DEF Write
<1>2. ch \in run.todo
  OBVIOUS
<1>3. run # Idle
  BY <1>2 DEF Idle
<1>5. run' = [base |-> run.base, done |-> run.done + 1,
              todo |-> run.todo \ {ch}, target |-> run.target]
  BY <1>1, <1>3, RunAt
<1>6. run' # Idle
  BY <1>3, <1>5, RunAt, NotIdle
<1>7. UNCHANGED <<entities, snapshot, clock, stops, soon>>
  BY DEF Write
<1> QED
  BY <1>1, <1>2, <1>3, <1>5, <1>6, <1>7

(* Where no run was started soon, no other file has its version, let alone its   *)
(* name.                                                                         *)
LEMMA WriteAddsOnly ==
    ASSUME GInv, soon = 0, run # Idle, NEW ch,
           files' = {g \in files : ~SameName(File(Stamp(run), ch), g)}
                      \cup {File(Stamp(run), ch)}
    PROVE  /\ files' = files \cup {File(Stamp(run), ch)}
           /\ \A g \in files : g.version < Stamp(run)
<1>1. \A g \in files : g.version < Stamp(run) /\ g.version \in Nat
  BY NotSoon DEF GInv, GenTypeOK, Stamp
<1>2. Stamp(run) \in Nat
  BY RunAt
<1>3. ASSUME NEW g \in files PROVE ~SameName(File(Stamp(run), ch), g)
  BY <1>1, <1>2 DEF SameName, File
<1> QED
  BY <1>1, <1>3

(* The invariant of the generator's side, action by action. *)
LEMMA EditTickKeep ==
    ASSUME GInv, UNCHANGED db,
           Tick \/ \E t \in Tables : \E s \in EntitySchemas[t] \cup {NoTable} : Edit(t, s)
    PROVE  GInv' /\ UNCHANGED <<snapshot, files, run, stops, soon>>
<1>1. UNCHANGED <<snapshot, files, run, stops, soon>>
  BY DEF Tick, Edit
<1>2. clock' \in Nat /\ clock' >= 1
  BY DEF Tick, Edit, GInv, GenTypeOK
<1>3. entities' \in Schema
  <2>1. CASE Tick
    BY <2>1 DEF Tick, GInv, GenTypeOK
  <2>2. ASSUME NEW t \in Tables, NEW s \in EntitySchemas[t] \cup {NoTable}, Edit(t, s)
        PROVE  entities' \in Schema
    <3>1. s \in TableSchema \cup {NoTable}
      BY RunAssumption
    <3> QED BY <2>2, <3>1 DEF Edit, Schema, GInv, GenTypeOK
  <2> QED BY <2>1, <2>2
<1>4. GenTypeOK'
  BY <1>1, <1>2, <1>3 DEF GInv, GenTypeOK
<1> QED
  BY <1>1, <1>2, <1>4 DEF GInv, RunOK, FilesOK, Counted

LEMMA StartKeeps ==
    ASSUME GInv, NEW chs, chs \subseteq AllChanges(snapshot, entities), StartRun(chs), UNCHANGED db
    PROVE  /\ GInv' /\ UNCHANGED <<entities, snapshot, files, clock, stops>>
           /\ run = Idle /\ run' # Idle /\ run'.todo = chs /\ run'.target = entities
           /\ soon' \in Nat /\ soon' >= soon
<1>1. /\ UNCHANGED <<entities, snapshot, files, clock, stops>> /\ run = Idle
      /\ run' = [base |-> clock, done |-> 0, todo |-> chs, target |-> entities]
      /\ \/ (\A f \in files : f.version < clock) /\ soon' = soon
         \/ soon' = soon + 1
  BY DEF StartRun
<1>2. /\ clock \in Nat \ {0} /\ snapshot \in Schema /\ entities \in Schema
      /\ soon \in Nat /\ soon' \in Nat /\ soon' >= soon
      /\ IsFiniteSet(files) /\ \A f \in files : f.version \in Nat
  BY <1>1 DEF GInv, GenTypeOK
<1>3. chs \in SUBSET Changes
  BY <1>2, ChangeAt
<1>4. run' # Idle
  BY <1>1, <1>2, NotIdle
<1>5. /\ run' \in [base : Nat \ {0}, done : Nat, todo : SUBSET Changes, target : Schema]
      /\ run'.base = clock /\ run'.done = 0 /\ run'.todo = chs /\ run'.target = entities
  BY <1>1, <1>2, <1>3
<1>6. GenTypeOK'
  BY <1>1, <1>2, <1>3, <1>5 DEF GInv, GenTypeOK
<1>7. RunOK'
  <2>1. AllChanges(snapshot, run.target)' = AllChanges(snapshot, entities)
    BY <1>1, <1>5 DEF AllChanges
  <2> QED BY <1>1, <1>2, <1>5, <2>1 DEF RunOK
<1>8. Counted'
  <2> SUFFICES ASSUME NEW v \in Nat
               PROVE  Cardinality(OfVersion(files, v)) <=
                        soon' + (IF v >= clock THEN 0 ELSE 1)
    <3>1. run'.base + run'.done = clock
      BY <1>2, <1>5
    <3> QED BY <1>1, <1>4, <3>1 DEF Counted, OfVersion
  <2> DEFINE n == Cardinality(OfVersion(files, v))
  <2>1. n \in Nat /\ (n = 0 <=> OfVersion(files, v) = {})
    BY <1>2, VersionCard
  <2>2. n <= soon + 1
    BY <1>1 DEF GInv, Counted
  <2>3. CASE (\A f \in files : f.version < clock) /\ soon' = soon
    <3>1. v >= clock => OfVersion(files, v) = {}
      BY <1>2, <2>3 DEF OfVersion
    <3> HIDE DEF n
    <3>2. v >= clock => n = 0
      BY <2>1, <3>1
    <3> QED BY <1>2, <2>1, <2>2, <2>3, <3>2 DEF n
  <2>4. CASE soon' = soon + 1
    <3> HIDE DEF n
    <3> QED BY <1>2, <2>1, <2>2, <2>4 DEF n
  <2> QED BY <1>1, <2>3, <2>4
<1>9. FilesOK' /\ clock' >= 1
  BY <1>1 DEF GInv, FilesOK
<1> QED
  BY <1>1, <1>2, <1>4, <1>5, <1>6, <1>7, <1>8, <1>9 DEF GInv

LEMMA WriteKeeps ==
    ASSUME GInv, NEW chs, chs \subseteq run.todo, Write(chs), UNCHANGED db
    PROVE  GInv'
<1>1. /\ run # Idle /\ UNCHANGED <<entities, snapshot, clock, stops, soon>>
  BY WriteAdds
<1>2. PICK ch \in run.todo :
          /\ files' = {g \in files : ~SameName(File(Stamp(run), ch), g)}
                        \cup {File(Stamp(run), ch)}
          /\ run' = [base |-> run.base, done |-> run.done + 1,
                     todo |-> run.todo \ {ch}, target |-> run.target]
          /\ run' # Idle /\ run'.base = run.base /\ run'.done = run.done + 1
          /\ run'.todo = run.todo \ {ch} /\ run'.target = run.target
  BY WriteAdds
<1> DEFINE f == File(Stamp(run), ch)
           kept == {g \in files : ~SameName(File(Stamp(run), ch), g)}
<1>3. /\ f.version = Stamp(run) /\ f.change = ch
      /\ files' = kept \cup {f} /\ kept \subseteq files
  BY <1>2 DEF File
<1>4. /\ run.base \in Nat \ {0} /\ run.done \in Nat /\ Stamp(run) \in Nat \ {0}
      /\ run.todo \subseteq Changes /\ run.target \in Schema /\ snapshot \in Schema
      /\ run.todo \subseteq AllChanges(snapshot, run.target)
      /\ Stamp(run) = run.base + run.done
  BY <1>1, RunAt DEF GInv, GenTypeOK, Stamp
<1>5. /\ IsFiniteSet(files) /\ soon \in Nat
      /\ \A g \in files : g.version \in Nat /\ g.change \in Changes
  BY DEF GInv, GenTypeOK
<1> HIDE DEF f, kept
<1>6. run' \in [base : Nat \ {0}, done : Nat, todo : SUBSET Changes, target : Schema]
  BY <1>2, <1>4
<1>7. GenTypeOK'
  <2>1. IsFiniteSet(files')
    BY <1>3, <1>5, FS_Subset, FS_AddElement
  <2>2. \A g \in files' : g.version \in Nat /\ g.change \in Changes
    BY <1>3, <1>4, <1>5
  <2>3. /\ entities' \in Schema /\ snapshot' \in Schema /\ clock' \in Nat /\ stops' \in Nat
        /\ soon' \in Nat /\ db' \in [Tables -> DbTable \cup {NoTable}]
    BY <1>1 DEF GInv, GenTypeOK
  <2>4. /\ run'.base \in Nat /\ run'.done \in Nat /\ run'.todo \subseteq Changes
        /\ run'.target \in Schema
    BY <1>2, <1>4
  <2> QED BY <2>1, <2>2, <2>3, <2>4 DEF GenTypeOK
<1>8. RunOK'
  <2>1. AllChanges(snapshot, run.target)' = AllChanges(snapshot, run.target)
    BY <1>1, <1>2 DEF AllChanges
  <2> QED BY <1>2, <1>4, <1>6, <2>1 DEF RunOK
<1>9. FilesOK'
  <2>1. ch.prev # NoTable \/ ch.next # NoTable
    BY <1>4, ChangeAt
  <2> QED BY <1>3, <2>1 DEF GInv, FilesOK
<1>10. Counted'
  <2> SUFFICES ASSUME NEW v \in Nat
               PROVE  Cardinality(OfVersion(files', v)) <=
                        soon + (IF v >= Stamp(run) + 1 THEN 0 ELSE 1)
    <3>1. run'.base + run'.done = Stamp(run) + 1
      BY <1>2, <1>4
    <3> QED BY <1>1, <1>2, <3>1 DEF Counted, OfVersion
  <2> DEFINE F == OfVersion(files, v)
             K == OfVersion(kept, v)
  <2>1. IsFiniteSet(F) /\ Cardinality(F) \in Nat
    BY <1>5, VersionCard
  <2>2. K \subseteq F
    BY <1>3 DEF OfVersion
  <2>3. /\ v >= Stamp(run) => Cardinality(F) <= soon
        /\ Cardinality(F) <= soon + 1
    <3> DEFINE n == Cardinality(F)
    <3>1. n <= soon + (IF v >= Stamp(run) THEN 0 ELSE 1)
      BY <1>1, <1>4 DEF GInv, Counted
    <3> HIDE DEF n
    <3> QED BY <1>5, <2>1, <3>1 DEF n
  <2> HIDE DEF F, K
  <2>4. IsFiniteSet(K) /\ Cardinality(K) \in Nat /\ Cardinality(K) <= Cardinality(F)
    BY <2>1, <2>2, FS_Subset, FS_CardinalityType
  <2>5. CASE v = Stamp(run)
    <3>1. OfVersion(files', v) = K \cup {f}
      BY <1>3, <2>5 DEF K, OfVersion
    <3>2. Cardinality(K \cup {f}) \in Nat /\ Cardinality(K \cup {f}) <= Cardinality(K) + 1
      BY <2>4, FS_AddElement
    <3> QED BY <1>4, <1>5, <2>1, <2>3, <2>4, <2>5, <3>1, <3>2
  <2>6. CASE v # Stamp(run)
    <3>1. OfVersion(files', v) = K
      BY <1>3, <2>6 DEF K, OfVersion
    <3> QED BY <1>4, <1>5, <2>1, <2>3, <2>4, <2>6, <3>1
  <2> QED BY <2>5, <2>6
<1>11. clock' >= 1
  BY <1>1 DEF GInv
<1> QED
  BY <1>7, <1>8, <1>9, <1>10, <1>11 DEF GInv

LEMMA RunEndsKeeps ==
    ASSUME GInv, SaveSnapshot \/ StopRun, UNCHANGED db
    PROVE  /\ GInv' /\ run' = Idle /\ files' = files /\ soon' = soon
           /\ stops' = stops \/ (stops' = stops + 1 /\ stops \in Nat)
<1>1. /\ run # Idle /\ run' = Idle /\ UNCHANGED <<entities, files, clock, soon>>
      /\ snapshot' \in {snapshot, run.target} /\ stops' \in {stops, stops + 1}
  BY DEF SaveSnapshot, StopRun
<1>2. run.target \in Schema
  BY <1>1, RunAt
<1>3. GenTypeOK'
  BY <1>1, <1>2 DEF GInv, GenTypeOK, Idle
<1>4. Counted'
  <2> SUFFICES ASSUME NEW v \in Nat
               PROVE  Cardinality(OfVersion(files, v)) <= soon + 1
    BY <1>1 DEF Counted, OfVersion
  <2>1. /\ Cardinality(OfVersion(files, v)) \in Nat /\ soon \in Nat
    BY VersionCard DEF GInv, GenTypeOK
  <2>2. \/ Cardinality(OfVersion(files, v)) <= soon + 0
        \/ Cardinality(OfVersion(files, v)) <= soon + 1
    BY DEF GInv, Counted
  <2> QED BY <2>1, <2>2
<1> QED
  BY <1>1, <1>3, <1>4 DEF GInv, GenTypeOK, RunOK, FilesOK

(* The database has taken a file. *)
LEMMA DatabaseKeeps ==
    ASSUME GInv, UNCHANGED genVars, db' \in [Tables -> DbTable \cup {NoTable}]
    PROVE  GInv'
<1>1. UNCHANGED <<entities, snapshot, files, run, clock, stops, soon>>
  BY DEF genVars
<1>2. GenTypeOK'
  BY <1>1 DEF GInv, GenTypeOK
<1> QED
  BY <1>1, <1>2 DEF GInv, RunOK, FilesOK, Counted

-----------------------------------------------------------------------------
(* The chain of files, common to both stacks: for every table, the files fs *)
(* that wait lead from the table as it is to the current schema.            *)

Chain(view, fs, t) == Leads(Links(view, fs, t), view[Shape(db[t])], view[Current(t)])

(* The file a run writes goes on where the files of its table end. *)
LEMMA WriteChained ==
    ASSUME GInv, soon = 0, NEW chs, chs \subseteq run.todo, Write(chs), UNCHANGED db,
           NEW view, NEW fs, fs \subseteq files,
           \A t \in Tables : Chain(view, fs, t), NEW t \in Tables
    PROVE  \E f \in files' :
              /\ files' = files \cup {f} /\ f.version = Stamp(run)
              /\ Leads(Links(view, fs \cup {f}, t), view[Shape(db[t])], view[Current(t)'])
<1>1. /\ run # Idle /\ UNCHANGED <<entities, snapshot, clock, stops, soon>>
  BY WriteAdds
<1>2. PICK ch \in run.todo :
          /\ files' = files \cup {File(Stamp(run), ch)}
          /\ \A g \in files : g.version < Stamp(run)
          /\ run' # Idle
          /\ run'.todo = run.todo \ {ch} /\ run'.target = run.target
  BY WriteAdds, WriteAddsOnly
<1>3. PICK f \in {File(Stamp(run), ch)} : f.version = Stamp(run) /\ f.change = ch
  BY DEF File
<1>4. /\ Stamp(run) \in Nat \ {0} /\ run.target \in Schema /\ snapshot \in Schema
      /\ \A g \in fs : g.version < Stamp(run) /\ g.version \in Nat
      /\ run.todo \subseteq AllChanges(snapshot, run.target)
  BY <1>1, <1>2, RunAt DEF GInv, GenTypeOK
<1>5. \A x \in run.todo : /\ x.table \in Tables
                          /\ x = Change(x.table, snapshot[x.table], run.target[x.table])
  BY <1>4, ChangeAt
<1>6. files' = files \cup {f}
  BY <1>2
<1>7. CASE ch.table # t
  <2>1. Links(view, fs \cup {f}, t) = Links(view, fs, t)
    <3>1. f.change.table # t
      BY <1>3, <1>7
    <3> QED BY <3>1 DEF Links
  <2>2. Current(t)' = Current(t)
    <3>1. (\A x \in run'.todo : x.table # t) <=> (\A x \in run.todo : x.table # t)
      BY <1>2, <1>7
    <3>2. snapshot' = snapshot /\ run # Idle
      BY <1>1
    <3> QED BY <1>2, <3>1, <3>2 DEF Current
  <2> QED BY <1>3, <1>6, <2>1, <2>2 DEF Chain
<1>8. CASE ch.table = t
  <2>1. Links(view, fs \cup {f}, t) = Links(view, fs, t) \cup {Link(view, f)}
    <3>1. f.change.table = t
      BY <1>3, <1>8
    <3> QED BY <3>1 DEF Links
  <2>2. Current(t) = snapshot[t]
    BY <1>8 DEF Current
  <2>3. Current(t)' = run.target[t]
    <3>1. \A x \in run'.todo : x.table # t
      BY <1>2, <1>5, <1>8
    <3> QED BY <1>2, <3>1 DEF Current
  <2>4. f.change.prev = Current(t) /\ f.change.next = Current(t)'
    BY <1>3, <1>5, <1>8, <2>2, <2>3 DEF Change
  <2> DEFINE l == Link(view, f)
             L == Links(view, fs, t)
  <2>5. l.from = view[Current(t)] /\ l.to = view[Current(t)'] /\ l.at = Stamp(run)
    BY <1>3, <2>4 DEF Link
  <2>6. \A k \in L : k.at \in Nat /\ k.at < l.at
    BY <1>4, <2>5 DEF Links, Link
  <2>7. Leads(L, view[Shape(db[t])], view[Current(t)])
    BY DEF Chain
  <2> HIDE DEF l, L
  <2>8. Leads(L \cup {l}, view[Shape(db[t])], l.to)
    BY <1>4, <2>5, <2>6, <2>7, LeadsOn
  <2>9. Leads(L \cup {l}, view[Shape(db[t])], view[Current(t)'])
    BY <2>5, <2>8
  <2> QED BY <1>3, <1>6, <2>1, <2>9 DEF l, L
<1> QED
  BY <1>7, <1>8

(* The first file that waits starts from the table as it is; once it is     *)
(* applied, the others start from what it has made of it.                   *)
LEMMA FirstChained ==
    ASSUME GInv, soon = 0, NEW view, NEW fs, fs \subseteq files, NEW f \in fs,
           \A g \in fs : f.version <= g.version, NEW t \in Tables, Chain(view, fs, t)
    PROVE  /\ f.change.table = t =>
                 /\ view[f.change.prev] = view[Shape(db[t])]
                 /\ Leads(Links(view, fs \ {f}, t), view[f.change.next], view[Current(t)])
           /\ f.change.table # t =>
                 Leads(Links(view, fs \ {f}, t), view[Shape(db[t])], view[Current(t)])
<1>1. /\ \A g, h \in fs : g.version = h.version => g = h
      /\ \A g \in fs : g.version \in Nat
  BY NotSoon DEF GInv, VersionsDistinct, GenTypeOK
<1>2. CASE f.change.table # t
  <2>1. Links(view, fs \ {f}, t) = Links(view, fs, t)
    BY <1>1, <1>2, LinksFrom
  <2> QED BY <1>2, <2>1 DEF Chain
<1>3. CASE f.change.table = t
  <2> DEFINE l == Link(view, f)
             L == Links(view, fs, t)
  <2>1. Links(view, fs \ {f}, t) = L \ {l}
    BY <1>1, <1>3, LinksFrom
  <2>2. l \in L
    BY <1>3 DEF Links
  <2>3. l.from = view[f.change.prev] /\ l.to = view[f.change.next] /\ l.at = f.version
    BY DEF Link
  <2>4. \A k \in L \ {l} : k.at \in Nat /\ l.at < k.at
    <3> SUFFICES ASSUME NEW k \in L \ {l} PROVE k.at \in Nat /\ l.at < k.at
      OBVIOUS
    <3>1. PICK g \in fs : k = Link(view, g)
      BY DEF Links
    <3>2. g # f /\ k.at = g.version
      BY <3>1 DEF Link
    <3> QED BY <1>1, <2>3, <3>2
  <2>5. Leads(L, view[Shape(db[t])], view[Current(t)])
    BY DEF Chain
  <2> HIDE DEF l, L
  <2>6. l.from = view[Shape(db[t])] /\ Leads(L \ {l}, l.to, view[Current(t)])
    BY <1>1, <2>2, <2>3, <2>4, <2>5, LeadsFrom
  <2> QED BY <1>3, <2>1, <2>3, <2>6
<1> QED
  BY <1>2, <1>3

LEMMA InitKeeps ==
    ASSUME GenInit
    PROVE  GInv
<1>1. /\ entities = NoTables /\ snapshot = NoTables /\ db = NoTables
      /\ files = {} /\ run = Idle /\ clock = 1 /\ stops = 0 /\ soon = 0
  BY DEF GenInit
<1>2. NoTables \in Schema /\ NoTables \in [Tables -> DbTable \cup {NoTable}]
  BY DEF NoTables, Schema
<1>3. GenTypeOK
  BY <1>1, <1>2, FS_EmptySet DEF GenTypeOK, Idle
<1>4. Counted
  <2>1. \A v \in Nat : OfVersion(files, v) = {}
    BY <1>1 DEF OfVersion
  <2> QED BY <1>1, <2>1, FS_EmptySet DEF Counted
<1> QED
  BY <1>1, <1>3, <1>4 DEF GInv, RunOK, FilesOK

-----------------------------------------------------------------------------
(* Go.                                                                     *)

GoWaiting == {f \in files : f.version > version}

GoTodoOK == TodoLeft(run, files, DiffSchemas(snapshot, run.target))

VersionOK == version \in Nat /\ (version = 0 \/ \E f \in files : version = f.version)

GoChained ==
    Undisturbed /\ ~dirty =>
        \A t \in Tables : /\ Chain(GoView, GoWaiting, t)
                          /\ db[t] = NoTable \/ DbOK(db[t])

GoIInv ==
    /\ GInv /\ VersionOK /\ dirty \in BOOLEAN
    /\ GoTodoOK /\ GoChained /\ GoFailuresKnown

(* What a run finds: a change for each table that differs, and only that. *)
LEMMA DiffsFound ==
    ASSUME NEW p \in Schema, NEW s \in Schema
    PROVE  DiffSchemas(p, s) \subseteq AllChanges(p, s)
BY DEF DiffSchemas, AllChanges

LEMMA NoDiffAt ==
    ASSUME NEW p \in Schema, NEW s \in Schema, NEW t \in Tables,
           \A ch \in DiffSchemas(p, s) : ch.table # t
    PROVE  p[t] = s[t]
<1>1. /\ p[t] \in TableSchema \cup {NoTable} /\ s[t] \in TableSchema \cup {NoTable}
  BY DEF Schema
<1>2. /\ ~((p[t] = NoTable) # (s[t] = NoTable))
      /\ ~(p[t] # NoTable /\ s[t] # NoTable /\ DiffTable(p[t], s[t]))
  <2>1. Change(t, p[t], s[t]).table = t
    BY DEF Change
  <2>2. Change(t, p[t], s[t]) \notin DiffSchemas(p, s)
    BY <2>1
  <2> QED BY <2>2 DEF DiffSchemas
<1> QED
  BY <1>1, <1>2, NoDiffSame

(* A run that has written a file has this file less to write, and has kept those *)
(* it had written.                                                               *)
LEMMA TodoWritten ==
    ASSUME NEW r, r # Idle, r.base \in Nat, r.done \in Nat,
           NEW fs, \A f \in fs : f.version \in Nat, NEW ch,
           NEW found, TodoLeft(r, fs, found),
           NEW r2, r2.base = r.base, r2.done = r.done + 1, r2.todo = r.todo \ {ch}
    PROVE  TodoLeft(r2, {g \in fs : ~SameName(File(Stamp(r), ch), g)}
                          \cup {File(Stamp(r), ch)}, found)
<1> DEFINE f == File(Stamp(r), ch)
           gs == {g \in fs : ~SameName(f, g)} \cup {f}
<1>1. f.change = ch /\ f.version = r.base + r.done
  BY DEF File, Stamp
<1>2. ASSUME NEW g \in fs, g.version < r.base + r.done
      PROVE  g \in gs /\ g.version < r2.base + r2.done
  <2>1. g.version # f.version
    BY <1>1, <1>2
  <2>2. g \in gs
    BY <2>1 DEF SameName
  <2> HIDE DEF gs, f
  <2> QED BY <1>2, <2>2
<1>3. f \in gs /\ f.version < r2.base + r2.done
  <2>1. f \in gs
    OBVIOUS
  <2> HIDE DEF gs, f
  <2> QED BY <1>1, <2>1
<1> HIDE DEF f
<1>4. r2.todo \subseteq found
  BY DEF TodoLeft
<1>5. ASSUME NEW x \in found \ r2.todo
      PROVE  \E g \in gs : g.change = x /\ g.version < r2.base + r2.done
  <2>1. CASE x = ch
    BY <1>1, <1>3, <2>1
  <2>2. CASE x # ch
    <3>1. PICK g \in fs : g.change = x /\ g.version < r.base + r.done
      BY <2>2 DEF TodoLeft
    <3> QED BY <1>2, <3>1
  <2> QED BY <2>1, <2>2
<1> QED
  BY <1>4, <1>5 DEF TodoLeft, f

LEMMA GoChainsStay ==
    ASSUME GoChained, UNCHANGED <<db, version, dirty, files>>, Undisturbed' => Undisturbed,
           Undisturbed' => \A t \in Tables : Current(t)' = Current(t)
    PROVE  GoChained'
<1> SUFFICES ASSUME Undisturbed', ~dirty', NEW t \in Tables
             PROVE  Chain(GoView, GoWaiting, t)' /\ (db'[t] = NoTable \/ DbOK(db'[t]))
  BY DEF GoChained
<1>1. Chain(GoView, GoWaiting, t) /\ (db[t] = NoTable \/ DbOK(db[t]))
  BY DEF GoChained
<1>2. GoWaiting' = GoWaiting /\ db'[t] = db[t] /\ Current(t)' = Current(t)
  BY DEF GoWaiting
<1> QED
  BY <1>1, <1>2 DEF Chain

(* A database that has refused a file stays as it is, and the files stay. *)
LEMMA RefusalStays ==
    ASSUME GoFailuresKnown, UNCHANGED <<db, version, dirty>>,
           Undisturbed' => Undisturbed /\ files \subseteq files'
    PROVE  GoFailuresKnown'
BY DEF GoFailuresKnown

LEMMA GoWrites ==
    ASSUME GInv, VersionOK, GoTodoOK, GoChained, Write(FirstTable(run.todo)),
           UNCHANGED <<db, version, dirty>>
    PROVE  /\ VersionOK' /\ GoTodoOK' /\ GoChained'
           /\ Undisturbed' => Undisturbed /\ files \subseteq files'
<1> DEFINE chs == FirstTable(run.todo)
<1>0. chs \subseteq run.todo /\ Write(chs)
  BY DEF FirstTable
<1> HIDE DEF chs
<1>1. /\ run # Idle /\ UNCHANGED <<entities, snapshot, clock, stops, soon>>
      /\ Undisturbed' = Undisturbed
  BY <1>0, WriteAdds DEF Undisturbed
<1>2. PICK ch \in run.todo :
          /\ files' = {g \in files : ~SameName(File(Stamp(run), ch), g)}
                        \cup {File(Stamp(run), ch)}
          /\ run'.base = run.base /\ run'.done = run.done + 1
          /\ run'.todo = run.todo \ {ch} /\ run'.target = run.target
  BY <1>0, WriteAdds
<1>3. VersionOK'
  <2>1. ASSUME NEW f \in files PROVE \E g \in files' : g.version = f.version
    <3>1. File(Stamp(run), ch) \in files' /\ File(Stamp(run), ch).version = Stamp(run)
      BY <1>2 DEF File
    <3>2. CASE f.version = Stamp(run)
      BY <3>1, <3>2
    <3>3. CASE f.version # Stamp(run)
      BY <1>2, <3>1, <3>3 DEF SameName
    <3> QED BY <3>2, <3>3
  <2> QED BY <1>1, <2>1 DEF VersionOK
<1>4. GoTodoOK'
  <2>1. DiffSchemas(snapshot, run.target)' = DiffSchemas(snapshot, run.target)
    BY <1>1, <1>2 DEF DiffSchemas
  <2>2. /\ run.base \in Nat /\ run.done \in Nat /\ \A f \in files : f.version \in Nat
        /\ TodoLeft(run, files, DiffSchemas(snapshot, run.target))
    BY <1>1, RunAt DEF GInv, GenTypeOK, GoTodoOK
  <2>3. TodoLeft(run', files', DiffSchemas(snapshot, run.target))
    BY <1>1, <1>2, <2>2, TodoWritten
  <2> QED BY <2>1, <2>3 DEF GoTodoOK
<1>5. Undisturbed => files \subseteq files'
  BY <1>1, <1>2, WriteAddsOnly DEF Undisturbed
<1>6. GoChained'
  <2> SUFFICES ASSUME Undisturbed, ~dirty', NEW t \in Tables
               PROVE  Chain(GoView, GoWaiting, t)' /\ (db'[t] = NoTable \/ DbOK(db'[t]))
    BY <1>1 DEF GoChained
  <2>0. soon = 0
    BY DEF Undisturbed
  <2>1. /\ \A u \in Tables : Chain(GoView, GoWaiting, u)
        /\ db[t] = NoTable \/ DbOK(db[t])
    BY <1>1 DEF GoChained
  <2>2. GoWaiting \subseteq files
    BY DEF GoWaiting
  <2>3. PICK f \in files' :
            /\ files' = files \cup {f} /\ f.version = Stamp(run)
            /\ Leads(Links(GoView, GoWaiting \cup {f}, t), GoView[Shape(db[t])],
                     GoView[Current(t)'])
    BY <1>0, <2>0, <2>1, <2>2, WriteChained
  <2>4. GoWaiting' = GoWaiting \cup {f}
    <3>1. \A g \in files : g.version < Stamp(run) /\ g.version \in Nat
      BY <1>1, <1>2, <2>0, WriteAddsOnly DEF GInv, GenTypeOK
    <3>2. Stamp(run) \in Nat \ {0}
      BY <1>1, RunAt
    <3>3. version < Stamp(run) /\ version \in Nat
      BY <3>1, <3>2 DEF VersionOK
    <3> QED BY <2>3, <3>3 DEF GoWaiting
  <2> QED BY <2>1, <2>3, <2>4 DEF Chain
<1> QED
  BY <1>1, <1>3, <1>4, <1>5, <1>6

(* golang-migrate takes the file of the least version above the database's. *)
LEMMA MigrateTakes ==
    ASSUME Migrate
    PROVE  /\ ~dirty /\ VersionsDistinct /\ UNCHANGED genVars
           /\ \E f \in files :
                 /\ f.version > version
                 /\ \A g \in files : g.version > version => f.version <= g.version
                 /\ version' = f.version
                 /\ \/ /\ GoApplies(db[f.change.table], f.change)
                       /\ db' = [db EXCEPT ![f.change.table] =
                                    GoApplied(db[f.change.table], f.change)]
                       /\ UNCHANGED dirty
                    \/ /\ ~GoApplies(db[f.change.table], f.change)
                       /\ dirty' = TRUE /\ UNCHANGED db
BY DEF Migrate

LEMMA MigrateKeeps ==
    ASSUME GInv, VersionOK, dirty \in BOOLEAN, GoTodoOK, Migrate
    PROVE  GInv' /\ VersionOK' /\ dirty' \in BOOLEAN /\ GoTodoOK'
<1>1. PICK f \in files :
          /\ version' = f.version
          /\ \/ /\ GoApplies(db[f.change.table], f.change)
                /\ db' = [db EXCEPT ![f.change.table] = GoApplied(db[f.change.table], f.change)]
                /\ UNCHANGED dirty
             \/ dirty' = TRUE /\ UNCHANGED db
  BY MigrateTakes
<1> DEFINE ch == f.change
           d == db[ch.table]
           e == GoApplied(d, ch)
<1>2. /\ ch \in Changes /\ f.version \in Nat /\ ch.table \in Tables
      /\ ch.prev # NoTable \/ ch.next # NoTable
  BY DEF GInv, GenTypeOK, FilesOK, Changes
<1>3. d \in DbTable \cup {NoTable} /\ UNCHANGED genVars
  BY <1>2 DEF GInv, GenTypeOK, Migrate
<1>4. \/ e \in DbTable \cup {NoTable} /\ db' = [db EXCEPT ![ch.table] = e] /\ UNCHANGED dirty
      \/ dirty' = TRUE /\ UNCHANGED db
  <2>1. GoApplies(d, ch) => e \in DbTable \cup {NoTable}
    <3> HIDE DEF d, ch
    <3> QED BY <1>2, <1>3, GoAppliedType
  <2> QED BY <1>1, <2>1
<1> HIDE DEF e
<1>5. db' \in [Tables -> DbTable \cup {NoTable}] /\ dirty' \in BOOLEAN
  BY <1>4 DEF GInv, GenTypeOK
<1>6. GInv'
  BY <1>3, <1>5, DatabaseKeeps
<1> QED
  BY <1>1, <1>2, <1>3, <1>5, <1>6 DEF VersionOK, GoTodoOK, TodoLeft, DiffSchemas, genVars

(* It takes the first file of its table off the chain. *)
LEMMA MigrateChained ==
    ASSUME GInv, VersionOK, GoChained, Migrate
    PROVE  GoChained' /\ (Undisturbed => GoFailuresKnown')
<1>1. PICK f \in files :
          /\ f.version > version
          /\ \A g \in files : g.version > version => f.version <= g.version
          /\ version' = f.version
          /\ \/ /\ GoApplies(db[f.change.table], f.change)
                /\ db' = [db EXCEPT ![f.change.table] = GoApplied(db[f.change.table], f.change)]
                /\ UNCHANGED dirty
             \/ /\ ~GoApplies(db[f.change.table], f.change)
                /\ dirty' = TRUE /\ UNCHANGED db
  BY MigrateTakes
<1> DEFINE u == f.change.table
<1>2. /\ ~dirty /\ UNCHANGED <<snapshot, files, run>> /\ VersionsDistinct
      /\ Undisturbed' = Undisturbed
  BY DEF Migrate, genVars, Undisturbed
<1>3. /\ f.change \in Changes /\ u \in Tables
      /\ f.change.prev # NoTable \/ f.change.next # NoTable
      /\ version \in Nat /\ \A g \in files : g.version \in Nat
  BY DEF GInv, GenTypeOK, FilesOK, Changes, VersionOK
<1>4. /\ GoWaiting \subseteq files /\ f \in GoWaiting
      /\ \A g \in GoWaiting : f.version <= g.version
  BY <1>1 DEF GoWaiting
<1>5. GoWaiting' = GoWaiting \ {f}
  <2>1. \A g \in files : g.version > f.version <=> g.version > version /\ g # f
    BY <1>1, <1>2, <1>3 DEF VersionsDistinct
  <2> QED BY <1>1, <1>2, <2>1 DEF GoWaiting
<1>6. ASSUME Undisturbed
      PROVE  /\ f.change.prev = Shape(db[u])
             /\ db[u] = NoTable \/ DbOK(db[u])
  <2>1. Chain(GoView, GoWaiting, u) /\ (db[u] = NoTable \/ DbOK(db[u]))
    BY <1>2, <1>3, <1>6 DEF GoChained
  <2>2. GoView[f.change.prev] = GoView[Shape(db[u])]
    BY <1>3, <1>4, <1>6, <2>1, FirstChained DEF Undisturbed
  <2>3. f.change.prev \in TableSchema \cup {NoTable}
    BY <1>3 DEF Changes
  <2>4. Shape(db[u]) \in TableSchema \cup {NoTable}
    BY <2>1, ShapeAt DEF DbOK, TableOK, Shape
  <2> QED BY <2>1, <2>2, <2>3, <2>4 DEF GoView
<1>7. Undisturbed => GoFailuresKnown'
  <2> SUFFICES ASSUME Undisturbed, dirty'
               PROVE  GoFailuresKnown'
    BY <1>2 DEF GoFailuresKnown
  <2>1. ~GoApplies(db[u], f.change) /\ db' = db
    BY <1>1, <1>2
  <2>2. /\ Kind(f.change) = "alter"
        /\ \/ TypeRefused(f.change)
           \/ \E c \in DropUniqueCols(f.change.prev, f.change.next) :
                 <<c, "key">> \in db[u].uniques /\ <<c, "uq">> \notin db[u].uniques
    BY <1>3, <1>6, <2>1, FailsKnown
  <2> QED BY <1>1, <1>2, <2>1, <2>2 DEF GoFailuresKnown
<1>8. ASSUME Undisturbed', ~dirty', NEW t \in Tables
      PROVE  Chain(GoView, GoWaiting, t)' /\ (db'[t] = NoTable \/ DbOK(db'[t]))
  <2>1. /\ Chain(GoView, GoWaiting, t) /\ (db[t] = NoTable \/ DbOK(db[t]))
        /\ Undisturbed /\ soon = 0
    BY <1>2, <1>8 DEF GoChained, Undisturbed
  <2>2. GoApplies(db[u], f.change) /\ db' = [db EXCEPT ![u] = GoApplied(db[u], f.change)]
    BY <1>1, <1>8
  <2>3. Current(t)' = Current(t)
    BY <1>2 DEF Current
  <2>4. CASE t # u
    <3>1. Leads(Links(GoView, GoWaiting \ {f}, t), GoView[Shape(db[t])], GoView[Current(t)])
      BY <1>4, <2>1, <2>4, FirstChained
    <3>2. db'[t] = db[t]
      BY <1>3, <2>2, <2>4 DEF GInv, GenTypeOK
    <3> QED BY <1>5, <2>1, <2>3, <3>1, <3>2 DEF Chain
  <2>5. CASE t = u
    <3>1. Leads(Links(GoView, GoWaiting \ {f}, t), GoView[f.change.next], GoView[Current(t)])
      BY <1>4, <2>1, <2>5, FirstChained
    <3>2. db'[t] = GoApplied(db[u], f.change)
      BY <1>3, <2>2, <2>5 DEF GInv, GenTypeOK
    <3>3. /\ GoApplied(db[u], f.change) = NoTable \/ DbOK(GoApplied(db[u], f.change))
          /\ Shape(GoApplied(db[u], f.change)) = f.change.next
      BY <1>3, <1>6, <2>1, <2>2, AppliedShape
    <3> QED BY <1>5, <2>3, <3>1, <3>2, <3>3 DEF Chain
  <2> QED BY <2>4, <2>5
<1> QED
  BY <1>7, <1>8 DEF GoChained

LEMMA GoInvariance == GoSpec => []GoIInv
<1>1. GoInit => GoIInv
  <2> SUFFICES ASSUME GoInit PROVE GoIInv
    OBVIOUS
  <2>1. /\ entities = NoTables /\ snapshot = NoTables /\ db = NoTables
        /\ files = {} /\ run = Idle /\ clock = 1 /\ version = 0 /\ dirty = FALSE
    BY DEF GoInit, GenInit
  <2>2. GInv
    BY <2>1, InitKeeps DEF GoInit
  <2>3. GoChained
    <3> SUFFICES ASSUME NEW t \in Tables
                 PROVE  Chain(GoView, GoWaiting, t) /\ db[t] = NoTable
      BY DEF GoChained
    <3>1. /\ Links(GoView, GoWaiting, t) = {} /\ db[t] = NoTable /\ Current(t) = NoTable
          /\ Shape(NoTable) = NoTable
      BY <2>1 DEF Links, GoWaiting, Current, NoTables, Shape
    <3> QED BY <3>1 DEF Chain, Leads
  <2> QED BY <2>1, <2>2, <2>3 DEF GoIInv, VersionOK, GoTodoOK, TodoLeft, GoFailuresKnown
<1>2. GoIInv /\ [GoNext]_goVars => GoIInv'
  <2> SUFFICES ASSUME GoIInv, [GoNext]_goVars PROVE GoIInv'
    OBVIOUS
  <2>1. /\ GInv /\ VersionOK /\ dirty \in BOOLEAN
        /\ GoTodoOK /\ GoChained /\ GoFailuresKnown
    BY DEF GoIInv
  <2>2. CASE UNCHANGED goVars
    <3>1. /\ UNCHANGED <<entities, snapshot, files, run, clock, stops, soon, db, version, dirty>>
          /\ Undisturbed' = Undisturbed
      BY <2>2 DEF goVars, genVars, goDbVars, Undisturbed
    <3>2. UNCHANGED genVars /\ db' \in [Tables -> DbTable \cup {NoTable}]
      BY <2>1, <3>1 DEF GInv, GenTypeOK, genVars
    <3>3. GInv' /\ GoTodoOK' /\ VersionOK'
      BY <2>1, <3>1, <3>2, DatabaseKeeps DEF VersionOK, GoTodoOK, TodoLeft, DiffSchemas
    <3>4. GoChained'
      <4>1. \A t \in Tables : Current(t)' = Current(t)
        BY <3>1 DEF Current
      <4> QED BY <2>1, <3>1, <4>1, GoChainsStay
    <3> QED BY <2>1, <3>1, <3>3, <3>4, RefusalStays DEF GoIInv
  <2>3. CASE UNCHANGED goDbVars /\
             (Tick \/ \E t \in Tables : \E s \in EntitySchemas[t] \cup {NoTable} : Edit(t, s))
    <3>1. /\ GInv' /\ UNCHANGED <<snapshot, files, run, db, version, dirty>>
          /\ Undisturbed' = Undisturbed
      BY <2>1, <2>3, EditTickKeep DEF goDbVars, Undisturbed
    <3>2. GoTodoOK' /\ VersionOK'
      BY <2>1, <3>1 DEF VersionOK, GoTodoOK, TodoLeft, DiffSchemas
    <3>3. GoChained'
      <4>1. \A t \in Tables : Current(t)' = Current(t)
        BY <3>1 DEF Current
      <4> QED BY <2>1, <3>1, <4>1, GoChainsStay
    <3> QED BY <2>1, <3>1, <3>2, <3>3, RefusalStays DEF GoIInv
  <2>4. CASE UNCHANGED goDbVars /\ StartRun(DiffSchemas(snapshot, entities))
    <3> DEFINE D == DiffSchemas(snapshot, entities)
    <3>1. snapshot \in Schema /\ entities \in Schema /\ UNCHANGED <<db, version, dirty>>
      BY <2>1, <2>4 DEF GInv, GenTypeOK, goDbVars
    <3>2. D \subseteq AllChanges(snapshot, entities) /\ StartRun(D)
      BY <2>4, <3>1, DiffsFound
    <3> HIDE DEF D
    <3>3. /\ GInv' /\ UNCHANGED <<entities, snapshot, files, clock, stops>>
          /\ run = Idle /\ run' # Idle /\ run'.todo = D /\ run'.target = entities
          /\ Undisturbed' => Undisturbed
      <4>1. soon' \in Nat /\ soon' >= soon /\ stops' = stops
        BY <2>1, <3>1, <3>2, StartKeeps
      <4>2. soon \in Nat
        BY <2>1 DEF GInv, GenTypeOK
      <4>3. Undisturbed' => Undisturbed
        BY <4>1, <4>2 DEF Undisturbed
      <4> QED BY <2>1, <3>1, <3>2, <4>3, StartKeeps
    <3>4. VersionOK'
      BY <2>1, <3>1, <3>3 DEF VersionOK
    <3>5. GoTodoOK'
      <4>1. DiffSchemas(snapshot, run.target)' = D
        BY <3>3 DEF DiffSchemas, D
      <4> QED BY <3>3, <4>1 DEF GoTodoOK, TodoLeft
    <3>6. GoChained'
      <4>1. \A t \in Tables : Current(t)' = Current(t)
        BY <3>1, <3>3, NoDiffAt DEF Current, D
      <4> QED BY <2>1, <3>1, <3>3, <4>1, GoChainsStay
    <3> QED BY <2>1, <3>1, <3>3, <3>4, <3>5, <3>6, RefusalStays DEF GoIInv
  <2>5. CASE UNCHANGED goDbVars /\ Write(FirstTable(run.todo))
    <3>1. UNCHANGED <<db, version, dirty>> /\ FirstTable(run.todo) \subseteq run.todo
      BY <2>5 DEF goDbVars, FirstTable
    <3>2. GInv'
      BY <2>1, <2>5, <3>1, WriteKeeps
    <3>3. /\ VersionOK' /\ GoTodoOK' /\ GoChained'
          /\ Undisturbed' => Undisturbed /\ files \subseteq files'
      BY <2>1, <2>5, <3>1, GoWrites
    <3> QED BY <2>1, <3>1, <3>2, <3>3, RefusalStays DEF GoIInv
  <2>6. CASE UNCHANGED goDbVars /\ (SaveSnapshot \/ StopRun)
    <3>1. UNCHANGED <<db, version, dirty>>
      BY <2>6 DEF goDbVars
    <3>2. /\ GInv' /\ run' = Idle /\ files' = files /\ soon' = soon
          /\ stops' = stops \/ (stops' = stops + 1 /\ stops \in Nat)
      BY <2>1, <2>6, <3>1, RunEndsKeeps
    <3>3. Undisturbed' => Undisturbed /\ SaveSnapshot
      BY <2>6, <3>2 DEF StopRun, Undisturbed
    <3>4. GoTodoOK' /\ VersionOK'
      BY <2>1, <3>1, <3>2 DEF GoTodoOK, TodoLeft, VersionOK
    <3>5. GoChained'
      <4>1. Undisturbed' => \A t \in Tables : Current(t)' = Current(t)
        BY <3>3 DEF SaveSnapshot, Current
      <4> QED BY <2>1, <3>1, <3>2, <3>3, <4>1, GoChainsStay
    <3> QED BY <2>1, <3>1, <3>2, <3>3, <3>4, <3>5, RefusalStays DEF GoIInv
  <2>7. CASE Migrate
    <3>1. Undisturbed' = Undisturbed
      BY <2>7 DEF Migrate, genVars, Undisturbed
    <3>2. ~Undisturbed => GoFailuresKnown'
      BY <3>1 DEF GoFailuresKnown
    <3> QED BY <2>1, <2>7, <3>2, MigrateKeeps, MigrateChained DEF GoIInv
  <2> QED BY <2>2, <2>3, <2>4, <2>5, <2>6, <2>7 DEF GoNext, GoGenerate
<1> QED
  BY <1>1, <1>2, PTL DEF GoSpec

(* The types, and that a version has one file more, at most, than runs were      *)
(* started while a version was not past: the files of a run are a second apart   *)
(* (main.go:81-83), and no other run adds to a version that is there, wherever   *)
(* runs stop.  Where none was started so soon, no two files have one version.    *)
THEOREM GoVersionsCounted == GoSpec => []GoInv
<1>1. ASSUME GoIInv PROVE GoInv
  <2>1. GInv /\ VersionOK /\ dirty \in BOOLEAN
    BY <1>1 DEF GoIInv
  <2>2. ASSUME NEW f \in files
        PROVE  Cardinality({g \in files : g.version = f.version}) <= 1 + soon
    <3> DEFINE n == Cardinality(OfVersion(files, f.version))
    <3>1. n \in Nat /\ f.version \in Nat /\ soon \in Nat
      BY <2>1, VersionCard DEF GInv, GenTypeOK
    <3>2. n <= soon + 0 \/ n <= soon + 1
      BY <2>1, <3>1 DEF GInv, Counted
    <3>3. n = Cardinality({g \in files : g.version = f.version})
      BY DEF OfVersion
    <3> HIDE DEF n
    <3>4. n <= 1 + soon
      BY <3>1, <3>2
    <3> QED BY <3>3, <3>4
  <2> QED BY <2>1, <2>2 DEF GInv, GoInv, GoTypeOK, VersionOK, VersionsCounted
<1> QED
  BY <1>1, GoInvariance, PTL

(* Where every run was finished before the next, some seconds later, and every  *)
(* file is applied, the database has the schema of the snapshot, for any        *)
(* entities and any edits between the runs, although the generator never looks  *)
(* at the database (main.go:45-102).                                            *)
THEOREM FilesLeadToSnapshot == GoSpec => []DatabaseIsSnapshot
<1>1. ASSUME GoIInv PROVE DatabaseIsSnapshot
  <2> SUFFICES ASSUME Undisturbed, run = Idle, ~dirty, \A f \in files : f.version <= version,
                      NEW t \in Tables
               PROVE  Shape(db[t]) = snapshot[t]
    BY DEF DatabaseIsSnapshot
  <2>1. GoWaiting = {}
    <3>1. version \in Nat /\ \A f \in files : f.version \in Nat
      BY <1>1 DEF GoIInv, GInv, GenTypeOK, VersionOK
    <3> QED BY <3>1 DEF GoWaiting
  <2>2. Chain(GoView, GoWaiting, t) /\ (db[t] = NoTable \/ DbOK(db[t]))
    BY <1>1 DEF GoIInv, GoChained
  <2>3. Links(GoView, GoWaiting, t) = {} /\ Current(t) = snapshot[t]
    BY <2>1 DEF Links, Current
  <2>4. GoView[Shape(db[t])] = GoView[snapshot[t]]
    BY <2>2, <2>3 DEF Chain, Leads
  <2>5. /\ Shape(db[t]) \in TableSchema \cup {NoTable}
        /\ snapshot[t] \in TableSchema \cup {NoTable}
    <3>1. snapshot \in Schema
      BY <1>1 DEF GoIInv, GInv, GenTypeOK
    <3>2. Shape(NoTable) = NoTable
      BY DEF Shape
    <3>3. DbOK(db[t]) => Shape(db[t]) \in TableSchema
      BY ShapeAt DEF DbOK, TableOK
    <3> QED BY <2>2, <3>1, <3>2, <3>3 DEF Schema
  <2> QED BY <2>4, <2>5 DEF GoView
<1> QED
  BY <1>1, GoInvariance, PTL

(* A file of undisturbed runs is refused, rows apart, for two reasons only: a    *)
(* type that does not convert by itself (sql.go:119-122), or a UNIQUE that was   *)
(* written inline and is dropped by another name (sql.go:69-71, sql.go:104-107). *)
THEOREM GoFailsForTwoReasons == GoSpec => []GoFailuresKnown
<1>1. GoIInv => GoFailuresKnown
  BY DEF GoIInv
<1> QED
  BY <1>1, GoInvariance, PTL

(* Only SaveSnapshot changes the snapshot, and the run has written by then       *)
(* every change between the old one and the new (main.go:91-99).                *)
LEMMA GoSaveFindsFiles ==
    ASSUME GoIInv, [GoNext]_goVars, snapshot' # snapshot,
           NEW ch \in DiffSchemas(snapshot, snapshot')
    PROVE  \E f \in files : f.change = ch
<1>1. SaveSnapshot
  BY DEF GoNext, GoGenerate, Migrate, Edit, Tick, StartRun, Write, StopRun, goVars, genVars
<1>2. run # Idle /\ run.todo = {} /\ snapshot' = run.target
  BY <1>1 DEF SaveSnapshot
<1>3. ch \in DiffSchemas(snapshot, run.target) \ run.todo
  BY <1>2
<1> QED
  BY <1>2, <1>3 DEF GoIInv, GoTodoOK, TodoLeft

(* The snapshot takes in a table only when the file for it was written, even if *)
(* runs stop half-way: the snapshot is saved last (main.go:91-99).              *)
THEOREM GoSnapshotFollowsFiles == GoSpec => GoSnapshotNotAhead
<1>1. GoIInv /\ [GoNext]_goVars =>
        [snapshot' # snapshot =>
            \A ch \in DiffSchemas(snapshot, snapshot') : \E f \in files : f.change = ch]_goVars
  BY GoSaveFindsFiles
<1> QED
  BY <1>1, GoInvariance, PTL DEF GoSpec, GoSnapshotNotAhead

-----------------------------------------------------------------------------
(* Python.                                                                 *)

PyTodoOK == TodoLeft(run, files, FoundChanges(snapshot, run.target))

(* What is applied are files; and where no run was started soon they are those   *)
(* of the directory, in order.                                                   *)
AppliedOK ==
    /\ \A f \in applied : f.version \in Nat /\ f.change \in Changes
    /\ soon = 0 => /\ applied \subseteq files
                   /\ \A f \in applied, g \in Waiting : f.version < g.version

PyChained == Undisturbed => \A t \in Tables : Chain(PyView, Waiting, t)

(* A file is a birth of c if it creates the table with it or adds it. *)
BirthOf(f, t, c) ==
    /\ f.change.table = t /\ f.change.next # NoTable /\ f.change.next.cols[c] # NoCol
    /\ f.change.prev = NoTable \/ f.change.prev.cols[c] = NoCol

(* Every column of the database has its UNIQUE from the last birth applied. *)
Kept(d, fs, t) ==
    d # NoTable =>
        /\ TableOK(d)
        /\ \A c \in Cols : d.cols[c] # NoCol =>
              \E f \in fs :
                 /\ BirthOf(f, t, c)
                 /\ \A g \in fs : BirthOf(g, t, c) => g.version <= f.version
                 /\ f.change.next.cols[c].unique <=> c \in UniqueCols(d)

UniquesKept == soon = 0 => \A t \in Tables : Kept(db[t], applied, t)

PyIInv == GInv /\ PyTodoOK /\ AppliedOK /\ PyChained /\ UniquesKept

(* A file of another name waits; where no run was started soon, any other. *)
LEMMA WaitingIs ==
    ASSUME VersionsDistinct, applied \subseteq files
    PROVE  Waiting = files \ applied
<1>1. \A f \in files, g \in applied : SameName(f, g) <=> f = g
  BY DEF VersionsDistinct, SameName
<1> QED
  BY <1>1 DEF Waiting

(* What a run finds. *)
LEMMA ChangesFound ==
    ASSUME NEW p \in Schema, NEW s \in Schema
    PROVE  FoundChanges(p, s) \subseteq AllChanges(p, s)
BY DEF FoundChanges, AllChanges

LEMMA NotFoundAt ==
    ASSUME NEW p \in Schema, NEW s \in Schema, NEW t \in Tables,
           Change(t, p[t], s[t]) \notin FoundChanges(p, s)
    PROVE  Plain(p[t]) = Plain(s[t]) /\ PyView[p[t]] = PyView[s[t]]
<1>1. /\ p[t] \in TableSchema \cup {NoTable} /\ s[t] \in TableSchema \cup {NoTable}
  BY DEF Schema
<1>2. /\ ~((p[t] = NoTable) # (s[t] = NoTable))
      /\ ~(p[t] # NoTable /\ s[t] # NoTable /\ Statements(p[t], s[t]) # {})
  BY DEF FoundChanges
<1>3. Plain(p[t]) = Plain(s[t])
  BY <1>1, <1>2, NoStatementSame
<1> QED
  BY <1>1, <1>2, <1>3 DEF PyView

(* ALTER TABLE leaves a table, with the columns both stacks leave. *)
LEMMA PyAlteredType ==
    ASSUME NEW d \in DbTable, NEW p \in TableSchema, NEW s \in TableSchema, ColsFit(d, p, s)
    PROVE  PyAltered(d, p, s) \in DbTable
<1>1. ColsAfter(d, p, s) \in [Cols -> DbColumn \cup {NoCol}]
  BY ColsAfterType
<1>2. {u \in d.uniques \cup Inline(s, AddColumns(p, s)) : u[1] \notin DropColumns(p, s)}
        \subseteq ConstraintNames
  <2>1. AddColumns(p, s) \subseteq Cols
    BY DiffsAt
  <2> QED BY <2>1 DEF Inline, ConstraintNames, DbTable
<1>3. d.idx \in [IdxNames -> Index \cup {NoIdx}]
  BY DEF DbTable
<1> QED
  BY <1>1, <1>2, <1>3 DEF PyAltered, DbTable

(* A file that the database accepts leaves a table or none. *)
LEMMA PyAppliedType ==
    ASSUME NEW d \in DbTable \cup {NoTable}, NEW ch \in Changes,
           ch.prev # NoTable \/ ch.next # NoTable, PyApplies(d, ch)
    PROVE  PyApplied(d, ch) \in DbTable \cup {NoTable}
<1>1. CASE Kind(ch) = "create"
  <2>1. PyApplied(d, ch) = Created(ch.next) /\ ch.next \in TableSchema
    BY <1>1, KindOf DEF PyApplied
  <2> QED BY <2>1, CreatedTable DEF TableOK
<1>2. CASE Kind(ch) = "drop"
  BY <1>2 DEF PyApplied
<1>3. CASE Kind(ch) \notin {"create", "drop"}
  <2>1. PyApplied(d, ch) = PyAltered(d, ch.prev, ch.next)
    BY <1>3 DEF PyApplied
  <2>2. d \in DbTable /\ ColsFit(d, ch.prev, ch.next)
    BY <1>3 DEF PyApplies
  <2>3. ch.prev \in TableSchema /\ ch.next \in TableSchema
    BY <1>3, KindOf
  <2> QED BY <2>1, <2>2, <2>3, PyAlteredType
<1> QED
  BY <1>1, <1>2, <1>3

(* ALTER TABLE leaves a table, with its UNIQUEs on columns it has; a column  *)
(* that stays keeps its UNIQUE, one that is added has the schema's.          *)
LEMMA PyAlteredTable ==
    ASSUME NEW d, TableOK(d), NEW p \in TableSchema, NEW s \in TableSchema, ColsFit(d, p, s)
    PROVE  /\ TableOK(PyAltered(d, p, s)) /\ PyAltered(d, p, s).cols = ColsAfter(d, p, s)
           /\ \A c \in Cols :
                 LET e == PyAltered(d, p, s)
                 IN  e.cols[c] # NoCol =>
                     \/ c \in AddColumns(p, s) /\ (s.cols[c].unique <=> c \in UniqueCols(e))
                     \/ /\ c \notin AddColumns(p, s) /\ d.cols[c] # NoCol
                        /\ c \in UniqueCols(d) <=> c \in UniqueCols(e)
<1> DEFINE e == PyAltered(d, p, s)
<1>1. /\ e.cols = ColsAfter(d, p, s) /\ e.idx = d.idx
      /\ e.uniques = {u \in d.uniques \cup Inline(s, AddColumns(p, s)) :
                        u[1] \notin DropColumns(p, s)}
      /\ e = [cols |-> e.cols, uniques |-> e.uniques, idx |-> e.idx]
  BY DEF PyAltered
<1> HIDE DEF e
<1>2. d \in DbTable /\ \A u \in d.uniques : d.cols[u[1]] # NoCol
  BY DEF TableOK
<1>3. e \in DbTable
  BY <1>2, PyAlteredType DEF e
<1>4. e.uniques \subseteq ConstraintNames /\ AddColumns(p, s) \subseteq Cols
  BY <1>3, DiffsAt DEF DbTable
<1>5. \A u \in e.uniques : e.cols[u[1]] # NoCol
  <2> SUFFICES ASSUME NEW u \in e.uniques PROVE e.cols[u[1]] # NoCol
    OBVIOUS
  <2>1. u[1] \in Cols /\ u[1] \notin DropColumns(p, s)
    BY <1>1, <1>4 DEF ConstraintNames
  <2>2. CASE u \in d.uniques
    BY <1>1, <1>2, <2>1, <2>2, ColsAfterType
  <2>3. CASE u \notin d.uniques
    <3>1. u \in Inline(s, AddColumns(p, s))
      BY <1>1, <2>3
    <3>2. u[1] \in AddColumns(p, s)
      BY <3>1 DEF Inline
    <3> QED BY <1>1, <1>2, <2>1, <3>2, ColsAfterType
  <2> QED BY <2>2, <2>3
<1>6. ASSUME NEW c \in Cols, e.cols[c] # NoCol
      PROVE  \/ c \in AddColumns(p, s) /\ (s.cols[c].unique <=> c \in UniqueCols(e))
             \/ /\ c \notin AddColumns(p, s) /\ d.cols[c] # NoCol
                /\ c \in UniqueCols(d) <=> c \in UniqueCols(e)
  <2>1. c \notin DropColumns(p, s)
    BY <1>1, <1>2, <1>6, ColsAfterType
  <2>2. /\ <<c, "key">> \in e.uniques <=>
              \/ <<c, "key">> \in d.uniques
              \/ c \in AddColumns(p, s) /\ s.cols[c].unique
        /\ <<c, "uq">> \in e.uniques <=> <<c, "uq">> \in d.uniques
    BY <1>1, <2>1 DEF Inline
  <2>3. c \in UniqueCols(e) <=> \/ c \in UniqueCols(d)
                                \/ c \in AddColumns(p, s) /\ s.cols[c].unique
    BY <2>2 DEF UniqueCols
  <2>4. CASE c \in AddColumns(p, s)
    <3>1. d.cols[c] = NoCol
      BY <2>4 DEF ColsFit
    <3>2. c \notin UniqueCols(d)
      BY <3>1, UniqueAt
    <3> QED BY <2>3, <2>4, <3>2
  <2>5. CASE c \notin AddColumns(p, s)
    <3>1. d.cols[c] # NoCol
      BY <1>1, <1>2, <1>6, <2>1, <2>5, ColsAfterType
    <3> QED BY <2>3, <2>5, <3>1
  <2> QED BY <2>4, <2>5
<1> QED
  BY <1>1, <1>3, <1>5, <1>6 DEF TableOK, e

(* One file, on a table of the columns it starts from, leaves those it leads to; *)
(* and it is refused for two reasons only.                                       *)
LEMMA PyAppliedView ==
    ASSUME NEW d \in DbTable \cup {NoTable}, NEW ch \in Changes,
           ch.prev # NoTable \/ ch.next # NoTable, PyView[ch.prev] = PyView[Shape(d)]
    PROVE  /\ PyApplies(d, ch) => PyView[Shape(PyApplied(d, ch))] = PyView[ch.next]
           /\ ~PyApplies(d, ch) => /\ Kind(ch) = "alter"
                                   /\ TypeRefused(ch) \/ Garbled(ch.prev, ch.next)
<1>1. /\ ch.prev \in TableSchema \cup {NoTable} /\ ch.next \in TableSchema \cup {NoTable}
      /\ Shape(d) \in TableSchema \cup {NoTable} /\ (d = NoTable <=> Shape(d) = NoTable)
  BY ShapeAt DEF Changes, Shape
<1>2. /\ PyView[ch.prev] = IF ch.prev = NoTable THEN {} ELSE {Plain(ch.prev)}
      /\ PyView[Shape(d)] = IF Shape(d) = NoTable THEN {} ELSE {Plain(Shape(d))}
  BY <1>1 DEF PyView
<1>3. (ch.prev = NoTable <=> Shape(d) = NoTable) /\ Plain(ch.prev) = Plain(Shape(d))
  BY <1>2
<1>4. ch.prev = NoTable <=> d = NoTable
  BY <1>1, <1>3
<1>5. CASE Kind(ch) = "create"
  <2>1. ch.prev = NoTable /\ ch.next \in TableSchema
    BY <1>5, KindOf
  <2>2. PyApplies(d, ch) /\ PyApplied(d, ch) = Created(ch.next)
    BY <1>4, <1>5, <2>1 DEF PyApplies, PyApplied
  <2>3. Created(ch.next) \in DbTable /\ Created(ch.next).cols = Plain(ch.next)
    BY <2>1, CreatedTable DEF TableOK
  <2>4. Shape(Created(ch.next)) \in TableSchema /\ Plain(Shape(Created(ch.next))) = Plain(ch.next)
    BY <2>3, ShapeAt, PlainShape
  <2>5. PyView[Shape(Created(ch.next))] = PyView[ch.next]
    BY <2>1, <2>4, SchemaAssumption DEF PyView
  <2> QED BY <2>2, <2>5
<1>6. CASE Kind(ch) = "drop"
  <2>1. ch.prev # NoTable /\ ch.next = NoTable
    BY <1>6, KindOf
  <2>2. PyApplies(d, ch) /\ PyApplied(d, ch) = NoTable
    BY <1>4, <1>6, <2>1 DEF PyApplies, PyApplied
  <2> QED BY <2>1, <2>2 DEF Shape
<1>7. CASE Kind(ch) \notin {"create", "drop"}
  <2>1. Kind(ch) = "alter" /\ ch.prev \in TableSchema /\ ch.next \in TableSchema
    BY <1>7, KindOf
  <2>2. d \in DbTable /\ Plain(ch.prev) = d.cols
    BY <1>3, <1>4, <2>1, PlainShape, SchemaAssumption
  <2>3. /\ NeedsUsing(ch.prev, ch.next) = {} => ColsFit(d, ch.prev, ch.next)
        /\ ColsAfter(d, ch.prev, ch.next) = Plain(ch.next)
    BY <2>1, <2>2, ColsAfterSchema
  <2>4. PyApplies(d, ch) <=> ColsFit(d, ch.prev, ch.next) /\ ~Garbled(ch.prev, ch.next)
    BY <1>7, <2>2, SchemaAssumption DEF PyApplies
  <2>9. ~PyApplies(d, ch) => TypeRefused(ch) \/ Garbled(ch.prev, ch.next)
    BY <2>1, <2>3, <2>4 DEF TypeRefused
  <2>5. PyApplied(d, ch) = PyAltered(d, ch.prev, ch.next)
    BY <1>7 DEF PyApplied
  <2> DEFINE e == PyAltered(d, ch.prev, ch.next)
  <2>6. PyApplies(d, ch) => e \in DbTable /\ e.cols = Plain(ch.next)
    BY <2>1, <2>2, <2>3, <2>4, PyAlteredType DEF PyAltered
  <2> HIDE DEF e
  <2>7. PyApplies(d, ch) => /\ Shape(e) \in TableSchema
                            /\ Plain(Shape(e)) = Plain(ch.next)
    BY <2>6, ShapeAt, PlainShape
  <2>8. PyApplies(d, ch) => PyView[Shape(e)] = PyView[ch.next]
    BY <2>1, <2>7, SchemaAssumption DEF PyView
  <2> QED BY <2>1, <2>5, <2>8, <2>9 DEF e
<1> QED
  BY <1>5, <1>6, <1>7

(* And it leaves every column with the UNIQUE of its last birth. *)
LEMMA PyAppliedKept ==
    ASSUME NEW d, d = NoTable \/ d \in DbTable, NEW fs, NEW f, NEW t,
           f.change \in Changes, f.change.table = t,
           f.change.prev # NoTable \/ f.change.next # NoTable,
           f.version \in Nat, \A g \in fs : g.version \in Nat /\ g.version < f.version,
           Kept(d, fs, t), PyApplies(d, f.change)
    PROVE  Kept(PyApplied(d, f.change), fs \cup {f}, t)
<1> DEFINE ch == f.change
           e == PyApplied(d, ch)
<1>1. CASE Kind(ch) = "create"
  <2>1. ch.prev = NoTable /\ ch.next \in TableSchema
    BY <1>1, KindOf
  <2>2. e = Created(ch.next)
    BY <1>1 DEF PyApplied
  <2>3. /\ TableOK(e)
        /\ \A c \in Cols : /\ e.cols[c] = NoCol <=> ch.next.cols[c] = NoCol
                           /\ ch.next.cols[c] # NoCol =>
                                 (c \in UniqueCols(e) <=> ch.next.cols[c].unique)
    BY <2>1, <2>2, CreatedTable
  <2>4. ch.next # NoTable
    BY <2>1, SchemaAssumption
  <2> HIDE DEF e
  <2>5. ASSUME NEW c \in Cols, e.cols[c] # NoCol
        PROVE  \E b \in fs \cup {f} :
                 /\ BirthOf(b, t, c)
                 /\ \A g \in fs \cup {f} : BirthOf(g, t, c) => g.version <= b.version
                 /\ b.change.next.cols[c].unique <=> c \in UniqueCols(e)
    <3>1. BirthOf(f, t, c)
      BY <2>1, <2>3, <2>4, <2>5 DEF BirthOf
    <3>2. \A g \in fs \cup {f} : g.version <= f.version
      OBVIOUS
    <3>3. f.change.next.cols[c].unique <=> c \in UniqueCols(e)
      BY <2>3, <2>5
    <3> QED BY <3>1, <3>2, <3>3
  <2>6. Kept(e, fs \cup {f}, t)
    BY <2>3, <2>5 DEF Kept
  <2> QED BY <2>6 DEF e
<1>2. CASE Kind(ch) = "drop"
  BY <1>2 DEF PyApplied, Kept
<1>3. CASE Kind(ch) \notin {"create", "drop"}
  <2> DEFINE p == ch.prev
             s == ch.next
  <2>1. p \in TableSchema /\ s \in TableSchema
    BY <1>3, KindOf
  <2>2. p # NoTable /\ s # NoTable
    BY <2>1, SchemaAssumption
  <2>3. d # NoTable /\ ColsFit(d, p, s) /\ e = PyAltered(d, p, s)
    BY <1>3 DEF PyApplies, PyApplied
  <2>4. TableOK(d)
    BY <2>3 DEF Kept
  <2>5. /\ TableOK(e)
        /\ \A c \in Cols : e.cols[c] # NoCol =>
              \/ c \in AddColumns(p, s) /\ (s.cols[c].unique <=> c \in UniqueCols(e))
              \/ /\ c \notin AddColumns(p, s) /\ d.cols[c] # NoCol
                 /\ c \in UniqueCols(d) <=> c \in UniqueCols(e)
    BY <2>1, <2>3, <2>4, PyAlteredTable
  <2> HIDE DEF e
  <2>6. ASSUME NEW c \in Cols
        PROVE  BirthOf(f, t, c) <=> c \in AddColumns(p, s)
    BY <2>1, <2>2, DiffsAt DEF BirthOf
  <2>7. ASSUME NEW c \in Cols, e.cols[c] # NoCol
        PROVE  \E b \in fs \cup {f} :
                 /\ BirthOf(b, t, c)
                 /\ \A g \in fs \cup {f} : BirthOf(g, t, c) => g.version <= b.version
                 /\ b.change.next.cols[c].unique <=> c \in UniqueCols(e)
    <3>1. CASE c \in AddColumns(p, s)
      <4>1. BirthOf(f, t, c) /\ (f.change.next.cols[c].unique <=> c \in UniqueCols(e))
        BY <2>5, <2>6, <2>7, <3>1
      <4>2. \A g \in fs \cup {f} : g.version <= f.version
        OBVIOUS
      <4> QED BY <4>1, <4>2
    <3>2. CASE c \notin AddColumns(p, s)
      <4>1. d.cols[c] # NoCol /\ (c \in UniqueCols(d) <=> c \in UniqueCols(e))
        BY <2>5, <2>7, <3>2
      <4>2. PICK b \in fs : /\ BirthOf(b, t, c)
                            /\ \A g \in fs : BirthOf(g, t, c) => g.version <= b.version
                            /\ b.change.next.cols[c].unique <=> c \in UniqueCols(d)
        BY <2>3, <4>1 DEF Kept
      <4>3. \A g \in fs \cup {f} : BirthOf(g, t, c) => g.version <= b.version
        BY <2>6, <3>2, <4>2
      <4> QED BY <4>1, <4>2, <4>3
    <3> QED BY <3>1, <3>2
  <2>8. Kept(e, fs \cup {f}, t)
    BY <2>5, <2>7 DEF Kept
  <2> QED BY <2>8 DEF e
<1> QED
  BY <1>1, <1>2, <1>3

LEMMA PyChainsStay ==
    ASSUME PyChained, UNCHANGED <<db, applied, files>>, Undisturbed' => Undisturbed,
           Undisturbed' => \A t \in Tables : PyView[Current(t)'] = PyView[Current(t)]
    PROVE  PyChained'
<1> SUFFICES ASSUME Undisturbed', NEW t \in Tables PROVE Chain(PyView, Waiting, t)'
  BY DEF PyChained
<1>1. Chain(PyView, Waiting, t)
  BY DEF PyChained
<1>2. Waiting' = Waiting /\ db'[t] = db[t] /\ PyView[Current(t)'] = PyView[Current(t)]
  BY DEF Waiting
<1> QED
  BY <1>1, <1>2 DEF Chain

LEMMA AppliedStay ==
    ASSUME AppliedOK, UniquesKept, UNCHANGED <<db, applied, files>>, soon' = 0 => soon = 0
    PROVE  AppliedOK' /\ UniquesKept'
BY DEF AppliedOK, UniquesKept, Waiting

LEMMA PyWrites ==
    ASSUME GInv, PyTodoOK, AppliedOK, PyChained, UniquesKept, NEW chs, chs \subseteq run.todo,
           Write(chs), UNCHANGED <<db, applied>>
    PROVE  PyTodoOK' /\ AppliedOK' /\ PyChained' /\ UniquesKept'
<1>1. /\ run # Idle /\ UNCHANGED <<entities, snapshot, clock, stops, soon>>
      /\ Undisturbed' = Undisturbed
  BY WriteAdds DEF Undisturbed
<1>2. PICK ch \in run.todo :
          /\ files' = {g \in files : ~SameName(File(Stamp(run), ch), g)}
                        \cup {File(Stamp(run), ch)}
          /\ run'.base = run.base /\ run'.done = run.done + 1
          /\ run'.todo = run.todo \ {ch} /\ run'.target = run.target
  BY WriteAdds
<1>3. /\ \A g \in files : g.version \in Nat
      /\ Stamp(run) \in Nat /\ run.base \in Nat /\ run.done \in Nat
  BY <1>1, RunAt DEF GInv, GenTypeOK
<1>4. PyTodoOK'
  <2>1. FoundChanges(snapshot, run.target)' = FoundChanges(snapshot, run.target)
    BY <1>1, <1>2 DEF FoundChanges
  <2>2. TodoLeft(run', files', FoundChanges(snapshot, run.target))
    BY <1>1, <1>2, <1>3, TodoWritten DEF PyTodoOK
  <2> QED BY <2>1, <2>2 DEF PyTodoOK
<1>5. ASSUME soon = 0
      PROVE  /\ files' = files \cup {File(Stamp(run), ch)}
             /\ \A g \in files : g.version < Stamp(run)
             /\ applied \subseteq files
  BY <1>1, <1>2, <1>5, WriteAddsOnly DEF AppliedOK
<1>6. ASSUME soon = 0, NEW f, f.version = Stamp(run), files' = files \cup {f}
      PROVE  Waiting' = Waiting \cup {f}
  <2>1. \A g \in applied : ~SameName(f, g)
    BY <1>3, <1>5, <1>6 DEF SameName
  <2> QED BY <1>6, <2>1 DEF Waiting
<1>7. AppliedOK'
  <2> SUFFICES ASSUME soon = 0
               PROVE  /\ applied \subseteq files'
                      /\ \A f \in applied, g \in Waiting' : f.version < g.version
    BY <1>1 DEF AppliedOK
  <2> DEFINE f == File(Stamp(run), ch)
  <2>1. f.version = Stamp(run) /\ files' = files \cup {f}
    BY <1>5 DEF File
  <2> HIDE DEF f
  <2>2. Waiting' = Waiting \cup {f}
    BY <1>6, <2>1
  <2> QED BY <1>3, <1>5, <2>1, <2>2 DEF AppliedOK
<1>8. PyChained'
  <2> SUFFICES ASSUME Undisturbed, NEW t \in Tables PROVE Chain(PyView, Waiting, t)'
    BY <1>1 DEF PyChained
  <2>0. soon = 0 /\ Waiting \subseteq files
    BY DEF Undisturbed, Waiting
  <2>1. \A u \in Tables : Chain(PyView, Waiting, u)
    BY <1>1 DEF PyChained
  <2>2. PICK f \in files' :
            /\ files' = files \cup {f} /\ f.version = Stamp(run)
            /\ Leads(Links(PyView, Waiting \cup {f}, t), PyView[Shape(db[t])],
                     PyView[Current(t)'])
    BY <2>0, <2>1, WriteChained
  <2>3. Waiting' = Waiting \cup {f}
    BY <1>6, <2>0, <2>2
  <2> QED BY <2>2, <2>3 DEF Chain
<1> QED
  BY <1>1, <1>4, <1>7, <1>8 DEF UniquesKept

(* apply-migrations takes the first file of its table off the chain. *)
LEMMA ApplyKeeps ==
    ASSUME GInv, PyTodoOK, AppliedOK, PyChained, UniquesKept, Apply
    PROVE  GInv' /\ PyTodoOK' /\ AppliedOK' /\ PyChained' /\ UniquesKept'
<1>1. PICK f \in files :
          /\ IsNextFile(f)
          /\ PyApplies(db[f.change.table], f.change)
          /\ db' = [db EXCEPT ![f.change.table] = PyApplied(db[f.change.table], f.change)]
          /\ applied' = applied \cup {f}
  BY DEF Apply
<1> DEFINE u == f.change.table
           e == PyApplied(db[u], f.change)
<1>2. /\ UNCHANGED <<entities, snapshot, files, run, clock, stops, soon>> /\ UNCHANGED genVars
      /\ Undisturbed' = Undisturbed
  BY DEF Apply, genVars, Undisturbed
<1>3. /\ f.change \in Changes /\ u \in Tables /\ db[u] \in DbTable \cup {NoTable}
      /\ f.change.prev # NoTable \/ f.change.next # NoTable
      /\ \A g \in files : g.version \in Nat
  BY DEF GInv, GenTypeOK, FilesOK, Changes
<1>4. /\ Waiting \subseteq files /\ f \in Waiting /\ \A g \in Waiting : f.version <= g.version
  BY <1>1 DEF IsNextFile, Waiting
<1>15. ASSUME soon = 0
       PROVE  VersionsDistinct /\ applied \subseteq files /\ Waiting' = Waiting \ {f}
  <2>1. VersionsDistinct /\ applied \subseteq files
    BY <1>15, NotSoon DEF AppliedOK
  <2>2. \A g \in files : SameName(g, f) <=> g = f
    BY <2>1 DEF VersionsDistinct, SameName
  <2>3. Waiting' = {g \in Waiting : ~SameName(g, f)}
    BY <1>1, <1>2 DEF Waiting
  <2> QED BY <1>4, <2>1, <2>2, <2>3
<1>5. soon = 0 => \A g \in applied : g.version \in Nat /\ g.version < f.version
  BY <1>3, <1>4, <1>15 DEF AppliedOK
<1>6. soon = 0 => Kept(e, applied \cup {f}, u)
  <2> SUFFICES ASSUME soon = 0 PROVE Kept(e, applied \cup {f}, u)
    OBVIOUS
  <2>1. Kept(db[u], applied, u) /\ f.version \in Nat
    BY <1>3, <1>4 DEF UniquesKept
  <2> QED BY <1>1, <1>3, <1>5, <2>1, PyAppliedKept
<1>7. e \in DbTable \cup {NoTable}
  BY <1>1, <1>3, PyAppliedType
<1>8. \A t \in Tables : db'[t] = IF t = u THEN e ELSE db[t]
  BY <1>1 DEF GInv, GenTypeOK
<1>9. db' \in [Tables -> DbTable \cup {NoTable}]
  <2>1. db' = [db EXCEPT ![u] = e]
    BY <1>1
  <2> HIDE DEF e
  <2> QED BY <1>7, <2>1 DEF GInv, GenTypeOK
<1>10. GInv'
  BY <1>2, <1>9, DatabaseKeeps
<1>11. PyTodoOK'
  BY <1>2 DEF PyTodoOK, TodoLeft, FoundChanges
<1>12. AppliedOK'
  <2>1. \A g \in applied' : g.version \in Nat /\ g.change \in Changes
    BY <1>1, <1>3 DEF AppliedOK
  <2>2. ASSUME soon = 0
        PROVE  applied' \subseteq files' /\ \A g \in applied', h \in Waiting' : g.version < h.version
    <3>1. \A g \in Waiting \ {f} : f.version < g.version
      BY <1>3, <1>4, <1>15, <2>2 DEF VersionsDistinct
    <3>2. \A g \in applied, h \in Waiting : g.version < h.version
      BY <2>2 DEF AppliedOK
    <3>3. applied' = applied \cup {f} /\ Waiting' = Waiting \ {f}
      BY <1>1, <1>15, <2>2
    <3> QED BY <1>2, <1>15, <2>2, <3>1, <3>2, <3>3
  <2> QED BY <1>2, <2>1, <2>2 DEF AppliedOK
<1>13. UniquesKept'
  <2> SUFFICES ASSUME soon = 0, NEW t \in Tables PROVE Kept(db'[t], applied \cup {f}, t)
    BY <1>1, <1>2 DEF UniquesKept
  <2>1. CASE t = u
    BY <1>6, <1>8, <2>1
  <2>2. CASE t # u
    <3>1. Kept(db[t], applied, t)
      BY DEF UniquesKept
    <3>2. \A c \in Cols : ~BirthOf(f, t, c)
      BY <2>2 DEF BirthOf
    <3>3. Kept(db[t], applied \cup {f}, t)
      <4> SUFFICES ASSUME db[t] # NoTable, NEW c \in Cols, db[t].cols[c] # NoCol
                   PROVE  \E b \in applied \cup {f} :
                            /\ BirthOf(b, t, c)
                            /\ \A g \in applied \cup {f} :
                                  BirthOf(g, t, c) => g.version <= b.version
                            /\ b.change.next.cols[c].unique <=> c \in UniqueCols(db[t])
        BY <3>1 DEF Kept
      <4>1. PICK b \in applied :
                /\ BirthOf(b, t, c)
                /\ \A g \in applied : BirthOf(g, t, c) => g.version <= b.version
                /\ b.change.next.cols[c].unique <=> c \in UniqueCols(db[t])
        BY <3>1 DEF Kept
      <4>2. \A g \in applied \cup {f} : BirthOf(g, t, c) => g.version <= b.version
        BY <3>2, <4>1
      <4> QED BY <4>1, <4>2
    <3> QED BY <1>8, <2>2, <3>3
  <2> QED BY <2>1, <2>2
<1>14. PyChained'
  <2> SUFFICES ASSUME Undisturbed, NEW t \in Tables PROVE Chain(PyView, Waiting, t)'
    BY <1>2 DEF PyChained
  <2>0. soon = 0 /\ Waiting' = Waiting \ {f}
    BY <1>15 DEF Undisturbed
  <2>1. Chain(PyView, Waiting, t) /\ Chain(PyView, Waiting, u)
    BY <1>3 DEF PyChained
  <2>2. Current(t)' = Current(t)
    BY <1>2 DEF Current
  <2>3. CASE t # u
    <3>1. Leads(Links(PyView, Waiting \ {f}, t), PyView[Shape(db[t])], PyView[Current(t)])
      BY <1>4, <2>0, <2>1, <2>3, FirstChained
    <3>2. db'[t] = db[t]
      BY <1>8, <2>3
    <3> QED BY <2>0, <2>2, <3>1, <3>2 DEF Chain
  <2>4. CASE t = u
    <3>1. /\ PyView[f.change.prev] = PyView[Shape(db[u])]
          /\ Leads(Links(PyView, Waiting \ {f}, t), PyView[f.change.next], PyView[Current(t)])
      BY <1>4, <2>0, <2>1, <2>4, FirstChained
    <3>2. PyView[Shape(e)] = PyView[f.change.next]
      BY <1>1, <1>3, <3>1, PyAppliedView
    <3>3. db'[t] = e
      BY <1>8, <2>4
    <3> HIDE DEF e
    <3> QED BY <2>0, <2>2, <3>1, <3>2, <3>3 DEF Chain
  <2> QED BY <2>3, <2>4
<1> QED
  BY <1>10, <1>11, <1>12, <1>13, <1>14

LEMMA PyInvariance == PySpec => []PyIInv
<1>1. PyInit => PyIInv
  <2> SUFFICES ASSUME PyInit PROVE PyIInv
    OBVIOUS
  <2>1. /\ snapshot = NoTables /\ db = NoTables
        /\ files = {} /\ run = Idle /\ applied = {}
    BY DEF PyInit, GenInit
  <2>2. GInv
    BY InitKeeps DEF PyInit
  <2>3. PyChained
    <3> SUFFICES ASSUME NEW t \in Tables PROVE Chain(PyView, Waiting, t)
      BY DEF PyChained
    <3>1. /\ Links(PyView, Waiting, t) = {} /\ db[t] = NoTable /\ Current(t) = NoTable
          /\ Shape(NoTable) = NoTable
      BY <2>1 DEF Links, Waiting, Current, NoTables, Shape
    <3> QED BY <3>1 DEF Chain, Leads
  <2>4. UniquesKept
    BY <2>1 DEF UniquesKept, Kept, NoTables
  <2> QED BY <2>1, <2>2, <2>3, <2>4 DEF PyIInv, PyTodoOK, TodoLeft, AppliedOK
<1>2. PyIInv /\ [PyNext]_pyVars => PyIInv'
  <2> SUFFICES ASSUME PyIInv, [PyNext]_pyVars PROVE PyIInv'
    OBVIOUS
  <2>1. GInv /\ PyTodoOK /\ AppliedOK /\ PyChained /\ UniquesKept
    BY DEF PyIInv
  <2>2. CASE UNCHANGED pyVars
    <3>1. /\ UNCHANGED <<entities, snapshot, files, run, clock, stops, soon, db, applied>>
          /\ Undisturbed' = Undisturbed
      BY <2>2 DEF pyVars, genVars, pyDbVars, Undisturbed
    <3>2. UNCHANGED genVars /\ db' \in [Tables -> DbTable \cup {NoTable}]
      BY <2>1, <3>1 DEF GInv, GenTypeOK, genVars
    <3>3. GInv' /\ PyTodoOK'
      BY <2>1, <3>1, <3>2, DatabaseKeeps DEF PyTodoOK, TodoLeft, FoundChanges
    <3>4. PyChained'
      <4>1. \A t \in Tables : Current(t)' = Current(t)
        BY <3>1 DEF Current
      <4> QED BY <2>1, <3>1, <4>1, PyChainsStay
    <3> QED BY <2>1, <3>1, <3>3, <3>4, AppliedStay DEF PyIInv
  <2>3. CASE UNCHANGED pyDbVars /\
             (Tick \/ \E t \in Tables : \E s \in EntitySchemas[t] \cup {NoTable} : Edit(t, s))
    <3>1. /\ GInv' /\ UNCHANGED <<snapshot, files, run, soon, db, applied>>
          /\ Undisturbed' = Undisturbed
      BY <2>1, <2>3, EditTickKeep DEF pyDbVars, Undisturbed
    <3>2. PyTodoOK'
      BY <2>1, <3>1 DEF PyTodoOK, TodoLeft, FoundChanges
    <3>3. PyChained'
      <4>1. \A t \in Tables : Current(t)' = Current(t)
        BY <3>1 DEF Current
      <4> QED BY <2>1, <3>1, <4>1, PyChainsStay
    <3> QED BY <2>1, <3>1, <3>2, <3>3, AppliedStay DEF PyIInv
  <2>4. CASE UNCHANGED pyDbVars /\ StartRun(FoundChanges(snapshot, entities))
    <3> DEFINE D == FoundChanges(snapshot, entities)
    <3>1. snapshot \in Schema /\ entities \in Schema /\ UNCHANGED <<db, applied>>
      BY <2>1, <2>4 DEF GInv, GenTypeOK, pyDbVars
    <3>2. D \subseteq AllChanges(snapshot, entities) /\ StartRun(D)
      BY <2>4, <3>1, ChangesFound
    <3> HIDE DEF D
    <3>3. /\ GInv' /\ UNCHANGED <<entities, snapshot, files, clock, stops>>
          /\ run = Idle /\ run' # Idle /\ run'.todo = D /\ run'.target = entities
          /\ Undisturbed' => Undisturbed
          /\ soon' = 0 => soon = 0
      <4>1. soon' \in Nat /\ soon' >= soon /\ stops' = stops
        BY <2>1, <3>1, <3>2, StartKeeps
      <4>2. soon \in Nat
        BY <2>1 DEF GInv, GenTypeOK
      <4>3. (Undisturbed' => Undisturbed) /\ (soon' = 0 => soon = 0)
        BY <4>1, <4>2 DEF Undisturbed
      <4> QED BY <2>1, <3>1, <3>2, <4>3, StartKeeps
    <3>4. PyTodoOK'
      <4>1. FoundChanges(snapshot, run.target)' = D
        BY <3>3 DEF FoundChanges, D
      <4> QED BY <3>3, <4>1 DEF PyTodoOK, TodoLeft
    <3>5. PyChained'
      <4>1. ASSUME NEW t \in Tables PROVE PyView[Current(t)'] = PyView[Current(t)]
        <5>1. Current(t) = snapshot[t] /\ snapshot' = snapshot
          BY <3>3 DEF Current
        <5>2. CASE \E ch \in D : ch.table = t
          <6>1. Current(t)' = snapshot[t]
            BY <3>3, <5>1, <5>2 DEF Current
          <6> QED BY <5>1, <6>1
        <5>3. CASE ~\E ch \in D : ch.table = t
          <6>1. Current(t)' = entities[t]
            BY <3>3, <5>3 DEF Current
          <6>2. Change(t, snapshot[t], entities[t]) \notin D
            BY <5>3 DEF Change
          <6> QED BY <3>1, <5>1, <6>1, <6>2, NotFoundAt DEF D
        <5> QED BY <5>2, <5>3
      <4> QED BY <2>1, <3>1, <3>3, <4>1, PyChainsStay
    <3> QED BY <2>1, <3>1, <3>3, <3>4, <3>5, AppliedStay DEF PyIInv
  <2>5. CASE UNCHANGED pyDbVars /\ Write(NextChanges)
    <3>1. UNCHANGED <<db, applied>> /\ NextChanges \subseteq run.todo
      BY <2>5 DEF pyDbVars, NextChanges, FirstTable
    <3>2. GInv'
      BY <2>1, <2>5, <3>1, WriteKeeps
    <3>3. PyTodoOK' /\ AppliedOK' /\ PyChained' /\ UniquesKept'
      BY <2>1, <2>5, <3>1, PyWrites
    <3> QED BY <3>2, <3>3 DEF PyIInv
  <2>6. CASE UNCHANGED pyDbVars /\ (SaveSnapshot \/ StopRun)
    <3>1. UNCHANGED <<db, applied>>
      BY <2>6 DEF pyDbVars
    <3>2. /\ GInv' /\ run' = Idle /\ files' = files /\ soon' = soon
          /\ stops' = stops \/ (stops' = stops + 1 /\ stops \in Nat)
      BY <2>1, <2>6, <3>1, RunEndsKeeps
    <3>3. Undisturbed' => Undisturbed /\ SaveSnapshot
      BY <2>6, <3>2 DEF StopRun, Undisturbed
    <3>4. PyTodoOK'
      BY <3>2 DEF PyTodoOK, TodoLeft
    <3>5. PyChained'
      <4>1. Undisturbed' => \A t \in Tables : Current(t)' = Current(t)
        BY <3>3 DEF SaveSnapshot, Current
      <4> QED BY <2>1, <3>1, <3>2, <3>3, <4>1, PyChainsStay
    <3> QED BY <2>1, <3>1, <3>2, <3>4, <3>5, AppliedStay DEF PyIInv
  <2>7. CASE Apply
    BY <2>1, <2>7, ApplyKeeps DEF PyIInv
  <2> QED BY <2>2, <2>3, <2>4, <2>5, <2>6, <2>7 DEF PyNext, PyGenerate
<1> QED
  BY <1>1, <1>2, PTL DEF PySpec

(* The types, of the files already written and of the changes still to do: a    *)
(* change is of a table and of schemas it had (main.py:125-167).                *)
THEOREM PyTypeCorrect == PySpec => []PyTypeOK
<1>1. PyIInv => PyTypeOK
  BY DEF PyIInv, GInv, GenTypeOK, AppliedOK, PyTypeOK
<1> QED
  BY <1>1, PyInvariance, PTL

(* Where every run was finished before the next, some seconds later, and every  *)
(* file is applied, the database has the columns of the snapshot but for their  *)
(* UNIQUEs, for any entities and any edits between the runs (main.py:155-167).  *)
THEOREM FilesLeadToColumns == PySpec => []ColumnsAreSnapshot
<1>1. ASSUME PyIInv PROVE ColumnsAreSnapshot
  <2> SUFFICES ASSUME Undisturbed, run = Idle, Waiting = {}, NEW t \in Tables
               PROVE  Plain(Shape(db[t])) = Plain(snapshot[t])
    BY DEF ColumnsAreSnapshot
  <2>1. Chain(PyView, Waiting, t)
    BY <1>1 DEF PyIInv, PyChained
  <2>2. Links(PyView, Waiting, t) = {} /\ Current(t) = snapshot[t]
    BY DEF Links, Current
  <2>3. PyView[Shape(db[t])] = PyView[snapshot[t]]
    BY <2>1, <2>2 DEF Chain, Leads
  <2>4. db[t] \in DbTable \cup {NoTable} /\ snapshot[t] \in TableSchema \cup {NoTable}
    BY <1>1 DEF PyIInv, GInv, GenTypeOK, Schema
  <2>5. Shape(db[t]) \in TableSchema \cup {NoTable}
    BY <2>4, ShapeAt DEF Shape
  <2>6. /\ PyView[Shape(db[t])] = IF Shape(db[t]) = NoTable THEN {} ELSE {Plain(Shape(db[t]))}
        /\ PyView[snapshot[t]] = IF snapshot[t] = NoTable THEN {} ELSE {Plain(snapshot[t])}
    BY <2>4, <2>5 DEF PyView
  <2>7. (Shape(db[t]) = NoTable <=> snapshot[t] = NoTable)
    BY <2>3, <2>6
  <2> QED BY <2>3, <2>6, <2>7
<1> QED
  BY <1>1, PyInvariance, PTL

(* And a column is UNIQUE there if and only if it was when it was last created  *)
(* or added (main.py:104-115).                                                  *)
THEOREM UniquesStayFromBirth == PySpec => []UniquesFromBirth
<1>1. ASSUME PyIInv PROVE UniquesFromBirth
  <2> SUFFICES ASSUME soon = 0, Waiting = {}, NEW t \in Tables, NEW c \in Cols,
                      db[t] # NoTable, db[t].cols[c] # NoCol
               PROVE  \E f \in Births(t, c) :
                        /\ \A g \in Births(t, c) : g.version <= f.version
                        /\ f.change.next.cols[c].unique = (c \in UniqueCols(db[t]))
    BY DEF UniquesFromBirth, Undisturbed
  <2>1. applied = files
    <3>1. VersionsDistinct /\ applied \subseteq files
      BY <1>1, NotSoon DEF PyIInv, AppliedOK
    <3> QED BY <3>1, WaitingIs
  <2>2. \A f : f \in Births(t, c) <=> f \in applied /\ BirthOf(f, t, c)
    BY <2>1 DEF Births, BirthOf
  <2>3. PICK f \in applied :
            /\ BirthOf(f, t, c)
            /\ \A g \in applied : BirthOf(g, t, c) => g.version <= f.version
            /\ f.change.next.cols[c].unique <=> c \in UniqueCols(db[t])
    BY <1>1 DEF PyIInv, UniquesKept, Kept
  <2>4. f.change.next.cols[c].unique \in BOOLEAN
    <3>1. f.change \in Changes
      BY <1>1, <2>1 DEF PyIInv, GInv, GenTypeOK
    <3>2. f.change.next \in TableSchema /\ f.change.next.cols[c] # NoCol
      BY <2>3, <3>1 DEF BirthOf, Changes
    <3> QED BY <3>2, ColumnsAt
  <2>5. f.change.next.cols[c].unique = (c \in UniqueCols(db[t]))
    BY <2>3, <2>4
  <2> QED BY <2>2, <2>3, <2>5
<1> QED
  BY <1>1, PyInvariance, PTL

(* A file of undisturbed runs is refused, rows apart, for two reasons only: it   *)
(* changes a type to one that does not convert by itself (main.py:111-113), or   *)
(* adds a NOT NULL column, and brings the warning the runner trips over          *)
(* (main.py:104-109).                                                            *)
THEOREM PyFailsForTwoReasons == PySpec => []PyFailuresKnown
<1>1. ASSUME PyIInv PROVE PyFailuresKnown
  <2> SUFFICES ASSUME NEW f \in files, Undisturbed, IsNextFile(f),
                      ~PyApplies(db[f.change.table], f.change)
               PROVE  /\ Kind(f.change) = "alter"
                      /\ TypeRefused(f.change) \/ Garbled(f.change.prev, f.change.next)
    BY DEF PyFailuresKnown
  <2> DEFINE u == f.change.table
  <2>1. /\ GInv /\ f.change \in Changes /\ u \in Tables /\ db[u] \in DbTable \cup {NoTable}
        /\ f.change.prev # NoTable \/ f.change.next # NoTable
    BY <1>1 DEF PyIInv, GInv, GenTypeOK, FilesOK, Changes
  <2>2. /\ Waiting \subseteq files /\ f \in Waiting
        /\ \A g \in Waiting : f.version <= g.version
    BY DEF IsNextFile, Waiting
  <2>3. Chain(PyView, Waiting, u)
    BY <1>1, <2>1 DEF PyIInv, PyChained
  <2>4. PyView[f.change.prev] = PyView[Shape(db[u])]
    BY <2>1, <2>2, <2>3, FirstChained DEF Undisturbed
  <2> QED BY <2>1, <2>4, PyAppliedView
<1> QED
  BY <1>1, PyInvariance, PTL

(* Only SaveSnapshot changes the snapshot, and the run has written by then every *)
(* change of columns between the old one and the new (main.py:155-167).         *)
LEMMA PySaveFindsFiles ==
    ASSUME PyIInv, [PyNext]_pyVars, NEW t \in Tables, Plain(snapshot[t]) # Plain(snapshot'[t])
    PROVE  \E f \in files : f.change = Change(t, snapshot[t], snapshot'[t])
<1>1. SaveSnapshot
  BY DEF PyNext, PyGenerate, Apply, Edit, Tick, StartRun, Write, StopRun, pyVars, genVars
<1>2. run # Idle /\ run.todo = {} /\ snapshot' = run.target
  BY <1>1 DEF SaveSnapshot
<1>3. snapshot \in Schema /\ run.target \in Schema
  BY <1>2, RunAt DEF PyIInv, GInv, GenTypeOK
<1>4. Change(t, snapshot[t], run.target[t]) \in FoundChanges(snapshot, run.target)
  BY <1>2, <1>3, NotFoundAt
<1> QED
  BY <1>2, <1>4 DEF PyIInv, PyTodoOK, TodoLeft

(* So does the snapshot of Python, whose runs save it last as well              *)
(* (main.py:155-167); a change of uniques alone makes no file.                  *)
THEOREM PySnapshotFollowsFiles == PySpec => PySnapshotNotAhead
<1>1. PyIInv /\ [PyNext]_pyVars =>
        [\A t \in Tables : Plain(snapshot[t]) # Plain(snapshot'[t]) =>
            \E f \in files : f.change = Change(t, snapshot[t], snapshot'[t])]_pyVars
  BY PySaveFindsFiles
<1> QED
  BY <1>1, PyInvariance, PTL DEF PySpec, PySnapshotNotAhead

-----------------------------------------------------------------------------
(* The containers of ApplyMigrations: the inductive invariant, what it says  *)
(* of one that serves, and the refinement of MigrationLog.                   *)

(* The first state has no container running and no file applied.              *)
LEMMA InitInv == Init => Inv
<1> SUFFICES ASSUME Init PROVE Inv
  OBVIOUS
<1>1. TypeOK
  BY DEF Init, TypeOK, Labels
<1>2. LogTellsEffects
  BY DEF Init, LogTellsEffects
<1>3. OneCreates
  BY DEF Init, OneCreates, Creating
<1>4. InStep
  BY DEF Init, InStep
<1> QED BY <1>1, <1>2, <1>3, <1>4 DEF Inv

(* The files of an image, and the place a container has come to, are numbers. *)
LEMMA Numbers ==
    ASSUME TypeOK, NEW r \in Replicas
    PROVE  at[r] \in Nat /\ \A j \in Image[r] : j \in Files /\ j \in Nat
<1>1. Files \subseteq Nat
  BY ImageAssumption
<1>2. at[r] \in Files \cup {0}
  BY DEF TypeOK
<1>3. Image[r] \subseteq Files
  BY ImageAssumption
<1>4. at[r] \in Nat
  <2>1. CASE at[r] \in Files
    BY <1>1, <2>1
  <2>2. CASE at[r] = 0
    BY <2>2
  <2> QED BY <1>2, <2>1, <2>2
<1>5. \A j \in Image[r] : j \in Files /\ j \in Nat
  BY <1>1, <1>3
<1> QED BY <1>4, <1>5

(* Each step of a container keeps the invariant; a file is committed only by  *)
(* a container that has it to itself and has come past all the files before.  *)
LEMMA RunnerInv ==
    ASSUME Inv, NEW r \in Replicas, Runner(r)
    PROVE  Inv'
<1> USE ImageAssumption DEF Inv, TypeOK, Labels
<1>1. CASE Start(r)
  BY <1>1 DEF Start, Goto, dbVars, LogTellsEffects, OneCreates, InStep, Creating
<1>2. CASE Connect(r)
  BY <1>2 DEF Connect, Goto, dbVars, LogTellsEffects, OneCreates, InStep, Creating
<1>3. CASE CreateLog(r)
  BY <1>3 DEF CreateLog, Goto, dbVars, LogTellsEffects, OneCreates, InStep, Creating
<1>4. CASE Waited(r)
  BY <1>4 DEF Waited, Goto, dbVars, LogTellsEffects, OneCreates, InStep, Creating
<1>5. CASE ReadLog(r)
  <2>1. TypeOK' /\ LogTellsEffects'
    BY <1>5 DEF ReadLog, Goto, LogTellsEffects
  <2>2. OneCreates'
    BY <1>5 DEF ReadLog, Goto, OneCreates, Creating
  <2>3. InStep'
    BY <1>5 DEF ReadLog, Goto, InStep
  <2> QED BY <2>1, <2>2, <2>3
<1>6. CASE Exec(r)
  <2> PICK k \in Image[r] :
          /\ IsNext(r, k)
          /\ ~\E q \in Replicas : pc[q] = "commit" /\ at[q] = k
          /\ IF k \in recorded \cup Broken
             THEN Goto(r, "failed") /\ UNCHANGED at
             ELSE Goto(r, "commit") /\ at' = [at EXCEPT ![r] = k]
    BY <1>6 DEF Exec
  <2>1. k \in Files
    OBVIOUS
  <2>2. TypeOK' /\ LogTellsEffects'
    BY <1>6, <2>1 DEF Exec, Goto, dbVars, LogTellsEffects
  <2>3. OneCreates'
    BY <1>6 DEF Exec, Goto, dbVars, OneCreates, Creating
  <2>4. \A j \in Image[r] : j < k => j \in recorded
    <3> SUFFICES ASSUME NEW j \in Image[r], j < k PROVE j \in recorded
      OBVIOUS
    <3>1. j \in Nat /\ k \in Nat /\ at[r] \in Nat
      BY Numbers
    <3>2. j \notin Todo(r)
      BY <3>1 DEF IsNext
    <3>3. j <= at[r] \/ j \in done[r]
      BY <3>1, <3>2 DEF Todo
    <3>4. pc[r] = "next"
      BY <1>6 DEF Exec
    <3> QED BY <3>3, <3>4 DEF InStep
  <2>5. InStep'
    BY <1>6, <2>1, <2>4 DEF Exec, Goto, dbVars, InStep
  <2> QED BY <2>2, <2>3, <2>5
<1>7. CASE Commit(r)
  <2>1. at[r] \in Files /\ at[r] \notin recorded
    BY <1>7 DEF Commit, InStep
  <2>0. times[at[r]] = 0
    BY <2>1 DEF LogTellsEffects
  <2>2. /\ times' = [times EXCEPT ![at[r]] = 1]
        /\ recorded' = recorded \cup {at[r]}
    <3>1. times' = [times EXCEPT ![at[r]] = times[at[r]] + 1]
      BY <1>7 DEF Commit
    <3>2. times[at[r]] + 1 = 1
      BY <2>0
    <3> QED BY <1>7, <3>1, <3>2 DEF Commit
  <2>5. TypeOK'
    <3>1. times' \in [Files -> Nat] /\ recorded' \subseteq Files
      BY <2>1, <2>2
    <3>2. pc' \in [Replicas -> Labels]
      BY <1>7 DEF Commit, Goto
    <3> QED BY <1>7, <3>1, <3>2 DEF Commit
  <2>6. LogTellsEffects'
    <3> SUFFICES ASSUME NEW k \in Files
                 PROVE  times'[k] = IF k \in recorded' THEN 1 ELSE 0
      BY DEF LogTellsEffects
    <3> QED BY <2>1, <2>2 DEF LogTellsEffects
  <2>3. OneCreates'
    BY <1>7 DEF Commit, Goto, OneCreates, Creating
  <2>4. InStep'
    <3> SUFFICES ASSUME NEW q \in Replicas PROVE
            /\ done'[q] \subseteq recorded'
            /\ pc'[q] \in {"connect", "create", "waiting", "created", "select"}
                    => at'[q] = 0
            /\ pc'[q] = "next" => \A j \in Image[q] : j <= at'[q] => j \in recorded'
            /\ pc'[q] = "commit" =>
                /\ at'[q] \in Image[q] \ recorded'
                /\ \A j \in Image[q] : j < at'[q] => j \in recorded'
                /\ \A p \in Replicas : pc'[p] = "commit" /\ at'[p] = at'[q] => p = q
      BY DEF InStep
    <3>1. /\ at' = at /\ done' = done /\ recorded \subseteq recorded'
          /\ pc' = [pc EXCEPT ![r] = "next"]
      BY <1>7 DEF Commit, Goto
    <3>2. \A j \in Image[r] : j <= at[r] => j \in recorded'
      <4> SUFFICES ASSUME NEW j \in Image[r], j <= at[r] PROVE j \in recorded'
        OBVIOUS
      <4>1. j \in Nat /\ at[r] \in Nat
        BY Numbers
      <4>2. j = at[r] \/ j < at[r]
        BY <4>1
      <4> QED BY <4>2, <1>7, <2>2 DEF Commit, InStep
    <3>3. CASE q = r
      BY <3>1, <3>2, <3>3 DEF InStep
    <3>4. CASE q # r
      <4>1. pc[q] = "commit" => at[q] # at[r]
        BY <1>7, <3>4 DEF Commit, InStep
      <4> QED BY <2>2, <3>1, <3>4, <4>1 DEF InStep
    <3> QED BY <3>3, <3>4
  <2> QED BY <2>5, <2>6, <2>3, <2>4
<1>8. CASE Finish(r)
  BY <1>8 DEF Finish, Goto, dbVars, LogTellsEffects, OneCreates, InStep, Creating
<1>9. CASE Lose(r)
  BY <1>9 DEF Lose, Goto, dbVars, LogTellsEffects, OneCreates, InStep, Creating
<1> QED
  BY <1>1, <1>2, <1>3, <1>4, <1>5, <1>6, <1>7, <1>8, <1>9 DEF Runner

(* So does a fault.                                                           *)
LEMMA StepInv == Inv /\ [Next]_vars => Inv'
<1> SUFFICES ASSUME Inv, [Next]_vars PROVE Inv'
  OBVIOUS
<1>1. ASSUME NEW r \in Replicas, Kill(r) PROVE Inv'
  BY <1>1 DEF Kill, Goto, dbVars, Inv, TypeOK, Labels, LogTellsEffects,
      OneCreates, InStep, Creating
<1>2. CASE Outage \/ Recover
  <2> USE DEF Inv
  <2>1. TypeOK'
    <3>1. up' \in BOOLEAN
      BY <1>2, Zenon DEF Outage, Recover
    <3>2. faults' \in Nat
      BY <1>2 DEF Outage, Recover, TypeOK
    <3> QED BY <1>2, <3>1, <3>2 DEF Outage, Recover, TypeOK
  <2>2. LogTellsEffects' /\ OneCreates' /\ InStep'
    BY <1>2 DEF Outage, Recover, LogTellsEffects, OneCreates, InStep, Creating
  <2> QED BY <2>1, <2>2
<1>3. CASE UNCHANGED vars
  BY <1>3 DEF vars, dbVars, Inv, TypeOK, LogTellsEffects, OneCreates, InStep,
      Creating
<1> QED BY RunnerInv, <1>1, <1>2, <1>3 DEF Next

(* Every reachable state satisfies the invariant: in particular a file has    *)
(* taken effect exactly as often as the log says (apply-migrations.py:54-57). *)
THEOREM FilesTakeEffectOnce == Spec => []Inv
<1>1. Init => Inv
  BY InitInv
<1>2. Inv /\ [Next]_vars => Inv'
  BY StepInv
<1> QED BY <1>1, <1>2, PTL DEF Spec

(* A container that serves has every migration of its image in the database,  *)
(* whatever the others did since it read the log (apply-migrations.py:45-59). *)
THEOREM ServersAreMigrated == Spec => []ServesMigrated
<1>1. Init => ServesMigrated
  BY DEF Init, ServesMigrated
<1>2. Inv /\ ServesMigrated /\ [Next]_vars => ServesMigrated'
  <2> SUFFICES ASSUME Inv, ServesMigrated, [Next]_vars,
                      NEW q \in Replicas, pc'[q] = "serving"
               PROVE  Image[q] \subseteq recorded'
    BY DEF ServesMigrated
  <2> USE ImageAssumption DEF Inv, TypeOK
  <2>1. recorded \subseteq recorded'
    BY DEF Next, Runner, vars, dbVars, Start, Connect, CreateLog, Waited,
        ReadLog, Exec, Commit, Finish, Lose, Kill, Outage, Recover
  <2>2. CASE pc[q] = "serving"
    BY <2>1, <2>2 DEF ServesMigrated
  <2>3. CASE pc[q] # "serving"
    <3>1. Finish(q)
      <4>1. ASSUME NEW r \in Replicas, Runner(r) \/ Kill(r) PROVE Finish(q)
        BY <2>3, <4>1 DEF Runner, Start, Connect, CreateLog, Waited,
            ReadLog, Exec, Commit, Finish, Lose, Kill, Goto
      <4> QED BY <2>3, <4>1 DEF Next, vars, Outage, Recover
    <3>2. \A j \in Image[q] : j \in recorded
      <4> SUFFICES ASSUME NEW j \in Image[q] PROVE j \in recorded
        OBVIOUS
      <4>1. j \in Nat /\ at[q] \in Nat
        BY Numbers
      <4>2. j <= at[q] \/ j \in done[q]
        BY <3>1, <4>1 DEF Finish, Todo
      <4> QED BY <3>1, <4>2 DEF Finish, InStep
    <3> QED BY <3>2, <2>1
  <2> QED BY <2>2, <2>3
<1> QED BY <1>1, <1>2, FilesTakeEffectOnce, PTL DEF Spec

(* Several containers apply the files as one that is never killed: the commit *)
(* of a file is the step of MigrationLog, every other step stutters.          *)
THEOREM AppliesSequentially == Spec => Sequential
<1>1. Init => Log!Init
  BY DEF Init, Log!Init
<1>2. Inv /\ [Next]_vars => [Log!Next]_times
  <2> SUFFICES ASSUME Inv, [Next]_vars, times' # times PROVE Log!Next
    OBVIOUS
  <2> USE ImageAssumption DEF Inv, TypeOK
  <2>1. PICK r \in Replicas : Commit(r)
    BY DEF Next, Runner, vars, dbVars, Start, Connect, CreateLog, Waited,
        ReadLog, Exec, Finish, Lose, Kill, Outage, Recover
  <2>2. /\ at[r] \in Files /\ at[r] \notin recorded
        /\ \A j \in Files : j < at[r] => j \in recorded
    BY <2>1 DEF Commit, InStep
  <2>3. times' = [times EXCEPT ![at[r]] = times[at[r]] + 1] /\ times[at[r]] = 0
    BY <2>1, <2>2 DEF Commit, LogTellsEffects
  <2>4. Log!Apply(at[r])
    BY <2>2, <2>3 DEF Log!Apply, LogTellsEffects
  <2> QED BY <2>2, <2>4 DEF Log!Next
<1> QED BY <1>1, <1>2, FilesTakeEffectOnce, PTL DEF Spec, Sequential, Log!Spec
=============================================================================
