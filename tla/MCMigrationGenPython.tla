------------------------ MODULE MCMigrationGenPython ------------------------
(***************************************************************************)
(* Small instances of MigrationGenPython: two tables, two columns.         *)
(***************************************************************************)
EXTENDS MigrationGenPython, TLC

CONSTANTS users, orders, a, b, text, bigint

Col(ty, nn, uq) == [type |-> ty, notNull |-> nn, unique |-> uq]
Tbl(ca, cb) == [cols |-> (a :> ca @@ b :> cb), idx |-> <<>>]

\* Columns added (NOT NULL or not), dropped, altered; a UNIQUE that comes
\* with its column, or to a column that is there.
Evolution ==
    {Tbl(Col(bigint, TRUE, TRUE), NoCol),
     Tbl(Col(text, TRUE, FALSE), Col(bigint, FALSE, TRUE)),
     Tbl(Col(bigint, FALSE, FALSE), Col(bigint, TRUE, FALSE))}

TwoTables == users :> Evolution @@ orders :> {Tbl(Col(text, TRUE, TRUE), NoCol)}

\* Every bigint has a text, not every text a bigint.
BigintToText == {<<bigint, text>>}

Order == users :> 1 @@ orders :> 2
=============================================================================
