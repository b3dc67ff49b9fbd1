-------------------------- MODULE MCMigrationGenGo --------------------------
(***************************************************************************)
(* Small instances of MigrationGenGo: two tables, two columns, one index.  *)
(***************************************************************************)
EXTENDS MigrationGenGo, TLC

CONSTANTS users, orders, a, b, text, bigint, ab

Col(ty, nn, uq) == [type |-> ty, notNull |-> nn, unique |-> uq]
Tbl(ca, cb, ix) == [cols |-> (a :> ca @@ b :> cb), idx |-> (ab :> ix)]
OnBoth(uq) == [on |-> <<a, b>>, unique |-> uq]

\* Columns added, dropped, altered and made unique; an index added, changed
\* and dropped with its column.
Evolution ==
    {Tbl(Col(text, TRUE, TRUE), NoCol, NoIdx),
     Tbl(Col(text, TRUE, FALSE), Col(bigint, FALSE, TRUE), OnBoth(FALSE)),
     Tbl(Col(bigint, FALSE, FALSE), Col(bigint, FALSE, TRUE), OnBoth(TRUE))}

TwoTables == users :> Evolution @@ orders :> {Tbl(Col(text, TRUE, TRUE), NoCol, NoIdx)}

\* Every bigint has a text, not every text a bigint.
BigintToText == {<<bigint, text>>}

Order == users :> 2 @@ orders :> 1
=============================================================================
