------------------------------ MODULE MCTxRuns ------------------------------
(* A Go request alone, and one beside a Go request that also uses a context *)
(* from outside its run or beside a Python request, over two rows.          *)
EXTENDS TxRuns, TLC
CONSTANTS g, stray, p
MCBudgets == {(g :> 4) @@ (stray :> 0) @@ (p :> 0),
              (g :> 3) @@ (stray :> 3) @@ (p :> 0),
              (g :> 3) @@ (stray :> 0) @@ (p :> 4)}
=============================================================================
