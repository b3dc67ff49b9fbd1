---------------------------- MODULE MigrationLog ----------------------------
(***************************************************************************)
(* What tools/apply-migrations.py promises of the migration files,         *)
(* numbered in the order of their names: each is applied once, and not     *)
(* before the ones that come before it.                                    *)
(***************************************************************************)
EXTENDS Naturals

CONSTANT Files      \* the numbers of the files

VARIABLE times      \* times[k]: how often file k has taken effect

Init == times = [k \in Files |-> 0]

Apply(k) ==
    /\ times[k] = 0
    /\ \A j \in Files : j < k => times[j] = 1
    /\ times' = [times EXCEPT ![k] = 1]

Next == \E k \in Files : Apply(k)

Spec == Init /\ [][Next]_times
=============================================================================
