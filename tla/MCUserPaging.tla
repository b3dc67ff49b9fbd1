---------------------------- MODULE MCUserPaging ----------------------------
(* Four users, an int32 of 3 bits and a bigint of 5, and limits on both     *)
(* sides of every bound of these.                                           *)
EXTENDS UserPaging
MCLimits == {-17, -1, 0, 1, 2, 3, 4, 8, 9, 16, Absent, Text}
=============================================================================
