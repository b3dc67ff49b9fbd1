------------------------- MODULE MCApplyMigrations -------------------------
(***************************************************************************)
(* A small instance of ApplyMigrations: a container of an old image and    *)
(* one of a new image, whose newest file may be broken.                    *)
(***************************************************************************)
EXTENDS ApplyMigrations, TLC

CONSTANTS r1, r2

OldAndNew == r1 :> 1..2 @@ r2 :> 1..3
=============================================================================
