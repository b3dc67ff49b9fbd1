------------------------- MODULE MCUserApiGoHistory -------------------------
(***************************************************************************)
(* Small instances of UserApiGoHistory.                                    *)
(***************************************************************************)
EXTENDS UserApiGoHistory, UserRequestSamples
=============================================================================
