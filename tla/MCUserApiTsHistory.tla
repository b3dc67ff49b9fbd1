------------------------- MODULE MCUserApiTsHistory -------------------------
(***************************************************************************)
(* Small instances of UserApiTsHistory.                                    *)
(***************************************************************************)
EXTENDS UserApiTsHistory, UserRequestSamples
=============================================================================
