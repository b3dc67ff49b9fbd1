---------------------------- MODULE MCUserApiGo ----------------------------
(***************************************************************************)
(* Small instances of UserApiGo.                                           *)
(***************************************************************************)
EXTENDS UserApiGo, UserRequestSamples
=============================================================================
