-------------------------- MODULE MCUserApiPython --------------------------
(***************************************************************************)
(* Small instances of UserApiPython.                                       *)
(***************************************************************************)
EXTENDS UserApiPython, UserRequestSamples
=============================================================================
