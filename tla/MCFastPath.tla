------------------------------ MODULE MCFastPath ------------------------------
(* Instances of FastPath for TLC; each run gives the constants their values. *)
EXTENDS FastPath
=============================================================================
