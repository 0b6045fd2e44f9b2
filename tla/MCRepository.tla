---------------------------- MODULE MCRepository ----------------------------
(***************************************************************************)
(* Small instances of Repository: the bounds are given in the cfg files.   *)
(***************************************************************************)
EXTENDS Repository
=============================================================================
