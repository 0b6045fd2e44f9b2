---------------------------- MODULE MCConnections ----------------------------
(***************************************************************************)
(* Small instances of Connections: one connection more than the limit.     *)
(***************************************************************************)
EXTENDS Connections
==============================================================================
