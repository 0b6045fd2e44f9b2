------------------------------ MODULE MCRegistry ------------------------------
(***************************************************************************)
(* Small instances of Registry.  Threads and boots are interchangeable.    *)
(***************************************************************************)
EXTENDS Registry, TLC

Symmetry == Permutations(Threads) \cup Permutations(Boots)
===============================================================================
