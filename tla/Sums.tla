--------------------------------- MODULE Sums ---------------------------------
(***************************************************************************)
(* The sum of the values of a function over a finite part of its domain.   *)
(***************************************************************************)
EXTENDS FiniteSetsExt

SumOver(f, S) == MapThenSumSet(LAMBDA x : f[x], S)
===============================================================================
