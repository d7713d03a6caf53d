-------------------------------- MODULE Sums --------------------------------
(***************************************************************************)
(* The sum of the numbers f[x] over a finite set of indices, written so    *)
(* that the provers can reason about it: the values are a function, not an *)
(* operator.                                                               *)
(***************************************************************************)
EXTENDS Integers, FiniteSetsExt

SumOver(f, S) == MapThenSumSet(LAMBDA x : f[x], S)
=============================================================================
