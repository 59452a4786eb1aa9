-------------------------------- MODULE Sums --------------------------------
(* The sum of f[x] for the x in S. *)
EXTENDS Integers, Functions

SumOver(S, f) == FoldFunctionOnSet(+, 0, f, S)
=============================================================================
