-------------------------------- MODULE Sums --------------------------------
(* Sums of amounts: the iter().sum() of the planners.                       *)
EXTENDS Integers, FiniteSets, FiniteSetsExt

\* The sum of a function's values.
SumOf(f) == MapThenSumSet(LAMBDA x : f[x], DOMAIN f)
=============================================================================
