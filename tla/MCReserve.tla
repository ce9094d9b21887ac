----------------------------- MODULE MCReserve -----------------------------
(* Instances of Reserve.                                                   *)
EXTENDS Reserve, TLC

CONSTANTS a1, i1, i2, t1, t2, c1, c2

\* One account with two notes: t1 and t2 compete for i2, and t1 also spends i1, so
\* that it is recognised by i1 alone while a rewind has taken the row of i2; t1
\* lapses, t2 does not.
MCInputs == (t1 :> {i1, i2}) @@ (t2 :> {i2})
MCExpiry == (t1 :> 2) @@ (t2 :> 0)
MCReceives == {<<a1, i1>>, <<a1, i2>>}
=============================================================================
