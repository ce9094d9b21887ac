---------------------------- MODULE MCMigration ----------------------------
(***************************************************************************)
(* Migration on a small wallet.  Denominations are 3 and 12 in Ironwood, 7 *)
(* and 16 in Orchard.                                                      *)
(***************************************************************************)
EXTENDS Migration

Copies(n, v) == [u \in {v} |-> n]

\* A split of several kinds of output; more notes than one split takes, whose
\* fee trims an output; a split that leaves no change; a standard note beside
\* notes below the minimum.
MCWallets ==
    {Copies(1, 40) (+) Copies(1, 5),
     Copies(13, 8),
     Copies(1, 18) (+) Copies(1, 11),
     Copies(2, 7) (+) Copies(1, 16) (+) Copies(1, 9)}
=============================================================================
