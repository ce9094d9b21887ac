----------------------------- MODULE MCMempool -----------------------------
(* Instances of Mempool.                                                   *)
EXTENDS Mempool, TLC

CONSTANTS w1, f1, f2, h1

\* Two collections of one wallet.
MCWalletOf == (f1 :> w1) @@ (f2 :> w1)
=============================================================================
