--------------------------- MODULE MCSyncSession ---------------------------
(* Instances of SyncSession.                                               *)
EXTENDS SyncSession

CONSTANTS w1, w2, f1, f2

Of(w, none) == [wallet |-> w, empty |-> none]

\* Two flows of one wallet, or one with a flow of another wallet that names
\* no account; either wallet may cancel and close.
MCRequests ==
    {[f \in Flow |-> IF f = f1 THEN Of(w1, FALSE) ELSE r] :
        r \in {Of(w1, FALSE), Of(w2, TRUE)}}
=============================================================================
