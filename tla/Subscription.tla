---------------------------- MODULE Subscription ----------------------------
(***************************************************************************)
(* What the process-wide mempool subscription promises about its runs,     *)
(* whoever starts and stops them: at most one run is held at a time; a run *)
(* is begun once; a run that is let go is waited for, and the wait is over *)
(* only when its reader is.  Mempool implements this specification.        *)
(***************************************************************************)
CONSTANTS
    Run,   \* runs
    None   \* no run is held; not a run

VARIABLES
    held,    \* the run that a poll reads from
    live,    \* runs whose reader has not stopped
    begun,   \* runs that were ever begun
    waited   \* runs let go whose stop has not returned

vars == <<held, live, begun, waited>>

Init == held = None /\ live = {} /\ begun = {} /\ waited = {}

Begin(r) ==
    /\ held = None /\ r \notin begun
    /\ held' = r
    /\ live' = live \cup {r}
    /\ begun' = begun \cup {r}
    /\ UNCHANGED waited

LetGo ==
    /\ held # None
    /\ held' = None
    /\ waited' = waited \cup {held}
    /\ UNCHANGED <<live, begun>>

ReaderStops(r) ==
    /\ r \in live
    /\ live' = live \ {r}
    /\ UNCHANGED <<held, begun, waited>>

StopReturns(r) ==
    /\ r \in waited /\ r \notin live
    /\ waited' = waited \ {r}
    /\ UNCHANGED <<held, live, begun>>

Next == LetGo \/ \E r \in Run : Begin(r) \/ ReaderStops(r) \/ StopReturns(r)

Spec == Init /\ [][Next]_vars

(* No reader is stranded: one that still runs is held, where the next stop *)
(* finds it, or is being waited for.                                       *)
NoneStranded == live \subseteq waited \cup {held}
=============================================================================
