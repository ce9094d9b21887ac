------------------------- MODULE MCTransparentSync -------------------------
(* Instances of TransparentSync.                                           *)
EXTENDS TransparentSync

\* The account's own address, another receive address, a change address.
AllAddr == {<<0, 0>>, <<0, 1>>, <<1, 0>>}

OwnOnly == {<<0, 0>>}
TwoReceive == {<<0, 0>>, <<0, 1>>}
WithChange == {<<0, 0>>, <<1, 0>>}

\* No fork and no host operation; the other fields are overridden below.
Plain ==
    [addrs |-> OwnOnly, payees |-> OwnOnly, narrow |-> FALSE, forks |-> 0,
     ticks |-> 3, walks |-> 1, fails |-> 1, host |-> 0, ops |-> {}]

\* A restore does not know the second address, and payments go to it.
Unknown == [Plain EXCEPT !.addrs = TwoReceive, !.payees = {<<0, 1>>}]

AllOps == {"rewind", "reset", "replace", "birth", "receive", "change"}

\* Payments go to a change address outside the scan window.
ChangePaid == [Plain EXCEPT !.addrs = WithChange, !.payees = {<<1, 0>>}]

\* Two forks around the account's own address, with a failure or with a walk;
\* a fork under a walk that may fail; host operations under a walk; windows
\* narrowed by the server.
SyncBudgets ==
    {[Plain EXCEPT !.forks = 2, !.walks = 0],
     [Plain EXCEPT !.forks = 2, !.ticks = 2, !.fails = 0],
     [Unknown EXCEPT !.forks = 1, !.ticks = 2],
     [Unknown EXCEPT !.ticks = 1, !.fails = 0, !.host = 2, !.ops = AllOps],
     [Unknown EXCEPT !.ticks = 2, !.host = 1, !.ops = AllOps],
     [ChangePaid EXCEPT !.narrow = TRUE, !.ticks = 2, !.walks = 2, !.fails = 2]}

LateForkBudgets ==
    {[Plain EXCEPT !.forks = 1, !.ticks = 1, !.walks = 0, !.fails = 0]}

=============================================================================
