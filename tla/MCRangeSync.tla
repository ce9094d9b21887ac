---------------------------- MODULE MCRangeSync ----------------------------
(* Instances of RangeSync.                                                 *)
EXTENDS RangeSync

CONSTANTS x, y

\* A host of one account, and one that syncs two alone or together.
OneAndTwo == {{{x}}, {{x}, {y}, {x, y}}}
Two == {{{x}, {y}, {x, y}}}
SameBirth == [a \in Account |-> 1]
=============================================================================
