--------------------------- MODULE MCLimitChecks ---------------------------
(* Checks of a limiter of places, a limiter of a rate and a missing one.   *)
EXTENDS LimitChecks, TLC

CONSTANTS place, rate, missing

MCKnown == {place, rate}

\* Each alone, both in both orders, and the missing one with one that is there.
MCLists == {<<place>>, <<rate>>, <<place, rate>>, <<rate, place>>, <<missing, place>>}

\* Tasks are interchangeable.
Symmetry == Permutations(Tasks)
=============================================================================
