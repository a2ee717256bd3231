------------------------- MODULE MCLimiterRegistry -------------------------
(* The registry with a few tasks and ids.                                  *)
EXTENDS LimiterRegistry, TLC

\* Tasks are interchangeable.
Symmetry == Permutations(Tasks)
=============================================================================
