-------------------------- MODULE MCMemoryLimiter --------------------------
(* The in-process engine on a few tasks.                                   *)
EXTENDS MemoryLimiter, TLC

\* Tasks are interchangeable: no action or safety property names one.
Symmetry == Permutations(Tasks)
=============================================================================
