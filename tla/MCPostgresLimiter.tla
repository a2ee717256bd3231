------------------------- MODULE MCPostgresLimiter -------------------------
(* The PostgreSQL engine on a few clients.                                 *)
EXTENDS PostgresViewer, TLC

\* Clients are interchangeable: no action or safety property names one.
Symmetry == Permutations(Clients)
=============================================================================
