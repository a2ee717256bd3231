---------------------------- MODULE MCRedisWindow ----------------------------
(* The sliding windows on Redis with a few clients.                        *)
EXTENDS RedisWindowViewer, TLC

\* Clients are interchangeable: no action or safety property names one.
Symmetry == Permutations(Clients)
=============================================================================
