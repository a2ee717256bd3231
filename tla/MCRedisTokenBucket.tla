------------------------- MODULE MCRedisTokenBucket -------------------------
(* The Redis token bucket on a few clients.                                *)
EXTENDS RedisTokenBucket, TLC

\* Clients are interchangeable: no action or safety property names one.
Symmetry == Permutations(Clients)
=============================================================================
