--------------------------- MODULE MCRateLimiter ----------------------------
(***************************************************************************)
(* An instance of RateLimiter for TLC.  Replicas are interchangeable, and  *)
(* so are the names of hits.                                               *)
(***************************************************************************)
EXTENDS RateLimiter, TLC

EitherBackend == {"memory", "redis"}
Symmetry == Permutations(Slots) \cup Permutations(Replicas)
=============================================================================
