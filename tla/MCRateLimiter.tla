--------------------------- MODULE MCRateLimiter ---------------------------
(* Instances of RateLimiter for TLC. *)
EXTENDS RateLimiter, TLC
Symmetry == Permutations(Workers) \cup Permutations(Clients)
============================================================================
