---------------------------- MODULE MCRateLimiter ----------------------------
(* Model checking of RateLimiter: requests are interchangeable, and so are the *)
(* addresses they come from.                                                   *)
EXTENDS RateLimiter, TLC

Symmetry == Permutations(Tasks) \cup Permutations(Sources)
=============================================================================
