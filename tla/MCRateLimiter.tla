---------------------------- MODULE MCRateLimiter ----------------------------
(* Instances of RateLimiter: five attempts on a key that allows two per    *)
(* window of four ticks, two ticks to the second.                           *)
EXTENDS RateLimiter, TLC

CONSTANTS a1, a2, a3, a4, a5

Interchangeable == Permutations(Attempts)
==============================================================================
