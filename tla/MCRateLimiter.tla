---------------------------- MODULE MCRateLimiter ----------------------------
(* RateLimiter with a limit of two jobs in a window of two seconds. *)
EXTENDS RateLimiter, TLC

Symmetry == Permutations(Requests) \cup Permutations(Users)
=============================================================================
