---------------------------- MODULE MCRateLimiter ----------------------------
(***************************************************************************)
(* Instances of RateLimiter.  A token is two ticks; a burst is one or two  *)
(* tokens, so that refills are capped and calls denied within a few ticks. *)
(***************************************************************************)
EXTENDS RateLimiter, TLC

CONSTANTS ipA, ipB, socks5, http

\* Neither the two loops nor the two addresses differ in anything.
Symmetry == Permutations(Ips) \union Permutations(Listeners)
=============================================================================
