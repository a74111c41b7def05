----------------------------- MODULE MCMatcher -----------------------------
(* Bounds for MatcherPool: see MCMatcher.cfg. *)
EXTENDS MatcherPool
============================================================================
