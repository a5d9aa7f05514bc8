--------------------------- MODULE MCRateLimiter ---------------------------
(* Instance of RateLimiter for TLC: two tokens of two ticks each, a bucket  *)
(* that becomes full just before it may be dropped, and requests that stall *)
(* across a tick.  No symmetry: the instance is checked for liveness too.   *)
EXTENDS RateLimiter, TLC
=============================================================================
