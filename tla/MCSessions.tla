----------------------------- MODULE MCSessions -----------------------------
(* Instance of Sessions for TLC: two requests in flight share a cookie, a    *)
(* second user logs in over the session of the first, and a session can be   *)
(* used after it was idle for a while and before its lifetime is over.       *)
EXTENDS Sessions, TLC
=============================================================================
