------------------------------ MODULE MCLogin ------------------------------
(* Instance of Login for TLC: two of three logins in flight reach the       *)
(* threshold while the third is between its read and its write, and a lock  *)
(* takes more than one tick to end.                                         *)
EXTENDS Login, TLC
=============================================================================
