------------------------------ MODULE MCServer ------------------------------
(* Two clients that share one connection of the pool. *)
EXTENDS Server, TLC
=============================================================================
