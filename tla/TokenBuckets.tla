---------------------------- MODULE TokenBuckets ----------------------------
(***************************************************************************)
(* What a rate limit promises: every client has one bucket, full at first, *)
(* that refills by one unit a tick up to Capacity.  A request is admitted  *)
(* exactly when its client's bucket holds Cost, which it takes.  Nothing   *)
(* else fills a bucket and nobody is forgotten.                            *)
(***************************************************************************)
EXTENDS Naturals

CONSTANTS Clients, Capacity, Cost

VARIABLES
  level,   \* what is in each client's bucket
  verdict  \* the last answer, and whom it was for

bvars == <<level, verdict>>

Admit(c) ==
  /\ level[c] >= Cost
  /\ level' = [level EXCEPT ![c] = @ - Cost]
  /\ verdict' = <<c, "admitted">>

Refuse(c) ==
  /\ level[c] < Cost
  /\ verdict' = <<c, "refused">>
  /\ UNCHANGED level

Refill ==
  /\ level' = [c \in Clients |-> IF level[c] < Capacity THEN level[c] + 1 ELSE level[c]]
  /\ UNCHANGED verdict

Init ==
  /\ level = [c \in Clients |-> Capacity]
  /\ verdict = <<>>

Next == Refill \/ \E c \in Clients : Admit(c) \/ Refuse(c)

Spec == Init /\ [][Next]_bvars
=============================================================================
