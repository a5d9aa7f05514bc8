---------------------------- MODULE MCAccounts ----------------------------
(* Instance of Accounts for TLC.  The members of each set are               *)
(* interchangeable, and the runs check no liveness.                         *)
EXTENDS Accounts, TLC

Symmetry ==
  Permutations(Requests) \cup Permutations(UserIds)
    \cup Permutations(TokenIds) \cup Permutations(Emails)
=============================================================================
