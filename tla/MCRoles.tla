------------------------------ MODULE MCRoles ------------------------------
(* An instance of Roles: x is a role that an admin makes, usersRead the permission that is seeded. *)
EXTENDS Roles, TLC

CONSTANTS admin, user, usersRead

MCSeedRoles == <<admin, user>>
MCSeedPerms == <<usersRead>>
MCDefaultGrants == [n \in RoleNames |-> IF n = user THEN {usersRead} ELSE {}]
Symmetry == Permutations(Requests)
=============================================================================
