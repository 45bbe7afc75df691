------------------------------ MODULE Policies ------------------------------
(***************************************************************************)
(* The decisions of the two policy layers (src/src/rbac.rs and             *)
(* src/src/odrl.rs): which roles let a principal act on a resource, and    *)
(* whether an ODRL policy lets an assignee take an action.                 *)
(*                                                                         *)
(* An RBAC policy is [assignments, roles]: pairs of a principal and a      *)
(* role, and the permissions of each role, [action, resource] each.  An    *)
(* ODRL policy is [target, assigner, permissions, prohibitions], the last  *)
(* two of them sets of rules [action, assignee].                           *)
(***************************************************************************)

\* Only a pattern that is "*" as a whole matches more than itself:
\* "summaries:*" is a resource like any other.
Matches(permission, action, resource) ==
  /\ permission.action \in {"*", action}
  /\ permission.resource \in {"*", resource}

\* Mutant: roles are matched without looking at who has them.
MatchedRolesOfAnyone(rbac, principal, action, resource) ==
  {role \in DOMAIN rbac.roles :
     \E permission \in rbac.roles[role] : Matches(permission, action, resource)}

\* The roles that let the principal act; one that is assigned but not defined
\* lets nobody do anything.
MatchedRoles(rbac, principal, action, resource) ==
  {role \in DOMAIN rbac.roles :
     /\ <<principal, role>> \in rbac.assignments
     /\ \E permission \in rbac.roles[role] :
          Matches(permission, action, resource)}

Decide(rbac, principal, action, resource) ==
  LET roles == MatchedRoles(rbac, principal, action, resource)
  IN  [principal |-> principal, action |-> action, resource |-> resource,
       allowed |-> roles # {}, matched_roles |-> roles]

\* A prohibition wins over a permission.
Allows(policy, assignee, action) ==
  LET rule == [action |-> action, assignee |-> assignee]
  IN  rule \in policy.permissions /\ rule \notin policy.prohibitions
=============================================================================
