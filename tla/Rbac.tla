-------------------------------- MODULE Rbac --------------------------------
(***************************************************************************)
(* Roles, the role lists the organization routes pass to requireRole, and  *)
(* the capability table that GET /roles/permissions publishes.  The two    *)
(* tables live in different files of the code and nothing but review keeps *)
(* them in step: the routes decide, the published table promises.          *)
(***************************************************************************)

Roles == {"OWNER", "ADMIN", "MEMBER"}

\* The roles a request body may name: the validators of invitations and of
\* role changes accept no other value.
GrantableRoles == {"ADMIN", "MEMBER"}

\* Operations behind requireOrgMembership that change state.
GatedOps == {"updateOrg", "deleteOrg", "updateRole", "removeMember", "invite"}

\* The roles requireRole lets through on each of these routes.
AllowedRoles(op) ==
  IF op = "deleteOrg" THEN {"OWNER"} ELSE {"OWNER", "ADMIN"}

\* The permission each operation exercises ...
Permission ==
  [updateOrg    |-> "org:update",
   deleteOrg    |-> "org:delete",
   updateRole   |-> "role:update",
   removeMember |-> "member:remove",
   invite       |-> "member:invite"]

\* ... and the permissions the published matrix gives to each role.
MemberCapabilities == {"org:read", "member:read", "project:read"}

AdminCapabilities ==
  MemberCapabilities \cup
  {"org:update", "member:invite", "member:remove", "role:update",
   "project:create", "project:update", "project:delete"}

Capabilities(role) ==
  CASE role = "OWNER"  -> AdminCapabilities \cup {"org:delete"}
    [] role = "ADMIN"  -> AdminCapabilities
    [] role = "MEMBER" -> MemberCapabilities
    [] OTHER           -> {}

\* The roles whose published capabilities include what op needs.
RolesCapableOf(op) == {role \in Roles : Permission[op] \in Capabilities(role)}
=============================================================================
