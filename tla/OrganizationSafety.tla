------------------------- MODULE OrganizationSafety -------------------------
(***************************************************************************)
(* What must hold of organizations and memberships however requests        *)
(* interleave, fail and race with the cleanup job, and the inductive       *)
(* invariant it rests on.                                                  *)
(***************************************************************************)
EXTENDS Organization

\* The rows and the requests in flight have their types.
TypeOK ==
  /\ org \in [Orgs -> OrgRow]
  /\ member \in [Orgs -> [Users -> Roles \cup {"none"}]]
  /\ invitation \in [Invites -> InvitationRow]
  /\ req \in [Req -> Request]

\* An organization has exactly one OWNER membership, that of the user in
\* organizations.owner_id, and an id without an organization has no member.
\* The two facts are kept in two tables and nothing but the checks made by
\* role changes, removals and acceptances keeps them together.
SingleOwner ==
  \A o \in Orgs, u \in Users :
    /\ member[o][u] = "OWNER" <=> (Exists(o) /\ org[o].owner = u)
    /\ member[o][u] # "none" => Exists(o)

-----------------------------------------------------------------------------
(* The inductive invariant: what a request in flight may rely on although  *)
(* the rows it read have changed since.                                    *)

\* Steps at which the target, a grantable role or an invitation is at hand.
TargetSteps == {"readTarget", "writeRole", "deleteMember", "checkInvitee",
                "findPending", "supersede", "createInvite"}
RoleSteps == {"writeRole", "checkInvitee", "findPending", "supersede",
              "createInvite", "admit"}
InviteSteps == {"supersede", "markExpired", "admit"}

\* Behind the gate a request works on an organization that exists; before a
\* membership is written, its holder is known not to be the owner; before an
\* invitation is used up, it is known to be the caller's.
RequestOK(q) ==
  /\ q.pc # "idle" => q.actor \in Users /\ q.org \in Orgs /\ Exists(q.org)
  /\ q.pc = "membership" =>
       /\ q.op \in GatedOps
       /\ q.op \in TargetOps => q.target \in Users
       /\ q.op \in {"updateRole", "invite"} => q.role \in GrantableRoles
  /\ q.pc = "readTarget" /\ q.op = "updateRole" => q.role \in GrantableRoles
  /\ q.pc \in TargetSteps => q.target \in Users
  /\ q.pc \in RoleSteps => q.role \in GrantableRoles
  /\ q.pc \in {"writeRole", "deleteMember"} => q.target # org[q.org].owner
  /\ q.pc \in InviteSteps =>
       q.inv \in Invites /\ invitation[q.inv].status # "none"
  /\ q.pc = "admit" => /\ invitation[q.inv].org = q.org
                       /\ invitation[q.inv].email = q.actor

RequestsOK == \A r \in Req : RequestOK(req[r])

\* A request only makes the calls of the service function of its operation.
OnRoute(q) ==
  \/ q.op = "none" /\ q.pc = "idle"
  \/ q.op = "updateOrg" /\ q.pc \in {"membership", "writeOrg"}
  \/ q.op = "deleteOrg" /\ q.pc \in {"membership", "readOwner", "softDelete"}
  \/ q.op = "updateRole" /\ q.pc \in {"membership", "readTarget", "writeRole"}
  \/ q.op = "removeMember" /\ q.pc \in {"membership", "readTarget", "deleteMember"}
  \/ q.op = "invite" /\ q.pc \in {"membership", "checkInvitee", "findPending",
                                  "supersede", "createInvite"}
  \/ q.op = "accept" /\ q.pc \in {"markExpired", "admit"}

OnRoutes == \A r \in Req : OnRoute(req[r])

\* An invitation belongs to an organization that exists, and invites
\* somebody to a grantable role; only founded organizations are active.
RowsAreLinked ==
  /\ \A i \in Invites :
       invitation[i].status # "none" =>
         /\ invitation[i].org \in Orgs
         /\ Exists(invitation[i].org)
         /\ invitation[i].email \in Users
         /\ invitation[i].role \in GrantableRoles
  /\ \A o \in Orgs : org[o].isActive => Exists(o)

IInv ==
  /\ TypeOK
  /\ SingleOwner
  /\ RequestsOK
  /\ RowsAreLinked

-----------------------------------------------------------------------------
(* The service implements the ownership contract.                          *)

Contract ==
  INSTANCE Ownership WITH owner <- [o \in Orgs |-> org[o].owner],
                          role  <- member,
                          open  <- [o \in Orgs |-> org[o].isActive]

\* README, RBAC roles: OWNER is "Set automatically on org creation. Cannot be
\* changed via API".  Every step of the service is one of the contract's
\* steps or leaves ownership, roles and activity alone.
ImplementsOwnership == Contract!OwnSpec
=============================================================================
