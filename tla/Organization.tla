---------------------------- MODULE Organization ----------------------------
(***************************************************************************)
(* Organizations, memberships and invitations: the rows the organization   *)
(* service keeps and the HTTP requests that change them.                   *)
(*                                                                         *)
(* A request is an async function: between two awaits nothing else runs,   *)
(* across an await anything may.  Each action below is the execution of    *)
(* one database call together with the code up to the next one, so a       *)
(* request holds in req[r] what its earlier calls returned and acts on it  *)
(* later, whatever happened to the rows meanwhile.  A $transaction is one  *)
(* action.                                                                 *)
(*                                                                         *)
(* A user and the user's e-mail address are identified (the address is     *)
(* unique and no operation changes it); an address without an account      *)
(* takes the branch of an address that is not a member.                    *)
(*                                                                         *)
(* prisma/seed.js is part of setting a database up: its rows may be there  *)
(* at the start.  A script run against organizations in use, and one that  *)
(* died halfway, are not modelled.                                         *)
(*                                                                         *)
(* A definition commented "Mutant" is used by no other: it is a plausible  *)
(* mistake in the definition that follows, for showing that the properties *)
(* depend on the code being as it is.                                      *)
(***************************************************************************)
EXTENDS Rbac

CONSTANTS
  Orgs,      \* ids organizations can get (bound: one creation per id)
  Demo,      \* those of them that the seed script may have created before
  Users,     \* registered users, also the addresses that can be invited
  Invites,   \* ids invitations can get (bound: one creation per id)
  Req,       \* slots for requests in flight (bound: how many overlap)
  Ops,       \* the operations clients send
  NULL

ManageOps == {"updateRole", "removeMember"}
TargetOps == ManageOps \cup {"invite"}

ASSUME NullAssumption == NULL \notin Orgs \cup Users \cup Invites
ASSUME OpsAssumption == Ops \subseteq GatedOps \cup {"accept"}
ASSUME DemoAssumption == Demo \subseteq Orgs

VARIABLES
  org,         \* organizations: owner, isActive, author of the last update
  member,      \* organization_members: role of each user in each organization
  invitation,  \* invitations
  req          \* requests in flight

tables == <<org, member, invitation>>
vars == <<org, member, invitation, req>>

-----------------------------------------------------------------------------
(* Rows and requests.                                                      *)

NoOrg == [owner |-> NULL, isActive |-> FALSE, editedBy |-> NULL]

NoInvitation ==
  [org |-> NULL, email |-> NULL, role |-> "none", status |-> "none",
   expired |-> FALSE]

IdleReq ==
  [pc |-> "idle", op |-> "none", actor |-> NULL, org |-> NULL,
   target |-> NULL, role |-> "none", inv |-> NULL, mrole |-> "none"]

Steps ==
  {"idle", "membership", "readTarget", "writeRole", "deleteMember",
   "readOwner", "softDelete", "writeOrg", "checkInvitee", "findPending",
   "supersede", "createInvite", "markExpired", "admit"}

OrgRow ==
  [owner : Users \cup {NULL}, isActive : BOOLEAN, editedBy : Users \cup {NULL}]

InvitationRow ==
  [org : Orgs \cup {NULL}, email : Users \cup {NULL},
   role : GrantableRoles \cup {"none"},
   status : {"none", "PENDING", "ACCEPTED", "EXPIRED"}, expired : BOOLEAN]

Request ==
  [pc : Steps, op : GatedOps \cup {"accept", "none"},
   actor : Users \cup {NULL}, org : Orgs \cup {NULL},
   target : Users \cup {NULL}, role : GrantableRoles \cup {"none"},
   inv : Invites \cup {NULL}, mrole : Roles \cup {"none"}]

Exists(o) == org[o].owner # NULL

\* What seed.js leaves in a database it has emptied: an organization with its
\* owner, and an admin and a member whom nobody invited.
SeedRows(o, alice, bob, carol) ==
  /\ org = [p \in Orgs |->
       IF p = o THEN [owner |-> alice, isActive |-> TRUE, editedBy |-> NULL] ELSE NoOrg]
  /\ member = [p \in Orgs |-> [u \in Users |->
       IF p # o THEN "none"
       ELSE CASE u = alice -> "OWNER" [] u = bob -> "ADMIN" [] u = carol -> "MEMBER"
              [] OTHER -> "none"]]

\* The service starts on an empty database or on a seeded one.
Init ==
  /\ \/ /\ org = [o \in Orgs |-> NoOrg]
        /\ member = [o \in Orgs |-> [u \in Users |-> "none"]]
     \/ \E o \in Demo, alice, bob, carol \in Users :
          /\ alice # bob /\ alice # carol /\ bob # carol
          /\ SeedRows(o, alice, bob, carol)
  /\ invitation = [i \in Invites |-> NoInvitation]
  /\ req = [r \in Req |-> IdleReq]

\* The request has answered, with a result or an error.
Finish(r) == req' = [req EXCEPT ![r] = IdleReq]

Goto(r, pc) == req' = [req EXCEPT ![r].pc = pc]

-----------------------------------------------------------------------------
(* createOrganization: the organization and its owner's membership in one  *)
(* transaction.                                                            *)

CreateOrganization(u, o) ==
  /\ ~Exists(o)
  /\ org' = [org EXCEPT ![o] = [owner |-> u, isActive |-> TRUE, editedBy |-> NULL]]
  /\ member' = [member EXCEPT ![o][u] = "OWNER"]
  /\ UNCHANGED <<invitation, req>>

-----------------------------------------------------------------------------
(* requireOrgMembership and requireRole, in front of every gated route.    *)
(* A request whose first read already refuses it changes nothing and is    *)
(* left out.                                                               *)

Targets(op) == IF op \in TargetOps THEN Users ELSE {NULL}

RoleArgs(op) ==
  IF op \in {"updateRole", "invite"} THEN GrantableRoles ELSE {"none"}

\* Mutant: the gate accepts deleted organizations.
AvailableOnceFounded(o) == Exists(o)

Available(o) == org[o].isActive

\* The first read of the gate: the organization exists and is active.
OpenGated(r, op, u, o) ==
  /\ req[r] = IdleReq
  /\ op \in Ops \cap GatedOps
  /\ Available(o)
  /\ \E t \in Targets(op), role \in RoleArgs(op) :
       req' = [req EXCEPT ![r] =
                 [pc |-> "membership", op |-> op, actor |-> u, org |-> o,
                  target |-> t, role |-> role, inv |-> NULL, mrole |-> "none"]]
  /\ UNCHANGED tables

\* Where the service function of an operation makes its first call.
ServiceEntry(op) ==
  CASE op = "updateOrg" -> "writeOrg"
    [] op = "deleteOrg" -> "readOwner"
    [] op \in ManageOps   -> "readTarget"
    [] op = "invite"    -> "checkInvitee"

\* Mutant: requireRole is missing from the route.
AdmissibleAsMember(q, role) ==
  /\ role # "none"
  /\ q.op \in ManageOps => q.target # q.actor

\* Nobody manages himself: tested before the service's first call.
Admissible(q, role) ==
  /\ role \in AllowedRoles(q.op)
  /\ q.op \in ManageOps => q.target # q.actor

\* The second read: the caller's membership.  The functions that manage a
\* member are passed it, and use its role without reading it again.
LoadMembership(r) ==
  LET q == req[r]
      role == member[q.org][q.actor]
  IN /\ q.pc = "membership"
     /\ \/ /\ Admissible(q, role)
           /\ req' = [req EXCEPT ![r].pc = ServiceEntry(q.op),
                                 ![r].mrole = IF q.op \in ManageOps THEN role
                                              ELSE "none"]
        \/ /\ ~Admissible(q, role)
           /\ Finish(r)
     /\ UNCHANGED tables

-----------------------------------------------------------------------------
(* updateOrganization and deleteOrganization.                              *)

\* Mutant: the row is written back as the gate read it.
UpdateOrganizationWhole(r) ==
  /\ req[r].pc = "writeOrg"
  /\ org' = [org EXCEPT ![req[r].org].editedBy = req[r].actor,
                        ![req[r].org].isActive = TRUE]
  /\ Finish(r)
  /\ UNCHANGED <<member, invitation>>

UpdateOrganization(r) ==
  /\ req[r].pc = "writeOrg"
  /\ org' = [org EXCEPT ![req[r].org].editedBy = req[r].actor]
  /\ Finish(r)
  /\ UNCHANGED <<member, invitation>>

ReadOwner(r) ==
  /\ req[r].pc = "readOwner"
  /\ IF org[req[r].org].owner = req[r].actor THEN Goto(r, "softDelete") ELSE Finish(r)
  /\ UNCHANGED tables

SoftDelete(r) ==
  /\ req[r].pc = "softDelete"
  /\ org' = [org EXCEPT ![req[r].org].isActive = FALSE]
  /\ Finish(r)
  /\ UNCHANGED <<member, invitation>>

-----------------------------------------------------------------------------
(* updateMemberRole and removeMember: read the target's membership, decide *)
(* on it and on the caller's role as the gate read it, then write by key.  *)

\* Mutant: the owner is not excepted.
MayChangeRoleOfOwner(q, current) ==
  /\ current # "none"
  /\ ~(q.mrole = "ADMIN" /\ current = "ADMIN")

\* Mutant: other admins are not excepted.
MayChangeRoleOfAdmins(q, current) == current \notin {"none", "OWNER"}

MayChangeRole(q, current) ==
  /\ current \notin {"none", "OWNER"}
  /\ ~(q.mrole = "ADMIN" /\ current = "ADMIN")
  /\ ~(q.mrole = "ADMIN" /\ q.role = "OWNER")

\* Mutants: the owner, or other admins, are not excepted.
MayRemoveOwner(q, current) ==
  /\ current # "none"
  /\ ~(q.mrole = "ADMIN" /\ current = "ADMIN")
MayRemoveAdmins(q, current) == current \notin {"none", "OWNER"}

MayRemove(q, current) ==
  /\ current \notin {"none", "OWNER"}
  /\ ~(q.mrole = "ADMIN" /\ current = "ADMIN")

ReadTarget(r) ==
  LET q == req[r]
      current == member[q.org][q.target]
  IN /\ q.pc = "readTarget"
     /\ \/ /\ q.op = "updateRole" /\ MayChangeRole(q, current)
           /\ Goto(r, "writeRole")
        \/ /\ q.op = "removeMember" /\ MayRemove(q, current)
           /\ Goto(r, "deleteMember")
        \/ /\ \/ q.op = "updateRole" /\ ~MayChangeRole(q, current)
              \/ q.op = "removeMember" /\ ~MayRemove(q, current)
           /\ Finish(r)
     /\ UNCHANGED tables

\* A membership that is gone by now makes the update fail (P2025): no row.
UpdateMemberRole(r) ==
  LET q == req[r]
  IN /\ q.pc = "writeRole"
     /\ member' = IF member[q.org][q.target] = "none" THEN member
                  ELSE [member EXCEPT ![q.org][q.target] = q.role]
     /\ Finish(r)
     /\ UNCHANGED <<org, invitation>>

RemoveMember(r) ==
  /\ req[r].pc = "deleteMember"
  /\ member' = [member EXCEPT ![req[r].org][req[r].target] = "none"]
  /\ Finish(r)
  /\ UNCHANGED <<org, invitation>>

-----------------------------------------------------------------------------
(* inviteUser: refuse a member, supersede a pending invitation, issue one. *)

Pending(o, u) ==
  {i \in Invites : /\ invitation[i].status = "PENDING"
                   /\ invitation[i].org = o
                   /\ invitation[i].email = u}

CheckInvitee(r) ==
  /\ req[r].pc = "checkInvitee"
  /\ IF member[req[r].org][req[r].target] = "none"
     THEN Goto(r, "findPending") ELSE Finish(r)
  /\ UNCHANGED tables

\* Mutant: nothing is superseded.
FindPendingNever(r) ==
  /\ req[r].pc = "findPending"
  /\ Goto(r, "createInvite")
  /\ UNCHANGED tables

\* findFirst without an order: any one of the pending invitations.
FindPending(r) ==
  LET q == req[r]
  IN /\ q.pc = "findPending"
     /\ \/ \E i \in Pending(q.org, q.target) :
             req' = [req EXCEPT ![r] = [q EXCEPT !.pc = "supersede", !.inv = i]]
        \/ /\ Pending(q.org, q.target) = {}
           /\ Goto(r, "createInvite")
     /\ UNCHANGED tables

\* The update is by id: it does not ask whether the invitation still pends.
Supersede(r) ==
  /\ req[r].pc = "supersede"
  /\ invitation' = [invitation EXCEPT ![req[r].inv].status = "EXPIRED"]
  /\ req' = [req EXCEPT ![r].pc = "createInvite", ![r].inv = NULL]
  /\ UNCHANGED <<org, member>>

CreateInvitation(r) ==
  LET q == req[r]
  IN /\ q.pc = "createInvite"
     /\ \E i \in Invites :
          /\ invitation[i].status = "none"
          /\ invitation' = [invitation EXCEPT ![i] =
               [org |-> q.org, email |-> q.target, role |-> q.role,
                status |-> "PENDING", expired |-> FALSE]]
     /\ Finish(r)
     /\ UNCHANGED <<org, member>>

-----------------------------------------------------------------------------
(* acceptInvitation, reached with the token alone (no gate), and the       *)
(* expiry of invitations.                                                  *)

\* Mutants: any address may use the token; the invitation's status, or the
\* organization's activity, is not looked at.
AcceptableByAnybody(row, u) == row.status = "PENDING" /\ org[row.org].isActive
AcceptableAgain(row, u) ==
  row.status # "none" /\ org[row.org].isActive /\ (row.expired \/ row.email = u)
AcceptableWhenClosed(row, u) ==
  row.status = "PENDING" /\ (row.expired \/ row.email = u)

\* The invitation pends in an active organization; expiry is looked at
\* before the address is.
Acceptable(row, u) ==
  /\ row.status = "PENDING"
  /\ org[row.org].isActive
  /\ row.expired \/ row.email = u

OpenAccept(r, u, i) ==
  LET row == invitation[i]
  IN /\ req[r] = IdleReq
     /\ "accept" \in Ops
     /\ Acceptable(row, u)
     /\ req' = [req EXCEPT ![r] =
          [pc |-> IF row.expired THEN "markExpired" ELSE "admit",
           op |-> "accept", actor |-> u, org |-> row.org, target |-> NULL,
           role |-> row.role, inv |-> i, mrole |-> "none"]]
     /\ UNCHANGED tables

MarkExpired(r) ==
  /\ req[r].pc = "markExpired"
  /\ invitation' = [invitation EXCEPT ![req[r].inv].status = "EXPIRED"]
  /\ Finish(r)
  /\ UNCHANGED <<org, member>>

\* One transaction; an existing membership makes it fail as a whole (P2002).
Admit(r) ==
  LET q == req[r]
  IN /\ q.pc = "admit"
     /\ \/ /\ member[q.org][q.actor] = "none"
           /\ member' = [member EXCEPT ![q.org][q.actor] = q.role]
           /\ invitation' = [invitation EXCEPT ![q.inv].status = "ACCEPTED"]
        \/ /\ member[q.org][q.actor] # "none"
           /\ UNCHANGED <<member, invitation>>
     /\ Finish(r)
     /\ UNCHANGED org

\* expiresAt passes (it is only ever read while the invitation pends).
InvitationLapses(i) ==
  /\ invitation[i].status = "PENDING"
  /\ ~invitation[i].expired
  /\ invitation' = [invitation EXCEPT ![i].expired = TRUE]
  /\ UNCHANGED <<org, member, req>>

\* Mutant: the comparison with expiresAt is the wrong way round.
NotYetLapsed == {i \in Invites : invitation[i].status = "PENDING" /\ ~invitation[i].expired}

Lapsed == {i \in Invites : invitation[i].status = "PENDING" /\ invitation[i].expired}

\* The hourly job, one updateMany.
CleanupExpiredInvitations ==
  /\ Lapsed # {}
  /\ invitation' = [i \in Invites |->
       IF i \in Lapsed THEN [invitation[i] EXCEPT !.status = "EXPIRED"]
       ELSE invitation[i]]
  /\ UNCHANGED <<org, member, req>>

-----------------------------------------------------------------------------

\* A database call fails, or the process dies, between two steps: the
\* request is over and what it wrote so far stays.
Abort(r) ==
  /\ req[r].pc # "idle"
  /\ Finish(r)
  /\ UNCHANGED tables

RequestStep(r) ==
  \/ \E op \in GatedOps, u \in Users, o \in Orgs : OpenGated(r, op, u, o)
  \/ LoadMembership(r)
  \/ UpdateOrganization(r)
  \/ ReadOwner(r)
  \/ SoftDelete(r)
  \/ ReadTarget(r)
  \/ UpdateMemberRole(r)
  \/ RemoveMember(r)
  \/ CheckInvitee(r)
  \/ FindPending(r)
  \/ Supersede(r)
  \/ CreateInvitation(r)
  \/ \E u \in Users, i \in Invites : OpenAccept(r, u, i)
  \/ MarkExpired(r)
  \/ Admit(r)
  \/ Abort(r)

Next ==
  \/ \E u \in Users, o \in Orgs : CreateOrganization(u, o)
  \/ \E r \in Req : RequestStep(r)
  \/ \E i \in Invites : InvitationLapses(i)
  \/ CleanupExpiredInvitations

Spec == Init /\ [][Next]_vars
=============================================================================
