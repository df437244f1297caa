------------------------ MODULE OrganizationHistory ------------------------
(***************************************************************************)
(* Organization with a record of what was true while each request was in   *)
(* flight.  A request decides on rows it read earlier, so "the caller is   *)
(* an admin" cannot be demanded of the moment it writes; what the service  *)
(* can promise is that the permission held at some moment between the      *)
(* request's first read and its effect.  `seen` and `seeded` are history   *)
(* variables: no guard looks at them.                                      *)
(***************************************************************************)
EXTENDS OrganizationSafety

VARIABLES
  seen,    \* what was true of each request at some moment of it
  seeded   \* who was below the owner from the start, and has stayed

hvars == <<org, member, invitation, req, seen, seeded>>

NothingSeen ==
  [permitted |-> FALSE, owner |-> FALSE, plain |-> FALSE, active |-> FALSE,
   invited |-> FALSE]

\* What the rows say of request q at one moment: the caller's role carries
\* the permission, the caller owns the organization, the target is a plain
\* member, the organization is active, the caller's own invitation is live.
RoleIn(o, u) == IF o \in Orgs /\ u \in Users THEN member[o][u] ELSE "none"

Open(o) == o \in Orgs /\ org[o].isActive

Facts(q) ==
  [permitted |-> q.op \in GatedOps /\ RoleIn(q.org, q.actor) \in RolesCapableOf(q.op),
   owner     |-> RoleIn(q.org, q.actor) = "OWNER",
   plain     |-> RoleIn(q.org, q.target) = "MEMBER",
   active    |-> Open(q.org),
   invited   |-> \E i \in Invites : /\ i = q.inv
                                    /\ invitation[i].status = "PENDING"
                                    /\ ~invitation[i].expired
                                    /\ invitation[i].email = q.actor
                                    /\ Open(invitation[i].org)]

\* Whatever was true of request r before, or is now.
Watch(r) == [f \in DOMAIN NothingSeen |-> seen[r][f] \/ Facts(req[r])'[f]]

HInit ==
  /\ Init
  /\ seen = [r \in Req |-> NothingSeen]
  /\ seeded = {p \in Orgs \X Users : member[p[1]][p[2]] \in GrantableRoles}

HNext ==
  /\ Next
  /\ seen' = [r \in Req |-> IF req'[r] = IdleReq THEN NothingSeen ELSE Watch(r)]
  /\ seeded' = {p \in seeded : member'[p[1]][p[2]] # "none"}

HSpec == HInit /\ [][HNext]_hvars

-----------------------------------------------------------------------------
(* What has been true of a request by the time it is where it is.          *)

\* Past the first read the organization was active, past the gate the caller
\* had the permission, and a role the gate handed on was the caller's.  Who
\* is about to be regraded or removed was a plain member unless the caller
\* owned the organization; who is about to be admitted had a live invitation.
DecidedOn(r) ==
  LET q == req[r]
  IN /\ q.pc # "idle" => seen[r].active
     /\ q.op \in GatedOps /\ q.pc # "membership" => seen[r].permitted
     /\ q.op \in ManageOps /\ q.pc # "membership" =>
          /\ q.mrole \in {"OWNER", "ADMIN"}
          /\ q.mrole = "OWNER" => seen[r].owner
     /\ q.pc \in {"writeRole", "deleteMember"} => seen[r].owner \/ seen[r].plain
     /\ q.pc = "admit" => seen[r].invited

\* Whoever is in an organization without owning it came through an
\* invitation to that organization and address, which no longer pends unless
\* a second one was issued, or is one of those the seed script put there and
\* has not been removed since: no request creates memberships otherwise.
MembersWereInvited ==
  \A o \in Orgs, u \in Users :
    member[o][u] \in GrantableRoles =>
      \/ <<o, u>> \in seeded
      \/ \E i \in Invites : /\ invitation[i].org = o
                            /\ invitation[i].email = u
                            /\ invitation[i].status \in {"ACCEPTED", "EXPIRED"}

\* Why effects are permitted although the rows have moved on: an inductive
\* invariant.
HInv ==
  /\ IInv
  /\ OnRoutes
  /\ MembersWereInvited
  /\ seen \in [Req -> [permitted : BOOLEAN, owner : BOOLEAN, plain : BOOLEAN,
                       active : BOOLEAN, invited : BOOLEAN]]
  /\ \A r \in Req : DecidedOn(r)

-----------------------------------------------------------------------------

\* Request r changes a row in this step.
Effect(r) == req'[r] # req[r] /\ tables' # tables

\* Every change made behind the gate was made for a caller whose role, at
\* some moment of the request, carried the published permission for it (GET
\* /roles/permissions), however roles moved meanwhile.
EffectsArePermitted ==
  [][\A r \in Req :
       Effect(r) /\ req[r].op \in GatedOps =>
         seen[r].permitted]_hvars

\* A caller who was never the owner during the request only regrades or
\* removes somebody who was a plain MEMBER at some moment of it ("Admins can
\* only manage MEMBERs").
AdminsManageMembers ==
  [][\A r \in Req :
       /\ Effect(r)
       /\ req[r].op \in ManageOps
       /\ ~seen[r].owner
       => seen[r].plain]_hvars

\* Of all requests only those that were under way when an organization was
\* deleted still change it (requireOrgMembership, acceptInvitation).  The
\* cleanup job, which is none, goes on to mark its invitations.
NoEffectAfterDeletion ==
  [][\A r \in Req : Effect(r) => seen[r].active]_hvars

\* A user joins only if the user's own invitation was live, in an active
\* organization, at one moment of the request (acceptInvitation).
JoinersWereInvited ==
  [][\A r \in Req :
       member' # member /\ req'[r] # req[r] /\ req[r].op = "accept" =>
         seen[r].invited]_hvars
=============================================================================
