------------------------- MODULE OrganizationProofs -------------------------
(***************************************************************************)
(* Proofs about Organization for every set of organizations, users,        *)
(* invitations and request slots: the inductive invariant, the safety      *)
(* properties that follow from it, and the implementation of Ownership.    *)
(***************************************************************************)
EXTENDS OrganizationSafety, TLAPS

-----------------------------------------------------------------------------
(* Steps that only read: the rows stay and one request becomes q.          *)

LEMMA IdleRequest == IdleReq \in Request /\ RequestOK(IdleReq)
  BY DEF IdleReq, Request, Steps, RequestOK, TargetSteps, RoleSteps, InviteSteps

\* At the start there is nothing, or the seeded organization with its owner.
LEMMA InitEstablishes == Init => IInv
<1> SUFFICES ASSUME Init PROVE IInv
  OBVIOUS
<1>1. NoOrg \in OrgRow /\ NoOrg.owner = NULL /\ ~NoOrg.isActive
  BY DEF NoOrg, OrgRow
<1>2. /\ org \in [Orgs -> OrgRow]
      /\ member \in [Orgs -> [Users -> Roles \cup {"none"}]]
      /\ SingleOwner
      /\ \A o \in Orgs : org[o].isActive => Exists(o)
  <2>1. CASE /\ org = [o \in Orgs |-> NoOrg]
             /\ member = [o \in Orgs |-> [u \in Users |-> "none"]]
    BY <1>1, <2>1 DEF SingleOwner, Exists
  <2>2. ASSUME NEW o \in Demo, NEW u \in Users, NEW v \in Users, NEW w \in Users,
               u # v, u # w, SeedRows(o, u, v, w)
        PROVE  <1>2
    <3> DEFINE row == [owner |-> u, isActive |-> TRUE, editedBy |-> NULL]
               role == [x \in Users |-> CASE x = u -> "OWNER" [] x = v -> "ADMIN"
                                           [] x = w -> "MEMBER" [] OTHER -> "none"]
    <3>1. row \in OrgRow /\ row.owner = u /\ u # NULL
      BY NullAssumption DEF OrgRow
    <3>2. role \in [Users -> Roles \cup {"none"}]
      BY DEF Roles
    <3>3. \A x \in Users : role[x] = "OWNER" <=> x = u
      BY <2>2
    <3>4. o \in Orgs
      BY DemoAssumption
    <3>5. org = [p \in Orgs |-> IF p = o THEN row ELSE NoOrg]
      BY <2>2 DEF SeedRows
    <3>6. \A p \in Orgs : member[p] = IF p = o THEN role ELSE [x \in Users |-> "none"]
      BY <2>2 DEF SeedRows
    <3>7. member = [p \in Orgs |-> member[p]]
      BY <2>2 DEF SeedRows
    <3> HIDE DEF row, role
    <3>8. member \in [Orgs -> [Users -> Roles \cup {"none"}]]
      BY <3>2, <3>6, <3>7
    <3>9. SingleOwner
      BY <1>1, <3>1, <3>3, <3>5, <3>6 DEF SingleOwner, Exists
    <3>10. QED
      BY <1>1, <3>1, <3>5, <3>8, <3>9 DEF Exists
  <2>3. QED
    BY <2>1, <2>2 DEF Init
<1>3. invitation \in [Invites -> InvitationRow]
  BY DEF Init, NoInvitation, InvitationRow
<1>4. req \in [Req -> Request] /\ RequestsOK
  BY IdleRequest DEF Init, RequestsOK
<1>5. RowsAreLinked
  BY <1>2 DEF Init, RowsAreLinked, NoInvitation
<1>6. QED
  BY <1>2, <1>3, <1>4, <1>5 DEF IInv, TypeOK

\* A step that leaves the rows alone and gives one slot a well-formed request
\* keeps the invariant.
LEMMA ReadStep ==
  ASSUME IInv, NEW r \in Req, NEW q \in Request, RequestOK(q),
         req' = [req EXCEPT ![r] = q], UNCHANGED tables
  PROVE  IInv'
<1>1. TypeOK'
  BY DEF IInv, TypeOK, tables
<1>2. SingleOwner' /\ RowsAreLinked'
  BY DEF IInv, SingleOwner, RowsAreLinked, Exists, tables
<1>3. ASSUME NEW s \in Req PROVE RequestOK(req[s])'
  <2>1. req'[s] = IF s = r THEN q ELSE req[s]
    BY DEF IInv, TypeOK
  <2>2. RequestOK(req'[s])
    BY <2>1 DEF IInv, RequestsOK
  <2>3. QED
    BY <2>2 DEF RequestOK, Exists, tables
<1>4. QED
  BY <1>1, <1>2, <1>3 DEF IInv, RequestsOK

\* A request that ends without an effect keeps it too.
LEMMA FinishStep ==
  ASSUME IInv, NEW r \in Req, Finish(r), UNCHANGED tables
  PROVE  IInv'
  BY IdleRequest, ReadStep DEF Finish

\* So does one that moves on to a step for which it has what it needs.
LEMMA GotoStep ==
  ASSUME IInv, NEW r \in Req, NEW pc \in Steps, Goto(r, pc),
         RequestOK([req[r] EXCEPT !.pc = pc]), UNCHANGED tables
  PROVE  IInv'
<1>1. [req[r] EXCEPT !.pc = pc] \in Request
  BY DEF IInv, TypeOK, Request
<1>2. req' = [req EXCEPT ![r] = [req[r] EXCEPT !.pc = pc]]
  BY DEF Goto
<1>3. QED
  BY <1>1, <1>2, ReadStep

-----------------------------------------------------------------------------
(* The actions that only read.                                             *)

LEMMA OpenGatedStep ==
  ASSUME IInv, NEW r \in Req, NEW op \in GatedOps, NEW u \in Users,
         NEW o \in Orgs, OpenGated(r, op, u, o)
  PROVE  IInv'
<1>1. PICK t \in Targets(op), role \in RoleArgs(op) :
        req' = [req EXCEPT ![r] =
                  [pc |-> "membership", op |-> op, actor |-> u, org |-> o,
                   target |-> t, role |-> role, inv |-> NULL, mrole |-> "none"]]
  BY DEF OpenGated
<1> DEFINE q == [pc |-> "membership", op |-> op, actor |-> u, org |-> o,
                 target |-> t, role |-> role, inv |-> NULL, mrole |-> "none"]
<1>2. q \in Request
  BY <1>1 DEF Request, Steps, Targets, RoleArgs, GrantableRoles, Roles
<1>3. Exists(o)
  BY DEF OpenGated, Available, IInv, RowsAreLinked
<1>4. RequestOK(q)
  BY <1>1, <1>3
     DEF RequestOK, Targets, RoleArgs, TargetSteps, RoleSteps, InviteSteps
<1>5. UNCHANGED tables
  BY DEF OpenGated
<1>6. QED
  BY <1>1, <1>2, <1>4, <1>5, ReadStep

LEMMA OpenAcceptStep ==
  ASSUME IInv, NEW r \in Req, NEW u \in Users, NEW i \in Invites,
         OpenAccept(r, u, i)
  PROVE  IInv'
<1> DEFINE row == invitation[i]
           q == [pc |-> IF row.expired THEN "markExpired" ELSE "admit",
                 op |-> "accept", actor |-> u, org |-> row.org,
                 target |-> NULL, role |-> row.role, inv |-> i,
                 mrole |-> "none"]
<1>1. row.status = "PENDING" /\ (row.expired \/ row.email = u)
  BY DEF OpenAccept, Acceptable
<1>2. row.org \in Orgs /\ Exists(row.org) /\ row.role \in GrantableRoles
  BY <1>1 DEF IInv, RowsAreLinked
<1>3. q \in Request
  BY <1>2 DEF Request, Steps
<1>4. RequestOK(q)
  BY <1>1, <1>2 DEF RequestOK, TargetSteps, RoleSteps, InviteSteps
<1>5. req' = [req EXCEPT ![r] = q] /\ UNCHANGED tables
  BY DEF OpenAccept
<1>6. QED
  BY <1>3, <1>4, <1>5, ReadStep

LEMMA LoadMembershipStep ==
  ASSUME IInv, NEW r \in Req, LoadMembership(r)
  PROVE  IInv'
<1> DEFINE q == req[r]
           role == member[q.org][q.actor]
           mrole == IF q.op \in ManageOps THEN role ELSE "none"
           p == [q EXCEPT !.pc = ServiceEntry(q.op), !.mrole = mrole]
<1>1. q \in Request /\ RequestOK(q) /\ q.pc = "membership"
  BY DEF IInv, TypeOK, RequestsOK, LoadMembership
<1>2. q.op \in GatedOps /\ q.org \in Orgs /\ q.actor \in Users /\ Exists(q.org)
  BY <1>1 DEF RequestOK
<1>3. CASE Admissible(q, role)
  <2>1. req' = [req EXCEPT ![r] = p] /\ UNCHANGED tables
    BY <1>3 DEF LoadMembership, IInv, TypeOK
  <2>2. role \in Roles
    BY <1>3 DEF Admissible, AllowedRoles, Roles
  <2>3. ServiceEntry(q.op) = "writeOrg" \/ ServiceEntry(q.op) = "readOwner"
        \/ (ServiceEntry(q.op) = "readTarget" /\ q.op \in ManageOps)
        \/ (ServiceEntry(q.op) = "checkInvitee" /\ q.op = "invite")
    BY <1>2 DEF ServiceEntry, GatedOps, ManageOps
  <2>4. p \in Request
    <3>1. ServiceEntry(q.op) \in Steps
      BY <2>3 DEF Steps
    <3>2. mrole \in Roles \cup {"none"}
      BY <2>2
    <3> HIDE DEF mrole
    <3>3. QED
      BY <1>1, <3>1, <3>2 DEF Request
  <2>5. /\ p.pc = ServiceEntry(q.op) /\ p.op = q.op /\ p.target = q.target
        /\ p.role = q.role /\ p.org = q.org /\ p.actor = q.actor
    BY <1>1 DEF Request
  <2>6. RequestOK(p)
    BY <1>1, <1>2, <2>3, <2>5
       DEF RequestOK, TargetSteps, RoleSteps, InviteSteps, TargetOps, ManageOps
  <2>7. QED
    BY <2>1, <2>4, <2>6, ReadStep
<1>4. CASE ~Admissible(q, role)
  BY <1>4, FinishStep DEF LoadMembership
<1>5. QED
  BY <1>3, <1>4

LEMMA ReadOwnerStep ==
  ASSUME IInv, NEW r \in Req, ReadOwner(r)
  PROVE  IInv'
<1>1. CASE Goto(r, "softDelete")
  <2>1. RequestOK([req[r] EXCEPT !.pc = "softDelete"])
    BY DEF ReadOwner, IInv, TypeOK, Request, RequestsOK, RequestOK,
           TargetSteps, RoleSteps, InviteSteps
  <2>2. QED
    BY <1>1, <2>1, GotoStep DEF ReadOwner, Steps
<1>2. CASE Finish(r)
  BY <1>2, FinishStep DEF ReadOwner
<1>3. QED
  BY <1>1, <1>2 DEF ReadOwner

\* The target is not the owner: the owner's role is OWNER (SingleOwner).
LEMMA ReadTargetStep ==
  ASSUME IInv, NEW r \in Req, ReadTarget(r)
  PROVE  IInv'
<1> DEFINE q == req[r]
           current == member[q.org][q.target]
<1>1. q \in Request /\ RequestOK(q) /\ q.pc = "readTarget" /\ UNCHANGED tables
  BY DEF IInv, TypeOK, RequestsOK, ReadTarget
<1>2. q.org \in Orgs /\ q.target \in Users /\ Exists(q.org)
  BY <1>1 DEF RequestOK, TargetSteps
<1>3. ASSUME current # "OWNER" PROVE q.target # org[q.org].owner
  BY <1>2, <1>3 DEF IInv, SingleOwner
<1>4. CASE q.op = "updateRole" /\ MayChangeRole(q, current) /\ Goto(r, "writeRole")
  <2>1. q.target # org[q.org].owner
    BY <1>3, <1>4 DEF MayChangeRole
  <2>2. RequestOK([q EXCEPT !.pc = "writeRole"])
    BY <1>1, <1>2, <1>4, <2>1
       DEF Request, RequestOK, TargetSteps, RoleSteps, InviteSteps
  <2>3. QED
    BY <1>1, <1>4, <2>2, GotoStep DEF Steps
<1>5. CASE q.op = "removeMember" /\ MayRemove(q, current) /\ Goto(r, "deleteMember")
  <2>1. q.target # org[q.org].owner
    BY <1>3, <1>5 DEF MayRemove
  <2>2. RequestOK([q EXCEPT !.pc = "deleteMember"])
    BY <1>1, <1>2, <1>5, <2>1
       DEF Request, RequestOK, TargetSteps, RoleSteps, InviteSteps
  <2>3. QED
    BY <1>1, <1>5, <2>2, GotoStep DEF Steps
<1>6. CASE Finish(r)
  BY <1>1, <1>6, FinishStep
<1>7. QED
  BY <1>4, <1>5, <1>6 DEF ReadTarget

LEMMA CheckInviteeStep ==
  ASSUME IInv, NEW r \in Req, CheckInvitee(r)
  PROVE  IInv'
<1>1. CASE Goto(r, "findPending")
  <2>1. RequestOK([req[r] EXCEPT !.pc = "findPending"])
    BY DEF CheckInvitee, IInv, TypeOK, Request, RequestsOK, RequestOK,
           TargetSteps, RoleSteps, InviteSteps
  <2>2. QED
    BY <1>1, <2>1, GotoStep DEF CheckInvitee, Steps
<1>2. CASE Finish(r)
  BY <1>2, FinishStep DEF CheckInvitee
<1>3. QED
  BY <1>1, <1>2 DEF CheckInvitee

LEMMA FindPendingStep ==
  ASSUME IInv, NEW r \in Req, FindPending(r)
  PROVE  IInv'
<1> DEFINE q == req[r]
<1>1. q \in Request /\ RequestOK(q) /\ q.pc = "findPending" /\ UNCHANGED tables
  BY DEF IInv, TypeOK, RequestsOK, FindPending
<1>2. CASE Pending(q.org, q.target) = {}
  <2>1. Goto(r, "createInvite")
    BY <1>2 DEF FindPending
  <2>2. RequestOK([q EXCEPT !.pc = "createInvite"])
    BY <1>1 DEF Request, RequestOK, TargetSteps, RoleSteps, InviteSteps
  <2>3. QED
    BY <1>1, <2>1, <2>2, GotoStep DEF Steps
<1>3. ASSUME NEW i \in Pending(q.org, q.target),
             req' = [req EXCEPT ![r] = [q EXCEPT !.pc = "supersede", !.inv = i]]
      PROVE  IInv'
  <2> DEFINE p == [q EXCEPT !.pc = "supersede", !.inv = i]
  <2>1. i \in Invites /\ invitation[i].status # "none"
    BY <1>3 DEF Pending
  <2>2. p \in Request
    BY <1>1, <2>1 DEF Request, Steps
  <2>3. RequestOK(p)
    BY <1>1, <2>1 DEF Request, RequestOK, TargetSteps, RoleSteps, InviteSteps
  <2>4. QED
    BY <1>1, <1>3, <2>2, <2>3, ReadStep
<1>4. QED
  BY <1>2, <1>3 DEF FindPending

LEMMA AbortStep ==
  ASSUME IInv, NEW r \in Req, Abort(r)
  PROVE  IInv'
  BY FinishStep DEF Abort

-----------------------------------------------------------------------------
(* Steps that write.  What requests in flight rely on survives every write *)
(* of the others: an owner stays the owner, an invitation stays addressed  *)
(* as it was.                                                              *)

OwnersKept == \A o \in Orgs : Exists(o) => org'[o].owner = org[o].owner

InvitationsKept ==
  \A i \in Invites :
    invitation[i].status # "none" => /\ invitation'[i].status # "none"
                                     /\ invitation'[i].org = invitation[i].org
                                     /\ invitation'[i].email = invitation[i].email

\* The slot whose request writes holds `q` afterwards; a write outside any
\* request (no slot) leaves all of them.
LEMMA RequestsKept ==
  ASSUME IInv, OwnersKept, InvitationsKept,
         \A s \in Req : req'[s] = req[s] \/ req'[s] = IdleReq
  PROVE  RequestsOK'
<1> SUFFICES ASSUME NEW s \in Req PROVE RequestOK(req[s])'
  BY DEF RequestsOK
<1>1. CASE req'[s] = IdleReq
  BY <1>1 DEF RequestOK, IdleReq, TargetSteps, RoleSteps, InviteSteps
<1>2. CASE req'[s] = req[s]
  <2>1. RequestOK(req[s])
    BY DEF IInv, RequestsOK
  <2>2. QED
    BY <1>2, <2>1
       DEF RequestOK, OwnersKept, InvitationsKept, Exists, InviteSteps
<1>3. QED
  BY <1>1, <1>2

LEMMA FinishedSlot ==
  ASSUME TypeOK, NEW r \in Req, Finish(r)
  PROVE  /\ \A s \in Req : req'[s] = req[s] \/ req'[s] = IdleReq
         /\ req' \in [Req -> Request]
  BY IdleRequest DEF TypeOK, Finish

\* A write to organizations that keeps owners and founds nothing.
LEMMA OrgWrite ==
  ASSUME IInv, NEW r \in Req, Finish(r), org' \in [Orgs -> OrgRow],
         \A o \in Orgs : /\ org'[o].owner = org[o].owner
                         /\ org'[o].isActive => org[o].isActive,
         UNCHANGED <<member, invitation>>
  PROVE  IInv'
<1>1. TypeOK'
  BY FinishedSlot DEF IInv, TypeOK
<1>2. SingleOwner'
  BY DEF IInv, SingleOwner, Exists
<1>3. RowsAreLinked'
  BY DEF IInv, RowsAreLinked, Exists
<1>4. RequestsOK'
  BY FinishedSlot, RequestsKept DEF IInv, OwnersKept, InvitationsKept
<1>5. QED
  BY <1>1, <1>2, <1>3, <1>4 DEF IInv

LEMMA UpdateOrganizationStep ==
  ASSUME IInv, NEW r \in Req, UpdateOrganization(r)
  PROVE  IInv'
<1>1. req[r].actor \in Users /\ req[r].org \in Orgs
  BY DEF UpdateOrganization, IInv, RequestsOK, RequestOK
<1>2. /\ org' \in [Orgs -> OrgRow]
      /\ \A o \in Orgs : /\ org'[o].owner = org[o].owner
                         /\ org'[o].isActive => org[o].isActive
  BY <1>1 DEF UpdateOrganization, IInv, TypeOK, OrgRow
<1>3. QED
  BY <1>2, OrgWrite DEF UpdateOrganization

LEMMA SoftDeleteStep ==
  ASSUME IInv, NEW r \in Req, SoftDelete(r)
  PROVE  IInv'
<1>1. /\ org' \in [Orgs -> OrgRow]
      /\ \A o \in Orgs : /\ org'[o].owner = org[o].owner
                         /\ org'[o].isActive => org[o].isActive
  BY DEF SoftDelete, IInv, TypeOK, OrgRow
<1>2. QED
  BY <1>1, OrgWrite DEF SoftDelete

\* A write to the membership of somebody who is not the owner.
LEMMA MemberWrite ==
  ASSUME IInv, NEW r \in Req, Finish(r), UNCHANGED <<org, invitation>>,
         NEW o \in Orgs, NEW u \in Users, NEW role \in GrantableRoles \cup {"none"},
         u # org[o].owner, member[o][u] # "none",
         member' = [member EXCEPT ![o][u] = role]
  PROVE  IInv'
<1>1. member' \in [Orgs -> [Users -> Roles \cup {"none"}]]
  BY DEF IInv, TypeOK, GrantableRoles, Roles
<1>2. TypeOK'
  BY <1>1, FinishedSlot DEF IInv, TypeOK
<1>3. \A p \in Orgs, v \in Users :
        member'[p][v] = IF p = o /\ v = u THEN role ELSE member[p][v]
  BY DEF IInv, TypeOK
<1>4. SingleOwner'
  BY <1>3 DEF IInv, SingleOwner, Exists, GrantableRoles
<1>7. RowsAreLinked'
  BY DEF IInv, RowsAreLinked, Exists
<1>8. RequestsOK'
  BY FinishedSlot, RequestsKept DEF IInv, OwnersKept, InvitationsKept
<1>9. QED
  BY <1>2, <1>4, <1>7, <1>8 DEF IInv

LEMMA UpdateMemberRoleStep ==
  ASSUME IInv, NEW r \in Req, UpdateMemberRole(r)
  PROVE  IInv'
<1> DEFINE q == req[r]
<1>1. /\ q.org \in Orgs /\ q.target \in Users /\ q.role \in GrantableRoles
      /\ q.target # org[q.org].owner
  BY DEF UpdateMemberRole, IInv, RequestsOK, RequestOK, TargetSteps, RoleSteps
<1>2. CASE member[q.org][q.target] = "none"
  BY <1>2, FinishStep DEF UpdateMemberRole, tables
<1>3. CASE member[q.org][q.target] # "none"
  BY <1>1, <1>3, MemberWrite DEF UpdateMemberRole
<1>4. QED
  BY <1>2, <1>3

LEMMA RemoveMemberStep ==
  ASSUME IInv, NEW r \in Req, RemoveMember(r)
  PROVE  IInv'
<1> DEFINE q == req[r]
<1>1. /\ q.org \in Orgs /\ q.target \in Users /\ q.target # org[q.org].owner
  BY DEF RemoveMember, IInv, RequestsOK, RequestOK, TargetSteps
<1>2. CASE member[q.org][q.target] = "none"
  <2>1. member' = member
    BY <1>1, <1>2 DEF RemoveMember, IInv, TypeOK
  <2>2. QED
    BY <2>1, FinishStep DEF RemoveMember, tables
<1>3. CASE member[q.org][q.target] # "none"
  BY <1>1, <1>3, MemberWrite DEF RemoveMember
<1>4. QED
  BY <1>2, <1>3

\* A write to invitations that invents none and revives none.
LEMMA InvitationWrite ==
  ASSUME IInv, req' \in [Req -> Request],
         \A s \in Req : req'[s] = req[s] \/ req'[s] = IdleReq,
         UNCHANGED <<org, member>>,
         invitation' \in [Invites -> InvitationRow],
         \A i \in Invites :
           /\ invitation'[i].org = invitation[i].org
           /\ invitation'[i].email = invitation[i].email
           /\ invitation'[i].role = invitation[i].role
           /\ \/ invitation'[i].status = invitation[i].status
              \/ invitation[i].status # "none" /\ invitation'[i].status = "EXPIRED"
  PROVE  IInv'
<1>1. TypeOK'
  BY DEF IInv, TypeOK
<1>2. SingleOwner'
  BY DEF IInv, SingleOwner, Exists
<1>4. RowsAreLinked'
  BY DEF IInv, RowsAreLinked, Exists
<1>5. RequestsOK'
  BY RequestsKept DEF IInv, OwnersKept, InvitationsKept
<1>6. QED
  BY <1>1, <1>2, <1>4, <1>5 DEF IInv

LEMMA MarkExpiredStep ==
  ASSUME IInv, NEW r \in Req, MarkExpired(r)
  PROVE  IInv'
<1>1. req[r].inv \in Invites /\ invitation[req[r].inv].status # "none"
  BY DEF MarkExpired, IInv, RequestsOK, RequestOK, InviteSteps
<1>2. QED
  BY <1>1, FinishedSlot, InvitationWrite
     DEF MarkExpired, IInv, TypeOK, InvitationRow

LEMMA InvitationLapsesStep ==
  ASSUME IInv, NEW i \in Invites, InvitationLapses(i)
  PROVE  IInv'
  BY InvitationWrite DEF InvitationLapses, IInv, TypeOK, InvitationRow

LEMMA CleanupStep ==
  ASSUME IInv, CleanupExpiredInvitations
  PROVE  IInv'
  BY InvitationWrite
     DEF CleanupExpiredInvitations, Lapsed, IInv, TypeOK, InvitationRow

\* The superseding write and the request's move to its next step.
LEMMA SupersedeStep ==
  ASSUME IInv, NEW r \in Req, Supersede(r)
  PROVE  IInv'
<1> DEFINE q == req[r]
           p == [q EXCEPT !.pc = "createInvite", !.inv = NULL]
           i == q.inv
<1>1. q \in Request /\ RequestOK(q) /\ q.pc = "supersede"
  BY DEF Supersede, IInv, TypeOK, RequestsOK
<1>2. i \in Invites /\ invitation[i].status # "none"
  BY <1>1 DEF RequestOK, InviteSteps
<1>3. req' = [req EXCEPT ![r] = p]
  BY DEF Supersede
<1>4. p \in Request
  BY <1>1 DEF Request, Steps
<1>5. /\ invitation' \in [Invites -> InvitationRow]
      /\ \A j \in Invites :
           /\ invitation'[j].org = invitation[j].org
           /\ invitation'[j].email = invitation[j].email
           /\ invitation'[j].role = invitation[j].role
           /\ \/ invitation'[j].status = invitation[j].status
              \/ invitation[j].status # "none" /\ invitation'[j].status = "EXPIRED"
  BY <1>2 DEF Supersede, IInv, TypeOK, InvitationRow
<1>6. TypeOK'
  BY <1>3, <1>4, <1>5 DEF Supersede, IInv, TypeOK
<1>7. SingleOwner' /\ RowsAreLinked'
  BY <1>5 DEF Supersede, IInv, SingleOwner, RowsAreLinked, Exists
<1>8. ASSUME NEW s \in Req PROVE RequestOK(req[s])'
  <2>1. CASE s = r
    <3>1. req'[s] = p
      BY <1>3, <2>1 DEF IInv, TypeOK
    <3>2. RequestOK(p)
      BY <1>1 DEF Request, RequestOK, TargetSteps, RoleSteps, InviteSteps
    <3>3. p.pc = "createInvite"
      BY <1>1 DEF Request
    <3>4. QED
      BY <3>1, <3>2, <3>3 DEF RequestOK, InviteSteps, Exists, Supersede
  <2>2. CASE s # r
    <3>1. req'[s] = req[s] /\ RequestOK(req[s])
      BY <1>3, <2>2 DEF IInv, TypeOK, RequestsOK
    <3>2. QED
      BY <1>5, <3>1 DEF RequestOK, InviteSteps, Exists, Supersede
  <2>3. QED
    BY <2>1, <2>2
<1>9. QED
  BY <1>6, <1>7, <1>8 DEF IInv, RequestsOK

\* Only an unused id gets a new invitation, so nobody's invitation is lost.
LEMMA CreateInvitationStep ==
  ASSUME IInv, NEW r \in Req, CreateInvitation(r)
  PROVE  IInv'
<1> DEFINE q == req[r]
           row == [org |-> q.org, email |-> q.target, role |-> q.role,
                   status |-> "PENDING", expired |-> FALSE]
<1>1. PICK i \in Invites : /\ invitation[i].status = "none"
                           /\ invitation' = [invitation EXCEPT ![i] = row]
  BY DEF CreateInvitation
<1>2. /\ q.org \in Orgs /\ Exists(q.org) /\ q.target \in Users
      /\ q.role \in GrantableRoles
  BY DEF CreateInvitation, IInv, RequestsOK, RequestOK, TargetSteps, RoleSteps
<1>3. row \in InvitationRow
  BY <1>2 DEF InvitationRow
<1>4. TypeOK'
  BY <1>1, <1>3, FinishedSlot DEF CreateInvitation, IInv, TypeOK
<1>5. \A j \in Invites : invitation'[j] = IF j = i THEN row ELSE invitation[j]
  BY <1>1 DEF IInv, TypeOK
<1>6. SingleOwner'
  BY DEF CreateInvitation, IInv, SingleOwner, Exists
<1>8. RowsAreLinked'
  BY <1>2, <1>5 DEF CreateInvitation, IInv, RowsAreLinked, Exists
<1>9. RequestsOK'
  BY <1>1, <1>5, FinishedSlot, RequestsKept
     DEF CreateInvitation, IInv, OwnersKept, InvitationsKept
<1>10. QED
  BY <1>4, <1>6, <1>8, <1>9 DEF IInv

\* A new membership goes to the address of the invitation it uses up.
LEMMA AdmitStep ==
  ASSUME IInv, NEW r \in Req, Admit(r)
  PROVE  IInv'
<1> DEFINE q == req[r]
           o == q.org
           u == q.actor
           i == q.inv
<1>1. /\ o \in Orgs /\ Exists(o) /\ u \in Users /\ q.role \in GrantableRoles
      /\ i \in Invites /\ invitation[i].status # "none"
      /\ invitation[i].org = o /\ invitation[i].email = u
  BY DEF Admit, IInv, RequestsOK, RequestOK, RoleSteps, InviteSteps
<1>2. CASE UNCHANGED <<member, invitation>>
  BY <1>2, FinishStep DEF Admit, tables
<1>3. CASE /\ member[o][u] = "none"
           /\ member' = [member EXCEPT ![o][u] = q.role]
           /\ invitation' = [invitation EXCEPT ![i].status = "ACCEPTED"]
  <2>1. \A p \in Orgs, v \in Users :
          member'[p][v] = IF p = o /\ v = u THEN q.role ELSE member[p][v]
    BY <1>1, <1>3 DEF IInv, TypeOK
  <2>2. \A j \in Invites :
          /\ invitation'[j].org = invitation[j].org
          /\ invitation'[j].email = invitation[j].email
          /\ invitation'[j].role = invitation[j].role
          /\ invitation'[j].status = IF j = i THEN "ACCEPTED" ELSE invitation[j].status
    BY <1>1, <1>3 DEF IInv, TypeOK, InvitationRow
  <2>3. member' \in [Orgs -> [Users -> Roles \cup {"none"}]]
    BY <1>1, <1>3 DEF IInv, TypeOK, Roles, GrantableRoles
  <2>4. invitation' \in [Invites -> InvitationRow]
    BY <1>1, <1>3 DEF IInv, TypeOK, InvitationRow
  <2>5. TypeOK'
    BY <2>3, <2>4, FinishedSlot DEF Admit, IInv, TypeOK
  <2>6. SingleOwner'
    <3>1. ~(org[o].owner = u)
      BY <1>1, <1>3 DEF IInv, SingleOwner
    <3>2. QED
      BY <1>1, <2>1, <3>1 DEF Admit, IInv, SingleOwner, Exists, GrantableRoles
  <2>8. RowsAreLinked'
    BY <1>1, <2>2 DEF Admit, IInv, RowsAreLinked, Exists
  <2>9. RequestsOK'
    BY <1>1, <2>2, FinishedSlot, RequestsKept
       DEF Admit, IInv, OwnersKept, InvitationsKept
  <2>10. QED
    BY <2>5, <2>6, <2>8, <2>9 DEF IInv
<1>4. QED
  BY <1>2, <1>3 DEF Admit

\* Founding gives an id its first member, the owner.
LEMMA CreateOrganizationStep ==
  ASSUME IInv, NEW u \in Users, NEW o \in Orgs, CreateOrganization(u, o)
  PROVE  IInv'
<1> DEFINE row == [owner |-> u, isActive |-> TRUE, editedBy |-> NULL]
<1>1. ~Exists(o) /\ \A v \in Users : member[o][v] = "none"
  BY DEF CreateOrganization, IInv, SingleOwner
<1>2. \A p \in Orgs : org'[p] = IF p = o THEN row ELSE org[p]
  BY DEF CreateOrganization, IInv, TypeOK
<1>3. \A p \in Orgs, v \in Users :
        member'[p][v] = IF p = o /\ v = u THEN "OWNER" ELSE member[p][v]
  BY DEF CreateOrganization, IInv, TypeOK
<1>4. TypeOK'
  <2>1. org' \in [Orgs -> OrgRow]
    BY DEF CreateOrganization, IInv, TypeOK, OrgRow
  <2>2. member' \in [Orgs -> [Users -> Roles \cup {"none"}]]
    BY DEF CreateOrganization, IInv, TypeOK, Roles
  <2>3. QED
    BY <2>1, <2>2 DEF CreateOrganization, IInv, TypeOK
<1>5. u # NULL
  BY NullAssumption
<1>6. SingleOwner'
  BY <1>1, <1>2, <1>3, <1>5 DEF IInv, SingleOwner, Exists
<1>8. RowsAreLinked'
  BY <1>2, <1>5 DEF CreateOrganization, IInv, RowsAreLinked, Exists
<1>9. RequestsOK'
  BY <1>1, <1>2, RequestsKept
     DEF CreateOrganization, IInv, OwnersKept, InvitationsKept
<1>10. QED
  BY <1>4, <1>6, <1>8, <1>9 DEF IInv

-----------------------------------------------------------------------------

\* Every step of the service keeps the inductive invariant.
LEMMA NextStep == IInv /\ [Next]_vars => IInv'
<1> SUFFICES ASSUME IInv, [Next]_vars PROVE IInv'
  OBVIOUS
<1>1. CASE UNCHANGED vars
  BY <1>1
     DEF vars, IInv, TypeOK, SingleOwner, RequestsOK,
         RequestOK, RowsAreLinked, Exists
<1>2. CASE \E u \in Users, o \in Orgs : CreateOrganization(u, o)
  BY <1>2, CreateOrganizationStep
<1>3. ASSUME NEW r \in Req, RequestStep(r) PROVE IInv'
  BY <1>3, OpenGatedStep, LoadMembershipStep, UpdateOrganizationStep,
     ReadOwnerStep, SoftDeleteStep, ReadTargetStep, UpdateMemberRoleStep,
     RemoveMemberStep, CheckInviteeStep, FindPendingStep, SupersedeStep,
     CreateInvitationStep, OpenAcceptStep, MarkExpiredStep, AdmitStep, AbortStep
     DEF RequestStep
<1>4. CASE \E i \in Invites : InvitationLapses(i)
  BY <1>4, InvitationLapsesStep
<1>5. CASE CleanupExpiredInvitations
  BY <1>5, CleanupStep
<1>6. QED
  BY <1>1, <1>2, <1>3, <1>4, <1>5 DEF Next

\* The inductive invariant holds of every behaviour: what a request in flight
\* relies on (RequestsOK) is true although its reads are old.
THEOREM Inductive == Spec => []IInv
  BY InitEstablishes, NextStep, PTL DEF Spec

\* Rows and requests keep their types.
THEOREM TypeCorrect == Spec => []TypeOK
<1>1. IInv => TypeOK
  BY DEF IInv
<1>2. QED
  BY <1>1, Inductive, PTL

\* An organization always has exactly one OWNER membership, its owner's,
\* whatever role changes, removals and acceptances are in flight.
THEOREM OneOwner == Spec => []SingleOwner
<1>1. IInv => SingleOwner
  BY DEF IInv
<1>2. QED
  BY <1>1, Inductive, PTL

-----------------------------------------------------------------------------
(* The implementation of Ownership.                                        *)

\* Whatever the service starts on is a set of organizations the contract knows.
LEMMA InitImplements == IInv => Contract!OwnInit
<1> SUFFICES ASSUME IInv PROVE Contract!OwnInit
  OBVIOUS
<1> DEFINE owner == [o \in Orgs |-> org[o].owner]
           open == [o \in Orgs |-> org[o].isActive]
<1>1. /\ owner \in [Orgs -> Users \cup {NULL}] /\ open \in [Orgs -> BOOLEAN]
      /\ member \in [Orgs -> [Users -> Roles \cup {"none"}]]
  BY DEF IInv, TypeOK, OrgRow
<1>2. \A o \in Orgs, u \in Users : member[o][u] = "OWNER" <=> owner[o] = u
  BY NullAssumption DEF IInv, SingleOwner, Exists
<1>3. \A o \in Orgs : owner[o] = NULL =>
        ~open[o] /\ \A u \in Users : member[o][u] = "none"
  BY DEF IInv, SingleOwner, RowsAreLinked, Exists
<1>4. QED
  BY <1>1, <1>2, <1>3 DEF Contract!OwnInit, Contract!Roles, Roles

\* A step that touches neither owners, roles nor activity is a stutter.
LEMMA RowsUnchanged ==
  ASSUME UNCHANGED <<org, member>>
  PROVE  UNCHANGED Contract!ovars
  BY DEF Contract!ovars

LEMMA FoundStep ==
  ASSUME IInv, NEW u \in Users, NEW o \in Orgs, CreateOrganization(u, o)
  PROVE  Contract!OwnNext
<1>1. Contract!Found(o, u)
  BY DEF CreateOrganization, Contract!Found, Exists, IInv, TypeOK, OrgRow
<1>2. QED
  BY <1>1 DEF Contract!OwnNext

LEMMA CloseStep ==
  ASSUME IInv, NEW r \in Req, SoftDelete(r)
  PROVE  Contract!OwnNext \/ UNCHANGED Contract!ovars
<1>1. PICK o \in Orgs : o = req[r].org
  BY DEF SoftDelete, IInv, RequestsOK, RequestOK
<1>2. CASE org[o].isActive
  <2>1. Contract!Close(o)
    BY <1>1, <1>2 DEF SoftDelete, Contract!Close, IInv, TypeOK, OrgRow
  <2>2. QED
    BY <2>1 DEF Contract!OwnNext
<1>3. CASE ~org[o].isActive
  <2>1. UNCHANGED <<org, member>>
    BY <1>1, <1>3 DEF SoftDelete, IInv, TypeOK, OrgRow
  <2>2. QED
    BY <2>1, RowsUnchanged
<1>4. QED
  BY <1>2, <1>3

\* Editing the settings is invisible to the contract.
LEMMA EditStep ==
  ASSUME IInv, NEW r \in Req, UpdateOrganization(r)
  PROVE  UNCHANGED Contract!ovars
<1>1. \A o \in Orgs : /\ org'[o].owner = org[o].owner
                      /\ org'[o].isActive = org[o].isActive
  BY DEF UpdateOrganization, IInv, TypeOK, OrgRow
<1>2. QED
  BY <1>1 DEF UpdateOrganization, Contract!ovars

LEMMA RegradeStep ==
  ASSUME IInv, NEW r \in Req, UpdateMemberRole(r)
  PROVE  Contract!OwnNext \/ UNCHANGED Contract!ovars
<1> DEFINE q == req[r]
<1>1. /\ q.org \in Orgs /\ q.target \in Users /\ q.role \in GrantableRoles
      /\ q.target # org[q.org].owner
  BY DEF UpdateMemberRole, IInv, RequestsOK, RequestOK, TargetSteps, RoleSteps
<1>2. CASE member[q.org][q.target] = "none"
  BY <1>2, RowsUnchanged DEF UpdateMemberRole
<1>3. CASE member[q.org][q.target] # "none"
  <2>1. member[q.org][q.target] \in GrantableRoles
    BY <1>1, <1>3 DEF IInv, TypeOK, SingleOwner, Roles, GrantableRoles
  <2>2. Contract!Regrade(q.org, q.target, q.role)
    BY <1>3, <2>1
       DEF UpdateMemberRole, Contract!Regrade, Contract!GrantableRoles, GrantableRoles
  <2>3. QED
    BY <1>1, <2>2 DEF Contract!OwnNext, Contract!GrantableRoles, GrantableRoles
<1>4. QED
  BY <1>2, <1>3

LEMMA ExpelStep ==
  ASSUME IInv, NEW r \in Req, RemoveMember(r)
  PROVE  Contract!OwnNext \/ UNCHANGED Contract!ovars
<1> DEFINE q == req[r]
<1>1. q.org \in Orgs /\ q.target \in Users /\ q.target # org[q.org].owner
  BY DEF RemoveMember, IInv, RequestsOK, RequestOK, TargetSteps
<1>2. CASE member[q.org][q.target] = "none"
  <2>1. member' = member
    BY <1>1, <1>2 DEF RemoveMember, IInv, TypeOK
  <2>2. QED
    BY <2>1, RowsUnchanged DEF RemoveMember
<1>3. CASE member[q.org][q.target] # "none"
  <2>1. member[q.org][q.target] \in GrantableRoles
    BY <1>1, <1>3 DEF IInv, TypeOK, SingleOwner, Roles, GrantableRoles
  <2>2. Contract!Expel(q.org, q.target)
    BY <2>1 DEF RemoveMember, Contract!Expel, Contract!GrantableRoles, GrantableRoles
  <2>3. QED
    BY <1>1, <2>2 DEF Contract!OwnNext
<1>4. QED
  BY <1>2, <1>3

LEMMA JoinStep ==
  ASSUME IInv, NEW r \in Req, Admit(r)
  PROVE  Contract!OwnNext \/ UNCHANGED Contract!ovars
<1> DEFINE q == req[r]
<1>1. q.org \in Orgs /\ Exists(q.org) /\ q.actor \in Users /\ q.role \in GrantableRoles
  BY DEF Admit, IInv, RequestsOK, RequestOK, RoleSteps
<1>2. CASE member[q.org][q.actor] = "none"
  <2>1. Contract!Join(q.org, q.actor, q.role)
    BY <1>1, <1>2 DEF Admit, Contract!Join, Exists
  <2>2. QED
    BY <1>1, <2>1 DEF Contract!OwnNext, Contract!GrantableRoles, GrantableRoles
<1>3. CASE member[q.org][q.actor] # "none"
  BY <1>3, RowsUnchanged DEF Admit
<1>4. QED
  BY <1>2, <1>3

\* Every step of the service is a step of the contract or a stutter.
LEMMA NextImplements ==
  IInv /\ [Next]_vars => [Contract!OwnNext]_(Contract!ovars)
<1> SUFFICES ASSUME IInv, [Next]_vars
             PROVE  Contract!OwnNext \/ UNCHANGED Contract!ovars
  OBVIOUS
<1>1. CASE UNCHANGED vars
  BY <1>1, RowsUnchanged DEF vars
<1>2. CASE \E u \in Users, o \in Orgs : CreateOrganization(u, o)
  BY <1>2, FoundStep
<1>3. ASSUME NEW r \in Req, RequestStep(r)
      PROVE  Contract!OwnNext \/ UNCHANGED Contract!ovars
  <2>1. \/ UpdateOrganization(r) \/ SoftDelete(r) \/ UpdateMemberRole(r)
        \/ RemoveMember(r) \/ Admit(r) \/ UNCHANGED <<org, member>>
    BY <1>3
       DEF RequestStep, OpenGated, LoadMembership, ReadOwner, ReadTarget,
           CheckInvitee, FindPending, Supersede, CreateInvitation, OpenAccept,
           MarkExpired, Abort, tables
  <2>2. QED
    BY <2>1, EditStep, CloseStep, RegradeStep, ExpelStep, JoinStep, RowsUnchanged
<1>4. CASE \E i \in Invites : InvitationLapses(i)
  BY <1>4, RowsUnchanged DEF InvitationLapses
<1>5. CASE CleanupExpiredInvitations
  BY <1>5, RowsUnchanged DEF CleanupExpiredInvitations
<1>6. QED
  BY <1>1, <1>2, <1>3, <1>4, <1>5 DEF Next

\* The organization service implements the ownership contract: ownership
\* never moves, nobody else is ever OWNER, a deleted organization stays so.
THEOREM Implementation == Spec => ImplementsOwnership
  BY InitEstablishes, NextStep, InitImplements, NextImplements, PTL
     DEF Spec, ImplementsOwnership, Contract!OwnSpec

\* What the contract says of an organization that has been founded.
LEMMA ContractKeepsOwners ==
  ASSUME NEW o \in Orgs, Exists(o), [Contract!OwnNext]_(Contract!ovars)
  PROVE  /\ org'[o].owner = org[o].owner
         /\ ~org[o].isActive => ~org'[o].isActive
<1> DEFINE owner == [p \in Orgs |-> org[p].owner]
           open == [p \in Orgs |-> org[p].isActive]
<1>1. owner[o] # NULL
  BY DEF Exists
<1>2. owner'[o] = owner[o] /\ (~open[o] => ~open'[o])
  <2>1. CASE UNCHANGED Contract!ovars
    BY <2>1 DEF Contract!ovars
  <2>2. ASSUME NEW p \in Orgs, NEW u \in Users, Contract!Found(p, u)
        PROVE  owner'[o] = owner[o] /\ (~open[o] => ~open'[o])
    BY <1>1, <2>2 DEF Contract!Found
  <2>3. ASSUME NEW p \in Orgs, Contract!Close(p)
        PROVE  owner'[o] = owner[o] /\ (~open[o] => ~open'[o])
    BY <2>3 DEF Contract!Close
  <2>4. ASSUME UNCHANGED <<owner, open>>
        PROVE  owner'[o] = owner[o] /\ (~open[o] => ~open'[o])
    BY <2>4
  <2>5. QED
    BY <2>1, <2>2, <2>3, <2>4
       DEF Contract!OwnNext, Contract!Expel, Contract!Join, Contract!Regrade
<1>3. /\ owner[o] = org[o].owner /\ owner'[o] = org'[o].owner
      /\ open[o] = org[o].isActive /\ open'[o] = org'[o].isActive
  OBVIOUS
<1>4. QED
  BY <1>2, <1>3

\* By the contract no request moves the ownership of an organization or
\* reopens one that was deleted.
THEOREM OwnershipIsForLife ==
  Spec => [][\A o \in Orgs : Exists(o) =>
               /\ org'[o].owner = org[o].owner
               /\ ~org[o].isActive => ~org'[o].isActive]_vars
<1>1. IInv /\ [Next]_vars =>
        [\A o \in Orgs : Exists(o) =>
           /\ org'[o].owner = org[o].owner
           /\ ~org[o].isActive => ~org'[o].isActive]_vars
  BY NextImplements, ContractKeepsOwners
<1>2. QED
  BY <1>1, Inductive, PTL DEF Spec

-----------------------------------------------------------------------------
(* Invitations retire.                                                     *)

Retired(i) == invitation[i].status \in {"ACCEPTED", "EXPIRED"}

LEMMA RetirementStep ==
  ASSUME IInv, [Next]_vars, NEW i \in Invites, Retired(i)
  PROVE  Retired(i)'
<1>1. CASE UNCHANGED invitation
  BY <1>1 DEF Retired
<1>2. ASSUME NEW r \in Req, Supersede(r) \/ MarkExpired(r) \/ Admit(r)
      PROVE  Retired(i)'
  BY <1>2 DEF Supersede, MarkExpired, Admit, IInv, TypeOK, InvitationRow, Retired
<1>3. ASSUME NEW r \in Req, CreateInvitation(r)
      PROVE  Retired(i)'
  BY <1>3 DEF CreateInvitation, IInv, TypeOK, Retired
<1>4. ASSUME NEW j \in Invites, InvitationLapses(j)
      PROVE  Retired(i)'
  BY <1>4 DEF InvitationLapses, IInv, TypeOK, InvitationRow, Retired
<1>5. CASE CleanupExpiredInvitations
  BY <1>5 DEF CleanupExpiredInvitations, Lapsed, Retired
<1>6. QED
  BY <1>1, <1>2, <1>3, <1>4, <1>5
  DEF Next, RequestStep, vars, tables, CreateOrganization, OpenGated, LoadMembership,
      UpdateOrganization, ReadOwner, SoftDelete, ReadTarget, UpdateMemberRole,
      RemoveMember, CheckInvitee, FindPending, OpenAccept, Abort

\* An invitation that was accepted, superseded or marked by the cleanup never
\* pends again, although requests that read it before still write to it.
THEOREM RetirementIsFinal ==
  Spec => [][\A i \in Invites : Retired(i) => Retired(i)']_vars
<1>1. IInv /\ [Next]_vars => [\A i \in Invites : Retired(i) => Retired(i)']_vars
  BY RetirementStep
<1>2. QED
  BY <1>1, Inductive, PTL DEF Spec
=============================================================================
