---------------------- MODULE OrganizationHistoryProofs ----------------------
(***************************************************************************)
(* Proofs about OrganizationHistory: what a request does was permitted     *)
(* while it was under way, whatever other requests did meanwhile; and      *)
(* about OrganizationApart: the claims hold of everybody about whom no two *)
(* requests have overlapped, whatever the others do.                       *)
(***************************************************************************)
EXTENDS OrganizationHistory, OrganizationApart, OrganizationProofs

-----------------------------------------------------------------------------
(* What a step does to the requests in flight.                             *)

\* A step of request r moves no other, and r does not stay where it is.
LEMMA OneMoves ==
  ASSUME IInv, NEW r \in Req, RequestStep(r)
  PROVE  \A s \in Req \ {r} : req'[s] = req[s]
<1>1. \E q : req' = [req EXCEPT ![r] = q]
  BY DEF RequestStep, OpenGated, LoadMembership, UpdateOrganization, ReadOwner,
         SoftDelete, ReadTarget, UpdateMemberRole, RemoveMember, CheckInvitee,
         FindPending, Supersede, CreateInvitation, OpenAccept, MarkExpired,
         Admit, Abort, Finish, Goto
<1>2. QED
  BY <1>1 DEF IInv, TypeOK

\* Every other step leaves the requests alone.
LEMMA RequestsMoveThemselves ==
  ASSUME [Next]_vars, NEW r \in Req, ~RequestStep(r), IInv, req'[r] # req[r]
  PROVE  FALSE
<1>1. ASSUME NEW s \in Req, RequestStep(s) PROVE FALSE
  BY <1>1, OneMoves
<1>2. QED
  BY <1>1 DEF Next, vars, CreateOrganization, InvitationLapses,
              CleanupExpiredInvitations

\* Request p is request q further on: what was asked for is still the same.
MovesOn(q, p) ==
  /\ p.op = q.op /\ p.actor = q.actor /\ p.org = q.org /\ p.target = q.target
  /\ p.role = q.role

LEMMA FinishIdles ==
  ASSUME IInv, NEW r \in Req, Finish(r)
  PROVE  req'[r] = IdleReq
  BY DEF IInv, TypeOK, Finish

LEMMA GotoMovesOn ==
  ASSUME IInv, NEW r \in Req, NEW pc, Goto(r, pc)
  PROVE  /\ MovesOn(req[r], req'[r]) /\ req'[r].pc = pc
         /\ req'[r].mrole = req[r].mrole /\ req'[r].inv = req[r].inv
  BY DEF IInv, TypeOK, Request, Goto, MovesOn

LEMMA OpenedGated ==
  ASSUME IInv, NEW r \in Req, NEW op \in GatedOps, NEW u \in Users,
         NEW o \in Orgs, OpenGated(r, op, u, o)
  PROVE  /\ req'[r].pc = "membership" /\ req'[r].op = op
         /\ req'[r].actor = u /\ req'[r].org = o
         /\ org[o].isActive /\ UNCHANGED tables
  BY DEF OpenGated, IInv, TypeOK, Available

LEMMA OpenedAccept ==
  ASSUME IInv, NEW r \in Req, NEW u \in Users, NEW i \in Invites,
         OpenAccept(r, u, i)
  PROVE  /\ req'[r].pc = IF invitation[i].expired THEN "markExpired" ELSE "admit"
         /\ req'[r].op = "accept" /\ req'[r].actor = u /\ req'[r].inv = i
         /\ req'[r].org = invitation[i].org /\ req'[r].mrole = "none"
         /\ Acceptable(invitation[i], u) /\ UNCHANGED tables
  BY DEF OpenAccept, IInv, TypeOK

LEMMA PassedTheGate ==
  ASSUME IInv, NEW r \in Req, LoadMembership(r), req'[r] # IdleReq
  PROVE  LET q == req[r]
             role == member[q.org][q.actor]
         IN /\ Admissible(q, role)
            /\ MovesOn(q, req'[r]) /\ req'[r].pc = ServiceEntry(q.op)
            /\ req'[r].inv = q.inv
            /\ req'[r].mrole = IF q.op \in ManageOps THEN role ELSE "none"
            /\ q.op \in GatedOps /\ q.org \in Orgs /\ q.actor \in Users
            /\ UNCHANGED tables
<1> DEFINE q == req[r]
           role == member[q.org][q.actor]
           mrole == IF q.op \in ManageOps THEN role ELSE "none"
<1>1. Admissible(q, role)
  BY FinishIdles DEF LoadMembership
<1>2. /\ req' = [req EXCEPT ![r] = [q EXCEPT !.pc = ServiceEntry(q.op), !.mrole = mrole]]
      /\ q.pc = "membership" /\ UNCHANGED tables
  BY <1>1 DEF LoadMembership, IInv, TypeOK
<1>3. q \in Request /\ RequestOK(q)
  BY DEF IInv, TypeOK, RequestsOK
<1>4. q.op \in GatedOps /\ q.org \in Orgs /\ q.actor \in Users
  BY <1>2, <1>3 DEF RequestOK
<1> HIDE DEF mrole
<1>5. /\ MovesOn(q, req'[r]) /\ req'[r].pc = ServiceEntry(q.op)
      /\ req'[r].inv = q.inv /\ req'[r].mrole = mrole
  BY <1>2, <1>3 DEF IInv, TypeOK, Request, MovesOn
<1>6. QED
  BY <1>1, <1>2, <1>4, <1>5 DEF mrole

LEMMA TargetWasRead ==
  ASSUME IInv, NEW r \in Req, ReadTarget(r), req'[r] # IdleReq
  PROVE  LET q == req[r]
             current == member[q.org][q.target]
         IN /\ MovesOn(q, req'[r]) /\ req'[r].mrole = q.mrole
            /\ \/ q.op = "updateRole" /\ req'[r].pc = "writeRole"
               \/ q.op = "removeMember" /\ req'[r].pc = "deleteMember"
            /\ current \notin {"none", "OWNER"}
            /\ ~(q.mrole = "ADMIN" /\ current = "ADMIN")
            /\ q.org \in Orgs /\ q.target \in Users /\ current \in Roles
            /\ q.pc = "readTarget" /\ UNCHANGED tables
<1> DEFINE q == req[r]
           current == member[q.org][q.target]
<1>1. /\ \/ q.op = "updateRole" /\ MayChangeRole(q, current) /\ Goto(r, "writeRole")
         \/ q.op = "removeMember" /\ MayRemove(q, current) /\ Goto(r, "deleteMember")
      /\ q.pc = "readTarget" /\ UNCHANGED tables
  BY FinishIdles DEF ReadTarget
<1>2. q.org \in Orgs /\ q.target \in Users
  BY <1>1 DEF IInv, RequestsOK, RequestOK, TargetSteps
<1>3. current \notin {"none", "OWNER"} /\ ~(q.mrole = "ADMIN" /\ current = "ADMIN")
  BY <1>1 DEF MayChangeRole, MayRemove
<1>4. current \in Roles
  BY <1>2, <1>3 DEF IInv, TypeOK
<1>5. QED
  BY <1>1, <1>2, <1>3, <1>4, GotoMovesOn

LEMMA PendingWasSought ==
  ASSUME IInv, NEW r \in Req, FindPending(r)
  PROVE  LET q == req[r]
         IN /\ MovesOn(q, req'[r]) /\ req'[r].mrole = q.mrole
            /\ q.pc = "findPending" /\ UNCHANGED tables
            /\ \/ /\ req'[r].pc = "supersede"
                  /\ req'[r].inv \in Pending(q.org, q.target)
               \/ req'[r].pc = "createInvite" /\ Pending(q.org, q.target) = {}
<1> DEFINE q == req[r]
<1>1. q \in Request /\ q.pc = "findPending" /\ UNCHANGED tables
  BY DEF IInv, TypeOK, FindPending
<1>2. CASE Pending(q.org, q.target) = {} /\ Goto(r, "createInvite")
  BY <1>1, <1>2, GotoMovesOn
<1>3. ASSUME NEW i \in Pending(q.org, q.target),
             req' = [req EXCEPT ![r] = [q EXCEPT !.pc = "supersede", !.inv = i]]
      PROVE  /\ MovesOn(q, req'[r]) /\ req'[r].mrole = q.mrole
             /\ req'[r].pc = "supersede" /\ req'[r].inv = i
  BY <1>1, <1>3 DEF IInv, TypeOK, Request, MovesOn
<1>4. QED
  BY <1>1, <1>2, <1>3 DEF FindPending

LEMMA WasSuperseded ==
  ASSUME IInv, NEW r \in Req, Supersede(r)
  PROVE  /\ MovesOn(req[r], req'[r]) /\ req'[r].mrole = req[r].mrole
         /\ req[r].pc = "supersede" /\ req'[r].pc = "createInvite"
  BY DEF IInv, TypeOK, Request, Supersede, MovesOn

\* Every step of a request is one of these, or ends it.
LEMMA StepKinds ==
  ASSUME IInv, NEW r \in Req, RequestStep(r), req'[r] # IdleReq
  PROVE  \/ \E op \in GatedOps, u \in Users, o \in Orgs : OpenGated(r, op, u, o)
         \/ \E u \in Users, i \in Invites : OpenAccept(r, u, i)
         \/ LoadMembership(r)
         \/ ReadTarget(r)
         \/ ReadOwner(r) /\ Goto(r, "softDelete")
         \/ CheckInvitee(r) /\ Goto(r, "findPending")
         \/ FindPending(r)
         \/ Supersede(r)
<1>1. ~Finish(r)
  BY FinishIdles
<1>2. QED
  BY <1>1 DEF RequestStep, UpdateOrganization, ReadOwner, SoftDelete,
              UpdateMemberRole, RemoveMember, CheckInvitee, CreateInvitation,
              MarkExpired, Admit, Abort

-----------------------------------------------------------------------------
(* Requests stay on their routes.                                          *)

LEMMA StepStaysOnRoute ==
  ASSUME IInv, OnRoutes, NEW r \in Req, RequestStep(r)
  PROVE  OnRoute(req'[r])
<1>1. OnRoute(req[r])
  BY DEF OnRoutes
<1>2. CASE req'[r] = IdleReq
  BY <1>2 DEF OnRoute, IdleReq
<1>3. CASE req'[r] # IdleReq
  <2>1. ASSUME NEW op \in GatedOps, NEW u \in Users, NEW o \in Orgs, OpenGated(r, op, u, o)
        PROVE  OnRoute(req'[r])
    BY <2>1, OpenedGated DEF OnRoute, GatedOps
  <2>2. ASSUME NEW u \in Users, NEW i \in Invites, OpenAccept(r, u, i)
        PROVE  OnRoute(req'[r])
    BY <2>2, OpenedAccept DEF OnRoute
  <2>3. CASE LoadMembership(r)
    <3>1. req[r].op \in GatedOps /\ req'[r].op = req[r].op
          /\ req'[r].pc = ServiceEntry(req[r].op)
      BY <1>3, <2>3, PassedTheGate DEF MovesOn
    <3>2. QED
      BY <3>1 DEF OnRoute, GatedOps, ServiceEntry, ManageOps
  <2>4. CASE ReadTarget(r)
    BY <1>3, <2>4, TargetWasRead DEF OnRoute, MovesOn
  <2>5. CASE ReadOwner(r) /\ Goto(r, "softDelete")
    BY <1>1, <2>5, GotoMovesOn DEF OnRoute, MovesOn, ReadOwner
  <2>6. CASE CheckInvitee(r) /\ Goto(r, "findPending")
    BY <1>1, <2>6, GotoMovesOn DEF OnRoute, MovesOn, CheckInvitee
  <2>7. CASE FindPending(r)
    BY <1>1, <2>7, PendingWasSought DEF OnRoute, MovesOn
  <2>8. CASE Supersede(r)
    BY <1>1, <2>8, WasSuperseded DEF OnRoute, MovesOn
  <2>9. QED
    BY <1>3, <2>1, <2>2, <2>3, <2>4, <2>5, <2>6, <2>7, <2>8, StepKinds
<1>4. QED
  BY <1>2, <1>3

LEMMA RoutesKept ==
  ASSUME IInv, OnRoutes, [Next]_vars
  PROVE  OnRoutes'
<1> SUFFICES ASSUME NEW s \in Req PROVE OnRoute(req'[s])
  BY DEF OnRoutes, OnRoute
<1>1. CASE RequestStep(s)
  BY <1>1, StepStaysOnRoute
<1>2. CASE ~RequestStep(s)
  BY <1>2, RequestsMoveThemselves DEF OnRoutes
<1>3. QED
  BY <1>1, <1>2

LEMMA RoutesAtFirst == Init => OnRoutes
  BY DEF Init, OnRoutes, OnRoute, IdleReq

-----------------------------------------------------------------------------
(* History: what has been true of a request remains so, and what is true   *)
(* of it now becomes part of it.                                           *)

SeenRecords ==
  [permitted : BOOLEAN, owner : BOOLEAN, plain : BOOLEAN, active : BOOLEAN,
   invited : BOOLEAN]

Watched ==
  \A r \in Req : req'[r] # IdleReq =>
    /\ seen'[r].permitted <=> seen[r].permitted \/ Facts(req[r])'.permitted
    /\ seen'[r].owner <=> seen[r].owner \/ Facts(req[r])'.owner
    /\ seen'[r].plain <=> seen[r].plain \/ Facts(req[r])'.plain
    /\ seen'[r].active <=> seen[r].active \/ Facts(req[r])'.active
    /\ seen'[r].invited <=> seen[r].invited \/ Facts(req[r])'.invited

LEMMA SeenFields ==
  /\ DOMAIN NothingSeen = {"permitted", "owner", "plain", "active", "invited"}
  /\ NothingSeen \in SeenRecords
BY DEF NothingSeen, SeenRecords

LEMMA NextIsWatched ==
  ASSUME HInv, HNext
  PROVE  Watched /\ seen' \in [Req -> SeenRecords]
<1>1. seen' = [r \in Req |-> IF req'[r] = IdleReq THEN NothingSeen ELSE Watch(r)]
  BY DEF HNext
<1>2. ASSUME NEW r \in Req
      PROVE  /\ Watch(r) \in SeenRecords
             /\ Watch(r).permitted <=> seen[r].permitted \/ Facts(req[r])'.permitted
             /\ Watch(r).owner <=> seen[r].owner \/ Facts(req[r])'.owner
             /\ Watch(r).plain <=> seen[r].plain \/ Facts(req[r])'.plain
             /\ Watch(r).active <=> seen[r].active \/ Facts(req[r])'.active
             /\ Watch(r).invited <=> seen[r].invited \/ Facts(req[r])'.invited
  <2>1. Watch(r) = [f \in {"permitted", "owner", "plain", "active", "invited"} |->
                      seen[r][f] \/ Facts(req[r])'[f]]
    BY SeenFields DEF Watch
  <2>2. Watch(r) \in SeenRecords
    BY <2>1, SeenFields DEF SeenRecords
  <2>3. QED
    BY <2>1, <2>2
<1>3. seen' \in [Req -> SeenRecords]
  BY <1>1, <1>2, SeenFields
<1>4. Watched
  BY <1>1, <1>2 DEF Watched
<1>5. QED
  BY <1>3, <1>4

\* The roles a route lets through carry the permission it exercises.
LEMMA RoutesMatchTheMatrix ==
  ASSUME NEW op \in GatedOps, NEW role \in AllowedRoles(op)
  PROVE  role \in RolesCapableOf(op)
<1>1. role \in {"OWNER", "ADMIN"} /\ (op = "deleteOrg" => role = "OWNER")
  BY DEF AllowedRoles
<1>2. /\ Permission[op] \in {"org:update", "org:delete", "role:update",
                             "member:remove", "member:invite"}
      /\ op # "deleteOrg" => Permission[op] # "org:delete"
  BY DEF GatedOps, Permission
<1>3. CASE role = "OWNER"
  <2>1. Permission[op] \in Capabilities(role)
    BY <1>2, <1>3 DEF Capabilities, AdminCapabilities
  <2>2. QED
    BY <1>3, <2>1 DEF RolesCapableOf, Roles
<1>4. CASE role = "ADMIN"
  <2>1. Permission[op] \in Capabilities(role)
    BY <1>1, <1>2, <1>4 DEF Capabilities, AdminCapabilities
  <2>2. QED
    BY <1>4, <2>1 DEF RolesCapableOf, Roles
<1>5. QED
  BY <1>1, <1>3, <1>4

-----------------------------------------------------------------------------
(* What a request has decided on was true.                                 *)

\* A request that does not move keeps what it decided on; so does one whose
\* step decides on nothing new.
LEMMA DecidedBefore ==
  ASSUME HInv, Watched, NEW r \in Req, req'[r] # IdleReq,
         req'[r].op = req[r].op, req'[r].mrole = req[r].mrole,
         \/ req'[r].pc = req[r].pc
         \/ /\ req[r].pc \notin {"idle", "membership"}
            /\ req'[r].pc \notin {"writeRole", "deleteMember", "admit"}
  PROVE  DecidedOn(r)'
<1>1. DecidedOn(r)
  BY DEF HInv
<1>2. /\ seen[r].permitted => seen'[r].permitted
      /\ seen[r].owner => seen'[r].owner
      /\ seen[r].plain => seen'[r].plain
      /\ seen[r].active => seen'[r].active
      /\ seen[r].invited => seen'[r].invited
  BY DEF Watched
<1>3. CASE req'[r].pc = req[r].pc
  BY <1>1, <1>2, <1>3 DEF DecidedOn
<1>4. CASE /\ req[r].pc \notin {"idle", "membership"}
           /\ req'[r].pc \notin {"writeRole", "deleteMember", "admit"}
  BY <1>1, <1>2, <1>4 DEF DecidedOn
<1>5. QED
  BY <1>3, <1>4

LEMMA IdleDecidesNothing ==
  ASSUME NEW r \in Req, req'[r] = IdleReq
  PROVE  DecidedOn(r)'
  BY DEF DecidedOn, IdleReq, GatedOps, ManageOps

LEMMA GateDecides ==
  ASSUME HInv, Watched, NEW r \in Req, NEW op \in GatedOps, NEW u \in Users,
         NEW o \in Orgs, OpenGated(r, op, u, o)
  PROVE  DecidedOn(r)'
<1>1. /\ req'[r].pc = "membership" /\ req'[r].org = o
      /\ org[o].isActive /\ UNCHANGED tables
  BY OpenedGated DEF HInv
<1>2. Facts(req[r])'.active
  BY <1>1 DEF Facts, Open, tables
<1>3. req'[r] # IdleReq
  BY <1>1 DEF IdleReq
<1>4. seen'[r].active
  BY <1>2, <1>3 DEF Watched
<1>5. QED
  BY <1>1, <1>4 DEF DecidedOn

LEMMA AcceptanceDecides ==
  ASSUME HInv, Watched, NEW r \in Req, NEW u \in Users, NEW i \in Invites,
         OpenAccept(r, u, i)
  PROVE  DecidedOn(r)'
<1> DEFINE row == invitation[i]
<1>1. /\ req'[r].pc = IF row.expired THEN "markExpired" ELSE "admit"
      /\ req'[r].op = "accept" /\ req'[r].actor = u /\ req'[r].inv = i
      /\ req'[r].org = row.org /\ UNCHANGED tables
      /\ row.status = "PENDING" /\ org[row.org].isActive
      /\ row.expired \/ row.email = u
  BY OpenedAccept DEF HInv, Acceptable
<1>2. row.org \in Orgs
  BY <1>1 DEF HInv, IInv, RowsAreLinked
<1>3. Facts(req[r])'.active
  BY <1>1, <1>2 DEF Facts, Open, tables
<1>4. ~row.expired => Facts(req[r])'.invited
  BY <1>1, <1>2 DEF Facts, Open, tables
<1>5. req'[r] # IdleReq
  BY <1>1 DEF IdleReq
<1>6. seen'[r].active /\ (~row.expired => seen'[r].invited)
  BY <1>3, <1>4, <1>5 DEF Watched
<1>7. QED
  BY <1>1, <1>6 DEF DecidedOn, GatedOps, ManageOps

LEMMA MembershipDecides ==
  ASSUME HInv, Watched, NEW r \in Req, LoadMembership(r), req'[r] # IdleReq
  PROVE  DecidedOn(r)'
<1> DEFINE q == req[r]
           role == member[q.org][q.actor]
<1>1. /\ role \in AllowedRoles(q.op)
      /\ MovesOn(q, req'[r]) /\ req'[r].pc = ServiceEntry(q.op)
      /\ req'[r].mrole = IF q.op \in ManageOps THEN role ELSE "none"
      /\ q.op \in GatedOps /\ q.org \in Orgs /\ q.actor \in Users
      /\ UNCHANGED tables
  BY PassedTheGate DEF HInv, Admissible
<1>2. q.pc = "membership"
  BY DEF LoadMembership
<1>3. role \in RolesCapableOf(q.op) /\ role \in {"OWNER", "ADMIN"}
  BY <1>1, RoutesMatchTheMatrix DEF AllowedRoles
<1>4. RoleIn(req[r].org, req[r].actor)' = role
  BY <1>1 DEF RoleIn, MovesOn, tables
<1>5. Facts(req[r])'.permitted
  BY <1>1, <1>3, <1>4 DEF Facts, MovesOn
<1>6. role = "OWNER" => Facts(req[r])'.owner
  BY <1>4 DEF Facts
<1>7. seen'[r].permitted /\ (role = "OWNER" => seen'[r].owner)
  BY <1>5, <1>6 DEF Watched
<1>8. seen[r].active
  BY <1>2 DEF HInv, DecidedOn
<1>9. seen'[r].active
  BY <1>8 DEF Watched
<1>10. ServiceEntry(q.op) \notin {"writeRole", "deleteMember", "admit"}
  BY <1>1 DEF ServiceEntry, GatedOps, ManageOps
<1>11. req'[r].op = q.op
  BY <1>1 DEF MovesOn
<1>12. QED
  BY <1>1, <1>3, <1>7, <1>9, <1>10, <1>11 DEF DecidedOn

LEMMA TargetDecides ==
  ASSUME HInv, Watched, NEW r \in Req, ReadTarget(r), req'[r] # IdleReq
  PROVE  DecidedOn(r)'
<1> DEFINE q == req[r]
           current == member[q.org][q.target]
<1>1. /\ MovesOn(q, req'[r]) /\ req'[r].mrole = q.mrole
      /\ q.op \in ManageOps /\ req'[r].pc \in {"writeRole", "deleteMember"}
      /\ current \notin {"none", "OWNER"}
      /\ ~(q.mrole = "ADMIN" /\ current = "ADMIN")
      /\ q.org \in Orgs /\ q.target \in Users /\ current \in Roles
      /\ q.pc = "readTarget" /\ UNCHANGED tables
  BY TargetWasRead DEF HInv, ManageOps
<1>2. /\ seen[r].active /\ seen[r].permitted
      /\ q.mrole \in {"OWNER", "ADMIN"} /\ (q.mrole = "OWNER" => seen[r].owner)
  BY <1>1 DEF HInv, DecidedOn, ManageOps, GatedOps
<1>3. RoleIn(req[r].org, req[r].target)' = current
  BY <1>1 DEF RoleIn, MovesOn, tables
<1>4. q.mrole = "ADMIN" => Facts(req[r])'.plain
  BY <1>1, <1>3 DEF Facts, Roles
<1>5. /\ seen'[r].active /\ seen'[r].permitted
      /\ q.mrole = "OWNER" => seen'[r].owner
      /\ q.mrole = "ADMIN" => seen'[r].plain
  BY <1>2, <1>4 DEF Watched
<1>6. QED
  BY <1>1, <1>2, <1>5 DEF DecidedOn, MovesOn

LEMMA StepDecides ==
  ASSUME HInv, Watched, NEW r \in Req, RequestStep(r)
  PROVE  DecidedOn(r)'
<1>1. CASE req'[r] = IdleReq
  BY <1>1, IdleDecidesNothing
<1>2. CASE req'[r] # IdleReq
  <2>1. IInv
    BY DEF HInv
  <2>2. CASE ReadOwner(r) /\ Goto(r, "softDelete")
    BY <1>2, <2>1, <2>2, GotoMovesOn, DecidedBefore DEF MovesOn, ReadOwner
  <2>3. CASE CheckInvitee(r) /\ Goto(r, "findPending")
    BY <1>2, <2>1, <2>3, GotoMovesOn, DecidedBefore DEF MovesOn, CheckInvitee
  <2>4. CASE FindPending(r)
    BY <1>2, <2>1, <2>4, PendingWasSought, DecidedBefore DEF MovesOn
  <2>5. CASE Supersede(r)
    BY <1>2, <2>1, <2>5, WasSuperseded, DecidedBefore DEF MovesOn
  <2>6. QED
    BY <1>2, <2>1, <2>2, <2>3, <2>4, <2>5, StepKinds, GateDecides,
       AcceptanceDecides, MembershipDecides, TargetDecides
<1>3. QED
  BY <1>1, <1>2

-----------------------------------------------------------------------------

(* Members were invited, or there from the start.                          *)

\* An invitation stays with its organization and its address, and expired.
LEMMA InvitationsStay ==
  ASSUME IInv, [Next]_vars, NEW i \in Invites, invitation[i].status # "none"
  PROVE  /\ invitation'[i].org = invitation[i].org
         /\ invitation'[i].email = invitation[i].email
         /\ invitation[i].expired => invitation'[i].expired
<1>1. CASE UNCHANGED invitation
  BY <1>1
<1>2. ASSUME NEW r \in Req, Supersede(r) \/ MarkExpired(r) \/ Admit(r)
      PROVE  /\ invitation'[i].org = invitation[i].org
             /\ invitation'[i].email = invitation[i].email
             /\ invitation'[i].expired = invitation[i].expired
  <2>1. \/ UNCHANGED invitation
        \/ \E st \in {"EXPIRED", "ACCEPTED"} :
             invitation' = [invitation EXCEPT ![req[r].inv].status = st]
    BY <1>2 DEF Supersede, MarkExpired, Admit
  <2>2. QED
    BY <2>1 DEF IInv, TypeOK, InvitationRow
<1>3. ASSUME NEW r \in Req, CreateInvitation(r)
      PROVE  invitation'[i] = invitation[i]
  BY <1>3 DEF CreateInvitation, IInv, TypeOK
<1>4. ASSUME NEW j \in Invites, InvitationLapses(j)
      PROVE  /\ invitation'[i].org = invitation[i].org
             /\ invitation'[i].email = invitation[i].email
             /\ invitation[i].expired => invitation'[i].expired
  BY <1>4 DEF InvitationLapses, IInv, TypeOK, InvitationRow
<1>5. ASSUME CleanupExpiredInvitations
      PROVE  /\ invitation'[i].org = invitation[i].org
             /\ invitation'[i].email = invitation[i].email
             /\ invitation'[i].expired = invitation[i].expired
  BY <1>5 DEF CleanupExpiredInvitations, IInv, TypeOK, InvitationRow
<1>6. QED
  BY <1>1, <1>2, <1>3, <1>4, <1>5
  DEF Next, RequestStep, vars, tables, CreateOrganization, OpenGated, LoadMembership,
      UpdateOrganization, ReadOwner, SoftDelete, ReadTarget, UpdateMemberRole,
      RemoveMember, CheckInvitee, FindPending, OpenAccept, Abort

\* Whoever comes to be a member below the owner uses up an invitation.
LEMMA JoiningUsesUp ==
  ASSUME IInv, [Next]_vars, NEW o \in Orgs, NEW u \in Users,
         member'[o][u] \in GrantableRoles, member[o][u] \notin GrantableRoles
  PROVE  \E i \in Invites : /\ invitation[i].org = o /\ invitation[i].email = u
                            /\ invitation[i].status # "none"
                            /\ invitation'[i].status = "ACCEPTED"
<1>1. ~UNCHANGED member
  OBVIOUS
<1>2. ASSUME NEW v \in Users, NEW p \in Orgs, CreateOrganization(v, p) PROVE FALSE
  BY <1>2 DEF CreateOrganization, IInv, TypeOK, GrantableRoles
<1>3. ASSUME NEW r \in Req, UpdateMemberRole(r) PROVE FALSE
  <2> DEFINE q == req[r]
  <2>1. /\ q.org \in Orgs /\ q.target \in Users /\ q.target # org[q.org].owner
        /\ member[q.org][q.target] # "none"
    BY <1>1, <1>3 DEF UpdateMemberRole, IInv, RequestsOK, RequestOK, TargetSteps
  <2>2. member[q.org][q.target] \in GrantableRoles
    BY <2>1 DEF IInv, TypeOK, SingleOwner, Roles, GrantableRoles
  <2>3. \A p \in Orgs, v \in Users :
          p # q.org \/ v # q.target => member'[p][v] = member[p][v]
    BY <1>3, <2>1 DEF UpdateMemberRole, IInv, TypeOK
  <2>4. QED
    BY <2>2, <2>3
<1>4. ASSUME NEW r \in Req, RemoveMember(r) PROVE FALSE
  BY <1>4 DEF RemoveMember, IInv, TypeOK, GrantableRoles
<1>5. ASSUME NEW r \in Req, Admit(r)
      PROVE  \E i \in Invites : /\ invitation[i].org = o /\ invitation[i].email = u
                                /\ invitation[i].status # "none"
                                /\ invitation'[i].status = "ACCEPTED"
  <2> DEFINE q == req[r]
  <2>1. /\ q.inv \in Invites /\ invitation[q.inv].status # "none"
        /\ invitation[q.inv].org = q.org /\ invitation[q.inv].email = q.actor
        /\ q.org \in Orgs /\ q.actor \in Users
    BY <1>5 DEF Admit, IInv, RequestsOK, RequestOK, InviteSteps
  <2>2. /\ member' = [member EXCEPT ![q.org][q.actor] = q.role]
        /\ invitation' = [invitation EXCEPT ![q.inv].status = "ACCEPTED"]
    BY <1>1, <1>5 DEF Admit
  <2>3. o = q.org /\ u = q.actor
    BY <2>1, <2>2 DEF IInv, TypeOK
  <2>4. invitation'[q.inv].status = "ACCEPTED"
    BY <2>1, <2>2 DEF IInv, TypeOK, InvitationRow
  <2>5. QED
    BY <2>1, <2>3, <2>4
<1>6. QED
  BY <1>1, <1>2, <1>3, <1>4, <1>5
  DEF Next, RequestStep, vars, tables, CreateOrganization, OpenGated, LoadMembership,
      UpdateOrganization, ReadOwner, SoftDelete, ReadTarget, CheckInvitee, FindPending,
      Supersede, CreateInvitation, OpenAccept, MarkExpired, Abort, InvitationLapses,
      CleanupExpiredInvitations

LEMMA MembersStayInvited ==
  ASSUME IInv, MembersWereInvited, [Next]_vars,
         seeded' = {p \in seeded : member'[p[1]][p[2]] # "none"}
  PROVE  MembersWereInvited'
<1> SUFFICES ASSUME NEW o \in Orgs, NEW u \in Users, member'[o][u] \in GrantableRoles
             PROVE  \/ <<o, u>> \in seeded'
                    \/ \E i \in Invites : /\ invitation'[i].org = o
                                          /\ invitation'[i].email = u
                                          /\ invitation'[i].status \in {"ACCEPTED", "EXPIRED"}
  BY DEF MembersWereInvited
<1>1. CASE member[o][u] \notin GrantableRoles
  <2>1. PICK i \in Invites : /\ invitation[i].org = o /\ invitation[i].email = u
                             /\ invitation[i].status # "none"
                             /\ invitation'[i].status = "ACCEPTED"
    BY <1>1, JoiningUsesUp
  <2>2. QED
    BY <2>1, InvitationsStay
<1>2. CASE member[o][u] \in GrantableRoles /\ <<o, u>> \in seeded
  BY <1>2 DEF GrantableRoles
<1>3. CASE member[o][u] \in GrantableRoles /\ <<o, u>> \notin seeded
  <2>1. PICK i \in Invites : /\ invitation[i].org = o /\ invitation[i].email = u /\ Retired(i)
    BY <1>3 DEF MembersWereInvited, Retired
  <2>2. Retired(i)' /\ invitation'[i].org = o /\ invitation'[i].email = u
    BY <2>1, RetirementStep, InvitationsStay DEF Retired
  <2>3. QED
    BY <2>2 DEF Retired
<1>4. QED
  BY <1>1, <1>2, <1>3

-----------------------------------------------------------------------------

LEMMA HInitInv == HInit => HInv
<1> SUFFICES ASSUME HInit PROVE HInv
  OBVIOUS
<1>1. IInv /\ OnRoutes
  BY InitEstablishes, RoutesAtFirst DEF HInit
<1>2. seen \in [Req -> SeenRecords]
  BY SeenFields DEF HInit
<1>3. \A r \in Req : DecidedOn(r)
  BY DEF HInit, Init, IdleReq, DecidedOn, GatedOps, ManageOps
<1>4. MembersWereInvited
  BY DEF HInit, MembersWereInvited
<1>5. QED
  BY <1>1, <1>2, <1>3, <1>4 DEF HInv, SeenRecords

LEMMA HNextInv ==
  ASSUME HInv, [HNext]_hvars
  PROVE  HInv'
<1>1. CASE UNCHANGED hvars
  <2>1. UNCHANGED vars /\ UNCHANGED <<seen, seeded>>
    BY <1>1 DEF hvars, vars
  <2>2. IInv' /\ OnRoutes'
    BY <2>1, NextStep, RoutesKept DEF HInv
  <2>3. \A r \in Req : DecidedOn(r)'
    BY <2>1 DEF HInv, DecidedOn, vars
  <2>4. MembersWereInvited'
    BY <2>1 DEF HInv, MembersWereInvited, vars
  <2>5. QED
    BY <2>1, <2>2, <2>3, <2>4 DEF HInv, NothingSeen
<1>2. CASE HNext
  <2>1. Next
    BY <1>2 DEF HNext
  <2>2. IInv' /\ OnRoutes'
    BY <2>1, NextStep, RoutesKept DEF HInv
  <2>3. Watched /\ seen' \in [Req -> SeenRecords]
    BY <1>2, NextIsWatched
  <2>4. ASSUME NEW r \in Req PROVE DecidedOn(r)'
    <3>1. CASE RequestStep(r)
      BY <2>3, <3>1, StepDecides
    <3>2. CASE ~RequestStep(r) /\ req'[r] = IdleReq
      BY <3>2, IdleDecidesNothing
    <3>3. CASE ~RequestStep(r) /\ req'[r] # IdleReq
      <4>1. req'[r] = req[r]
        BY <2>1, <3>3, RequestsMoveThemselves DEF HInv
      <4>2. QED
        BY <2>3, <3>3, <4>1, DecidedBefore
    <3>4. QED
      BY <3>1, <3>2, <3>3
  <2>5. MembersWereInvited'
    BY <1>2, <2>1, MembersStayInvited DEF HInv, HNext
  <2>6. QED
    BY <2>2, <2>3, <2>4, <2>5 DEF HInv, SeenRecords, NothingSeen
<1>3. QED
  BY <1>1, <1>2

\* By the time a request writes, what it decided on was true at some moment
\* of it, whatever the rows say now.
THEOREM HistoryInvariant == HSpec => []HInv
  BY HInitInv, HNextInv, PTL DEF HSpec

\* Nobody becomes a member but through an invitation of his own, or was there
\* from the start (acceptInvitation, prisma/seed.js).
THEOREM MembershipByInvitation == HSpec => []MembersWereInvited
<1>1. HInv => MembersWereInvited
  BY DEF HInv
<1>2. QED
  BY <1>1, HistoryInvariant, PTL

\* Where a request is when it changes a row.
LEMMA EffectsAreSteps ==
  ASSUME HInv, HNext, NEW r \in Req, Effect(r)
  PROVE  /\ req[r].pc \notin {"idle", "membership"}
         /\ req[r].op \in ManageOps => req[r].pc \in {"writeRole", "deleteMember"}
         /\ req[r].op = "accept" /\ member' # member => req[r].pc = "admit"
<1>1. IInv /\ OnRoute(req[r]) /\ Next
  BY DEF HInv, OnRoutes, HNext
<1>2. RequestStep(r)
  BY <1>1, RequestsMoveThemselves DEF Effect
<1>3. \/ UpdateOrganization(r) \/ SoftDelete(r) \/ UpdateMemberRole(r)
      \/ RemoveMember(r) \/ Supersede(r) \/ CreateInvitation(r)
      \/ MarkExpired(r) \/ Admit(r)
  BY <1>2 DEF Effect, RequestStep, OpenGated, LoadMembership, ReadOwner, ReadTarget,
              CheckInvitee, FindPending, OpenAccept, Abort
<1>4. /\ req[r].pc \in {"writeOrg", "softDelete", "writeRole", "deleteMember",
                        "supersede", "createInvite", "markExpired", "admit"}
      /\ req[r].pc = "markExpired" => member' = member
  BY <1>3 DEF UpdateOrganization, SoftDelete, UpdateMemberRole, RemoveMember,
              Supersede, CreateInvitation, MarkExpired, Admit
<1>5. QED
  BY <1>1, <1>4 DEF OnRoute, ManageOps

\* Whatever the roles do while a request is under way, what it changes behind
\* the gate was permitted to its caller at some moment of it.
THEOREM ServiceEffectsArePermitted == HSpec => EffectsArePermitted
<1>1. ASSUME HInv, [HNext]_hvars
      PROVE  [\A r \in Req : Effect(r) /\ req[r].op \in GatedOps
                               => seen[r].permitted]_hvars
  <2>1. ASSUME HNext, NEW r \in Req, Effect(r), req[r].op \in GatedOps
        PROVE  seen[r].permitted
    BY <1>1, <2>1, EffectsAreSteps DEF HInv, DecidedOn
  <2>2. QED
    BY <1>1, <2>1
<1>2. QED
  BY <1>1, HistoryInvariant, PTL DEF HSpec, EffectsArePermitted

\* Admins only regrade and remove people who were plain members during the
\* request, however promotions interleave with it.
THEOREM AdminsOnlyManageMembers == HSpec => AdminsManageMembers
<1>1. ASSUME HInv, [HNext]_hvars
      PROVE  [\A r \in Req :
                /\ Effect(r)
                /\ req[r].op \in ManageOps
                /\ ~seen[r].owner
                => seen[r].plain]_hvars
  <2>1. ASSUME HNext, NEW r \in Req, Effect(r), req[r].op \in ManageOps, ~seen[r].owner
        PROVE  seen[r].plain
    BY <1>1, <2>1, EffectsAreSteps DEF HInv, DecidedOn
  <2>2. QED
    BY <1>1, <2>1
<1>2. QED
  BY <1>1, HistoryInvariant, PTL DEF HSpec, AdminsManageMembers

\* Only requests that were under way when an organization was deleted change
\* it afterwards.
THEOREM DeletedOrganizationsRest == HSpec => NoEffectAfterDeletion
<1>1. ASSUME HInv, [HNext]_hvars
      PROVE  [\A r \in Req : Effect(r) => seen[r].active]_hvars
  <2>1. ASSUME HNext, NEW r \in Req, Effect(r)
        PROVE  seen[r].active
    BY <1>1, <2>1, EffectsAreSteps DEF HInv, DecidedOn
  <2>2. QED
    BY <1>1, <2>1
<1>2. QED
  BY <1>1, HistoryInvariant, PTL DEF HSpec, NoEffectAfterDeletion

\* Who joins held a live invitation of his own to an active organization at
\* some moment of the request.
THEOREM JoinersHeldInvitations == HSpec => JoinersWereInvited
<1>1. ASSUME HInv, [HNext]_hvars
      PROVE  [\A r \in Req :
                member' # member /\ req'[r] # req[r] /\ req[r].op = "accept" =>
                  seen[r].invited]_hvars
  <2>1. ASSUME HNext, NEW r \in Req, member' # member, req'[r] # req[r],
               req[r].op = "accept"
        PROVE  seen[r].invited
    <3>1. Effect(r)
      BY <2>1 DEF Effect, tables
    <3>2. QED
      BY <1>1, <2>1, <3>1, EffectsAreSteps DEF HInv, DecidedOn
  <2>2. QED
    BY <1>1, <2>1
<1>2. QED
  BY <1>1, HistoryInvariant, PTL DEF HSpec, JoinersWereInvited

-----------------------------------------------------------------------------
(* Requests apart: what OrganizationClaims says of invitations and of      *)
(* admins holds of u in o if no two requests about them have overlapped.   *)
(* Whoever is not about them leaves their rows as their own request needs. *)

\* The rows of u in o after a step that is not about them: at most an
\* invitation that has run out is marked.
Untouched(o, u) ==
  /\ member'[o][u] = member[o][u]
  /\ Pending(o, u)' \subseteq Pending(o, u)
  /\ \A i \in Invites :
       /\ invitation[i].status # "none"
       /\ invitation[i].org = o /\ invitation[i].email = u
       => /\ invitation[i].expired => invitation'[i].expired
          /\ \/ invitation'[i].status = invitation[i].status
             \/ invitation'[i].status = "EXPIRED" /\ invitation'[i].expired

LEMMA OneWaySurvives ==
  ASSUME NEW o, NEW u, OneWay(o, u), Untouched(o, u)
  PROVE  OneWay(o, u)'
<1>1. \A i \in Pending(o, u)' :
        member'[o][u] = "none" /\ Pending(o, u) = {i} /\ Pending(o, u)' = {i}
  BY DEF OneWay, Untouched
<1>2. QED
  BY <1>1 DEF OneWay

LEMMA ReadsSurvive ==
  ASSUME IInv, OnRoutes, NEW o, NEW u, Untouched(o, u), NEW r \in Req,
         req'[r] = req[r], IsAbout(req[r], o, u), StillSo(req[r])
  PROVE  StillSo(req[r])'
<1> DEFINE q == req[r]
<1>1. OnRoute(q) /\ RequestOK(q) /\ q.org = o
  BY DEF OnRoutes, IInv, RequestsOK, IsAbout
<1>2. CASE q.pc \in {"findPending", "supersede", "createInvite", "writeRole", "deleteMember"}
  <2>1. q.target = u
    BY <1>1, <1>2 DEF OnRoute, IsAbout, TargetOps, ManageOps
  <2>2. Pending(q.org, q.target)' \subseteq Pending(q.org, q.target)
    BY <1>1, <2>1 DEF Untouched
  <2>3. member'[q.org][q.target] = member[q.org][q.target]
    BY <1>1, <2>1 DEF Untouched
  <2>4. Pending(req[r].org, req[r].target)' = Pending(q.org, q.target)'
    OBVIOUS
  <2>5. QED
    BY <1>2, <2>2, <2>3, <2>4 DEF StillSo
<1>3. CASE q.pc = "admit"
  <2>1. q.actor = u
    BY <1>1, <1>3 DEF OnRoute, IsAbout, TargetOps, ManageOps
  <2>2. /\ q.inv \in Invites /\ invitation[q.inv].status # "none"
        /\ invitation[q.inv].org = o /\ invitation[q.inv].email = u
    BY <1>1, <1>3, <2>1 DEF RequestOK, InviteSteps
  <2>3. Pending(q.org, q.actor)' \subseteq Pending(q.org, q.actor)
    BY <1>1, <2>1 DEF Untouched
  <2>4. \/ invitation'[q.inv].status = "PENDING"
        \/ invitation'[q.inv].status = "EXPIRED" /\ invitation'[q.inv].expired
    BY <1>3, <2>2 DEF StillSo, Untouched
  <2>5. QED
    BY <1>3, <2>3, <2>4 DEF StillSo
<1>4. CASE q.pc \notin {"findPending", "supersede", "createInvite", "writeRole",
                        "deleteMember", "admit"}
  BY <1>4 DEF StillSo
<1>5. QED
  BY <1>2, <1>3, <1>4

LEMMA RowsUntouched ==
  ASSUME NEW o, NEW u, UNCHANGED <<member, invitation>>
  PROVE  Untouched(o, u)
  BY DEF Untouched, Pending

\* A request about somebody else.
LEMMA OthersLeaveAlone ==
  ASSUME IInv, NEW o \in Orgs, NEW u \in Users, NEW r \in Req, RequestStep(r),
         OnRoute(req[r]), KnowsItsRows(req[r]), ~IsAbout(req[r], o, u)
  PROVE  Untouched(o, u)
<1> DEFINE q == req[r]
<1>1. RequestOK(q)
  BY DEF IInv, RequestsOK
<1>2. CASE UNCHANGED <<member, invitation>>
  BY <1>2, RowsUntouched
<1>3. CASE UpdateMemberRole(r) \/ RemoveMember(r)
  <2>1. /\ q.org \in Orgs /\ q.target \in Users /\ q.op \in ManageOps
        /\ UNCHANGED invitation
    BY <1>1, <1>3
       DEF UpdateMemberRole, RemoveMember, RequestOK, TargetSteps, OnRoute, ManageOps
  <2>2. o # q.org \/ u # q.target
    BY <2>1 DEF IsAbout, TargetOps
  <2>3. member'[o][u] = member[o][u]
    BY <1>3, <2>1, <2>2 DEF UpdateMemberRole, RemoveMember, IInv, TypeOK
  <2>4. QED
    BY <2>1, <2>3 DEF Untouched, Pending
<1>4. CASE Supersede(r) \/ MarkExpired(r)
  <2>1. /\ q.inv \in Invites /\ UNCHANGED member
        /\ invitation' = [invitation EXCEPT ![q.inv].status = "EXPIRED"]
    BY <1>1, <1>4 DEF Supersede, MarkExpired, RequestOK, InviteSteps
  <2>2. \A i \in Invites :
          /\ invitation'[i].status = IF i = q.inv THEN "EXPIRED" ELSE invitation[i].status
          /\ invitation'[i].org = invitation[i].org
          /\ invitation'[i].email = invitation[i].email
          /\ invitation'[i].expired = invitation[i].expired
    BY <2>1 DEF IInv, TypeOK, InvitationRow
  <2>3. \/ invitation[q.inv].expired
        \/ invitation[q.inv].org # o \/ invitation[q.inv].email # u
    BY <1>4 DEF Supersede, MarkExpired, KnowsItsRows, OnRoute, IsAbout, TargetOps
  <2>4. Pending(o, u)' \subseteq Pending(o, u)
    BY <2>2 DEF Pending
  <2>5. QED
    BY <2>1, <2>2, <2>3, <2>4 DEF Untouched
<1>5. CASE CreateInvitation(r)
  <2>1. PICK i \in Invites :
          /\ invitation[i].status = "none"
          /\ invitation' = [invitation EXCEPT ![i] =
               [org |-> q.org, email |-> q.target, role |-> q.role,
                status |-> "PENDING", expired |-> FALSE]]
    BY <1>5 DEF CreateInvitation
  <2>2. /\ \A j \in Invites \ {i} : invitation'[j] = invitation[j]
        /\ invitation'[i].org = q.org /\ invitation'[i].email = q.target
        /\ member' = member /\ q.op = "invite"
    BY <1>5, <2>1 DEF CreateInvitation, IInv, TypeOK, OnRoute
  <2>3. o # q.org \/ u # q.target
    BY <2>2 DEF IsAbout, TargetOps
  <2>4. Pending(o, u)' \subseteq Pending(o, u)
    BY <2>2, <2>3 DEF Pending
  <2>5. QED
    BY <2>1, <2>2, <2>4 DEF Untouched
<1>6. CASE Admit(r)
  <2>1. /\ q.inv \in Invites /\ q.op = "accept"
        /\ invitation[q.inv].org = q.org /\ invitation[q.inv].email = q.actor
        /\ q.org \in Orgs /\ q.actor \in Users
    BY <1>1, <1>6 DEF Admit, RequestOK, InviteSteps, OnRoute
  <2>2. o # q.org \/ u # q.actor
    BY <2>1 DEF IsAbout
  <2>3. CASE UNCHANGED <<member, invitation>>
    BY <2>3, RowsUntouched
  <2>4. CASE /\ member' = [member EXCEPT ![q.org][q.actor] = q.role]
             /\ invitation' = [invitation EXCEPT ![q.inv].status = "ACCEPTED"]
    <3>1. member'[o][u] = member[o][u]
      BY <2>1, <2>2, <2>4 DEF IInv, TypeOK
    <3>2. \A i \in Invites :
            /\ i # q.inv => invitation'[i] = invitation[i]
            /\ invitation'[i].org = invitation[i].org
            /\ invitation'[i].email = invitation[i].email
      BY <2>1, <2>4 DEF IInv, TypeOK, InvitationRow
    <3>3. QED
      BY <2>1, <2>2, <3>1, <3>2 DEF Untouched, Pending
  <2>5. QED
    BY <1>6, <2>3, <2>4 DEF Admit
<1>7. QED
  BY <1>2, <1>3, <1>4, <1>5, <1>6
  DEF RequestStep, OpenGated, LoadMembership, UpdateOrganization, ReadOwner, SoftDelete,
      ReadTarget, CheckInvitee, FindPending, OpenAccept, Abort, tables

\* The timer marks what has run out, and nothing else.
LEMMA TimerLeavesAlone ==
  ASSUME IInv, NEW o, NEW u,
         CleanupExpiredInvitations \/ \E i \in Invites : InvitationLapses(i)
  PROVE  Untouched(o, u)
<1>1. ASSUME NEW i \in Invites, InvitationLapses(i)
      PROVE  Untouched(o, u)
  <2>1. \A j \in Invites :
          /\ invitation'[j].org = invitation[j].org
          /\ invitation'[j].email = invitation[j].email
          /\ invitation[j].expired => invitation'[j].expired
          /\ invitation'[j].status = invitation[j].status
    BY <1>1 DEF InvitationLapses, IInv, TypeOK, InvitationRow
  <2>2. QED
    BY <1>1, <2>1 DEF InvitationLapses, Untouched, Pending
<1>2. CASE CleanupExpiredInvitations
  <2>1. \A j \in Invites :
          /\ invitation'[j].org = invitation[j].org
          /\ invitation'[j].email = invitation[j].email
          /\ invitation[j].expired => invitation'[j].expired
          /\ \/ invitation'[j].status = invitation[j].status
             \/ /\ invitation[j].status = "PENDING" /\ invitation[j].expired
                /\ invitation'[j].status = "EXPIRED"
    BY <1>2 DEF CleanupExpiredInvitations, Lapsed, IInv, TypeOK, InvitationRow
  <2>2. QED
    BY <1>2, <2>1 DEF CleanupExpiredInvitations, Untouched, Pending
<1>3. QED
  BY <1>1, <1>2

-----------------------------------------------------------------------------
(* A request about u in o.                                                 *)

\* A request that reads finds what OneWay says.
LEMMA ReadsAreTrue ==
  ASSUME IInv, NEW o, NEW u, OneWay(o, u), NEW r \in Req, RequestStep(r),
         OnRoute(req[r]), KnowsItsRows(req[r]),
         IsAbout(req[r], o, u) => StillSo(req[r]),
         IsAbout(req[r], o, u)'
  PROVE  StillSo(req[r])'
<1> DEFINE q == req[r]
<1>1. req'[r] # IdleReq
  BY DEF IsAbout, IdleReq, TargetOps, ManageOps
<1>2. ASSUME NEW op \in GatedOps, NEW v \in Users, NEW p \in Orgs, OpenGated(r, op, v, p)
      PROVE  StillSo(req[r])'
  BY <1>2, OpenedGated DEF StillSo
<1>3. ASSUME NEW v \in Users, NEW i \in Invites, OpenAccept(r, v, i)
      PROVE  StillSo(req[r])'
  <2> DEFINE row == invitation[i]
  <2>1. /\ req'[r].pc = IF row.expired THEN "markExpired" ELSE "admit"
        /\ req'[r].op = "accept"
        /\ req'[r].actor = v /\ req'[r].inv = i /\ req'[r].org = row.org
        /\ row.status = "PENDING" /\ (row.expired \/ row.email = v)
        /\ UNCHANGED tables
    BY <1>3, OpenedAccept DEF Acceptable
  <2>2. o = row.org /\ u = v
    BY <2>1 DEF IsAbout, TargetOps, ManageOps
  <2>3. ~row.expired => Pending(o, u) \subseteq {i}
    BY <2>1, <2>2 DEF OneWay, Pending
  <2>4. ~row.expired => Pending(req[r].org, req[r].actor)' \subseteq {i}
    BY <2>1, <2>2, <2>3 DEF Pending, tables
  <2>5. QED
    BY <2>1, <2>4 DEF StillSo, tables
<1>4. MovesOn(q, req'[r]) => StillSo(q)
  BY DEF IsAbout, MovesOn
<1>5. CASE LoadMembership(r)
  <2>1. req'[r].pc = ServiceEntry(q.op) /\ q.op \in GatedOps
    BY <1>1, <1>5, PassedTheGate
  <2>2. req'[r].pc \in {"writeOrg", "readOwner", "readTarget", "checkInvitee"}
    BY <2>1 DEF ServiceEntry, GatedOps, ManageOps
  <2>3. QED
    BY <2>2 DEF StillSo
<1>6. CASE ReadTarget(r)
  <2> DEFINE current == member[q.org][q.target]
  <2>1. /\ MovesOn(q, req'[r]) /\ req'[r].mrole = q.mrole
        /\ req'[r].pc \in {"writeRole", "deleteMember"}
        /\ current \notin {"none", "OWNER"}
        /\ ~(q.mrole = "ADMIN" /\ current = "ADMIN")
        /\ current \in Roles /\ UNCHANGED tables
    BY <1>1, <1>6, TargetWasRead
  <2>2. q.mrole = "ADMIN" => current = "MEMBER"
    BY <2>1 DEF Roles
  <2>3. member'[req'[r].org][req'[r].target] = current
    BY <2>1 DEF MovesOn, tables
  <2>4. QED
    BY <2>1, <2>2, <2>3 DEF StillSo
<1>7. CASE ReadOwner(r) /\ Goto(r, "softDelete")
  BY <1>7, GotoMovesOn DEF StillSo
<1>8. CASE CheckInvitee(r) /\ Goto(r, "findPending")
  <2>1. MovesOn(q, req'[r]) /\ req'[r].pc = "findPending" /\ UNCHANGED tables
    BY <1>8, GotoMovesOn DEF CheckInvitee
  <2>2. member[q.org][q.target] = "none"
    BY <1>1, <1>8, FinishIdles DEF CheckInvitee
  <2>3. QED
    BY <2>1, <2>2 DEF StillSo, MovesOn, tables
<1>9. CASE FindPending(r)
  <2> DEFINE i == req'[r].inv
  <2>1. /\ MovesOn(q, req'[r]) /\ q.pc = "findPending" /\ UNCHANGED tables
        /\ \/ req'[r].pc = "supersede" /\ i \in Pending(q.org, q.target)
           \/ req'[r].pc = "createInvite" /\ Pending(q.org, q.target) = {}
    BY <1>9, PendingWasSought
  <2>2. member[q.org][q.target] = "none" /\ IsAbout(q, o, u)
    BY <1>4, <2>1 DEF StillSo, IsAbout, MovesOn
  <2>3. q.org = o /\ q.target = u
    BY <2>1, <2>2 DEF IsAbout, OnRoute
  <2>4. i \in Pending(q.org, q.target) => Pending(q.org, q.target) \subseteq {i}
    BY <2>3 DEF OneWay
  <2>5. /\ req'[r].org = q.org /\ req'[r].target = q.target
        /\ invitation' = invitation /\ member' = member
    BY <2>1 DEF MovesOn, tables
  <2>6. Pending(req[r].org, req[r].target)' = Pending(q.org, q.target)
    BY <2>5 DEF Pending
  <2>7. CASE req'[r].pc = "supersede" /\ i \in Pending(q.org, q.target)
    BY <2>2, <2>4, <2>5, <2>6, <2>7 DEF StillSo
  <2>8. CASE req'[r].pc = "createInvite" /\ Pending(q.org, q.target) = {}
    BY <2>2, <2>5, <2>6, <2>8 DEF StillSo
  <2>9. QED
    BY <2>1, <2>7, <2>8
<1>10. CASE Supersede(r)
  <2>1. /\ MovesOn(q, req'[r]) /\ q.pc = "supersede" /\ req'[r].pc = "createInvite"
    BY <1>10, WasSuperseded
  <2>2. q.inv \in Invites
    BY <2>1 DEF IInv, RequestsOK, RequestOK, InviteSteps
  <2>3. /\ \A i \in Invites :
             /\ invitation'[i].status = IF i = q.inv THEN "EXPIRED" ELSE invitation[i].status
             /\ invitation'[i].org = invitation[i].org
             /\ invitation'[i].email = invitation[i].email
        /\ member' = member
    BY <1>10, <2>2 DEF Supersede, IInv, TypeOK, InvitationRow
  <2>4. Pending(q.org, q.target) \subseteq {q.inv} /\ member[q.org][q.target] = "none"
    BY <1>4, <2>1 DEF StillSo
  <2>5. Pending(req[r].org, req[r].target)' = {}
    BY <2>1, <2>3, <2>4 DEF Pending, MovesOn
  <2>6. QED
    BY <2>1, <2>3, <2>4, <2>5 DEF StillSo, MovesOn
<1>11. QED
  BY <1>1, <1>2, <1>3, <1>5, <1>6, <1>7, <1>8, <1>9, <1>10, StepKinds

\* What a request about them writes keeps their rows as they should be.
LEMMA WritesKeepOneWay ==
  ASSUME IInv, NEW o \in Orgs, NEW u \in Users, OneWay(o, u), NEW r \in Req,
         RequestStep(r), OnRoute(req[r]), IsAbout(req[r], o, u), StillSo(req[r])
  PROVE  OneWay(o, u)'
<1> DEFINE q == req[r]
<1>1. RequestOK(q) /\ q.org = o
  BY DEF IInv, RequestsOK, IsAbout
<1>2. CASE UNCHANGED <<member, invitation>>
  BY <1>2, RowsUntouched, OneWaySurvives
<1>3. CASE UpdateMemberRole(r) \/ RemoveMember(r)
  <2>1. /\ q.target \in Users /\ UNCHANGED invitation
    BY <1>1, <1>3 DEF UpdateMemberRole, RemoveMember, RequestOK, TargetSteps
  <2>2. member[o][u] = "none" => member'[o][u] = "none"
    BY <1>1, <1>3, <2>1 DEF UpdateMemberRole, RemoveMember, IInv, TypeOK
  <2>3. QED
    BY <2>1, <2>2 DEF OneWay, Pending
<1>4. CASE Supersede(r) \/ MarkExpired(r)
  <2>1. /\ q.inv \in Invites /\ UNCHANGED member
        /\ invitation' = [invitation EXCEPT ![q.inv].status = "EXPIRED"]
    BY <1>1, <1>4 DEF Supersede, MarkExpired, RequestOK, InviteSteps
  <2>2. \A i \in Invites :
          /\ invitation'[i].status = IF i = q.inv THEN "EXPIRED" ELSE invitation[i].status
          /\ invitation'[i].org = invitation[i].org
          /\ invitation'[i].email = invitation[i].email
    BY <2>1 DEF IInv, TypeOK, InvitationRow
  <2>3. Pending(o, u)' \subseteq Pending(o, u)
    BY <2>2 DEF Pending
  <2>4. QED
    BY <2>1, <2>3 DEF OneWay
<1>5. CASE CreateInvitation(r)
  <2>1. PICK i \in Invites :
          invitation' = [invitation EXCEPT ![i] =
            [org |-> q.org, email |-> q.target, role |-> q.role,
             status |-> "PENDING", expired |-> FALSE]]
    BY <1>5 DEF CreateInvitation
  <2>2. /\ \A j \in Invites \ {i} : invitation'[j] = invitation[j]
        /\ member' = member /\ q.pc = "createInvite"
    BY <1>5, <2>1 DEF CreateInvitation, IInv, TypeOK
  <2>3. q.target = u
    BY <2>2 DEF IsAbout, OnRoute
  <2>4. Pending(o, u) = {} /\ member[o][u] = "none"
    BY <1>1, <2>2, <2>3 DEF StillSo
  <2>5. Pending(o, u)' \subseteq {i}
    BY <2>2, <2>4 DEF Pending
  <2>6. QED
    BY <2>2, <2>4, <2>5 DEF OneWay
<1>6. CASE Admit(r)
  <2>1. CASE UNCHANGED <<member, invitation>>
    BY <2>1, RowsUntouched, OneWaySurvives
  <2>2. CASE /\ member' = [member EXCEPT ![q.org][q.actor] = q.role]
             /\ invitation' = [invitation EXCEPT ![q.inv].status = "ACCEPTED"]
    <3>1. /\ q.inv \in Invites /\ q.pc = "admit" /\ q.actor = u
      BY <1>1, <1>6 DEF Admit, RequestOK, InviteSteps, OnRoute, IsAbout, TargetOps, ManageOps
    <3>2. \A i \in Invites :
            /\ invitation'[i].status = IF i = q.inv THEN "ACCEPTED" ELSE invitation[i].status
            /\ invitation'[i].org = invitation[i].org
            /\ invitation'[i].email = invitation[i].email
      BY <2>2, <3>1 DEF IInv, TypeOK, InvitationRow
    <3>3. Pending(o, u) \subseteq {q.inv}
      BY <1>1, <3>1 DEF StillSo
    <3>4. Pending(o, u)' = {}
      BY <3>2, <3>3 DEF Pending
    <3>5. QED
      BY <3>4 DEF OneWay
  <2>3. QED
    BY <1>6, <2>1, <2>2 DEF Admit
<1>7. QED
  BY <1>2, <1>3, <1>4, <1>5, <1>6
  DEF RequestStep, OpenGated, LoadMembership, UpdateOrganization, ReadOwner, SoftDelete,
      ReadTarget, CheckInvitee, FindPending, OpenAccept, Abort, tables

-----------------------------------------------------------------------------

\* What every request knows of its rows stays true, or is read in the step.
LEMMA RowsStayKnown ==
  ASSUME IInv, OnRoutes, \A r \in Req : KnowsItsRows(req[r]), [Next]_vars,
         NEW r \in Req
  PROVE  KnowsItsRows(req[r])'
<1> DEFINE q == req[r]
<1>1. OnRoute(q) /\ RequestOK(q) /\ KnowsItsRows(q)
  BY DEF OnRoutes, IInv, RequestsOK
<1>2. CASE req'[r] = q
  <2>1. q.pc \in InviteSteps => q.inv \in Invites /\ invitation[q.inv].status # "none"
    BY <1>1 DEF RequestOK
  <2>2. q.pc \in InviteSteps =>
          /\ invitation'[q.inv].org = invitation[q.inv].org
          /\ invitation'[q.inv].email = invitation[q.inv].email
          /\ invitation[q.inv].expired => invitation'[q.inv].expired
    BY <2>1, InvitationsStay
  <2>3. QED
    BY <1>1, <1>2, <2>2 DEF KnowsItsRows, InviteSteps
<1>3. CASE req'[r] = IdleReq
  BY <1>3 DEF KnowsItsRows, IdleReq
<1>4. CASE RequestStep(r) /\ req'[r] # IdleReq
  <2>1. ASSUME NEW op \in GatedOps, NEW v \in Users, NEW p \in Orgs, OpenGated(r, op, v, p)
        PROVE  KnowsItsRows(req[r])'
    BY <2>1, OpenedGated DEF KnowsItsRows
  <2>2. ASSUME NEW v \in Users, NEW i \in Invites, OpenAccept(r, v, i)
        PROVE  KnowsItsRows(req[r])'
    <3>1. /\ req'[r].pc = IF invitation[i].expired THEN "markExpired" ELSE "admit"
          /\ req'[r].inv = i /\ UNCHANGED tables
      BY <2>2, OpenedAccept
    <3>2. QED
      BY <3>1 DEF KnowsItsRows, tables
  <2>3. CASE LoadMembership(r)
    <3>1. /\ req'[r].pc = ServiceEntry(q.op) /\ q.op \in GatedOps
          /\ q.op \in ManageOps => req'[r].mrole \in AllowedRoles(q.op)
      BY <1>4, <2>3, PassedTheGate DEF Admissible
    <3>2. /\ req'[r].pc \in {"writeOrg", "readOwner", "readTarget", "checkInvitee"}
          /\ req'[r].pc = "readTarget" => req'[r].mrole \in {"OWNER", "ADMIN"}
      BY <3>1 DEF ServiceEntry, GatedOps, ManageOps, AllowedRoles
    <3>3. QED
      BY <3>2 DEF KnowsItsRows
  <2>4. CASE ReadTarget(r)
    <3>1. /\ req'[r].mrole = q.mrole /\ req'[r].pc \in {"writeRole", "deleteMember"}
          /\ q.pc = "readTarget"
      BY <1>4, <2>4, TargetWasRead
    <3>2. QED
      BY <1>1, <3>1 DEF KnowsItsRows
  <2>5. CASE ReadOwner(r) /\ Goto(r, "softDelete")
    BY <2>5, GotoMovesOn DEF KnowsItsRows
  <2>6. CASE CheckInvitee(r) /\ Goto(r, "findPending")
    BY <2>6, GotoMovesOn DEF KnowsItsRows
  <2>7. CASE FindPending(r)
    <3>1. /\ MovesOn(q, req'[r]) /\ UNCHANGED tables
          /\ \/ /\ req'[r].pc = "supersede"
                /\ req'[r].inv \in Pending(q.org, q.target)
             \/ req'[r].pc = "createInvite"
      BY <2>7, PendingWasSought
    <3>2. QED
      BY <3>1 DEF KnowsItsRows, Pending, MovesOn, tables
  <2>8. CASE Supersede(r)
    BY <2>8, WasSuperseded DEF KnowsItsRows
  <2>9. QED
    BY <1>4, <2>1, <2>2, <2>3, <2>4, <2>5, <2>6, <2>7, <2>8, StepKinds
<1>5. QED
  BY <1>2, <1>3, <1>4, RequestsMoveThemselves

\* Founding an organization: nobody was invited to it, no request is about it.
LEMMA FoundingKeepsApart ==
  ASSUME IInv, OnRoutes, NEW v \in Users, NEW p \in Orgs, CreateOrganization(v, p),
         NEW o \in Orgs, NEW u \in Users, OneWay(o, u),
         \A r \in Req : IsAbout(req[r], o, u) => StillSo(req[r])
  PROVE  /\ OneWay(o, u)'
         /\ \A r \in Req : IsAbout(req[r], o, u)' => StillSo(req[r])'
<1>1. UNCHANGED <<invitation, req>> /\ ~Exists(p)
  BY DEF CreateOrganization
<1>2. CASE p # o
  <2>1. member'[o][u] = member[o][u]
    BY <1>2 DEF CreateOrganization, IInv, TypeOK
  <2>2. Untouched(o, u)
    BY <1>1, <2>1 DEF Untouched, Pending
  <2>3. QED
    BY <1>1, <2>2, OneWaySurvives, ReadsSurvive DEF IsAbout
<1>3. CASE p = o
  <2>1. Pending(o, u)' = {}
    BY <1>1, <1>3 DEF Pending, IInv, RowsAreLinked
  <2>2. ASSUME NEW r \in Req, IsAbout(req[r], o, u)' PROVE FALSE
    <3>1. req[r].pc # "idle" /\ req[r].org = o
      BY <1>1, <2>2 DEF OnRoutes, OnRoute, IsAbout, TargetOps, ManageOps
    <3>2. Exists(o)
      BY <3>1 DEF IInv, RequestsOK, RequestOK
    <3>3. QED
      BY <1>1, <1>3, <3>2
  <2>3. QED
    BY <2>1, <2>2 DEF OneWay
<1>4. QED
  BY <1>2, <1>3

LEMMA ApartInitInv == CInit => ApartInv
<1> SUFFICES ASSUME CInit PROVE ApartInv
  OBVIOUS
<1>1. IInv /\ OnRoutes
  BY InitEstablishes, RoutesAtFirst DEF CInit
<1>2. \A r \in Req : KnowsItsRows(req[r]) /\ StillSo(req[r])
  BY DEF CInit, Init, IdleReq, KnowsItsRows, StillSo
<1>3. \A o \in Orgs, u \in Users : OneWay(o, u)
  BY DEF CInit, Init, NoInvitation, OneWay, Pending
<1>4. Crowds = {}
  BY DEF CInit, Init, IdleReq, Crowds, IsAbout, TargetOps, ManageOps
<1>5. QED
  BY <1>1, <1>2, <1>3, <1>4 DEF ApartInv

LEMMA ApartNextInv ==
  ASSUME ApartInv, [CNext]_cvars
  PROVE  ApartInv'
<1>1. [Next]_vars
  BY DEF CNext, cvars, vars
<1>2. IInv' /\ OnRoutes'
  BY <1>1, NextStep, RoutesKept DEF ApartInv
<1>3. \A r \in Req : KnowsItsRows(req[r])'
  BY <1>1, RowsStayKnown DEF ApartInv
<1>4. crowded \subseteq crowded' /\ Crowds' \subseteq crowded'
  <2>1. CASE CNext
    BY <2>1 DEF CNext
  <2>2. CASE UNCHANGED cvars
    BY <2>2 DEF cvars, ApartInv, Crowds, IsAbout
  <2>3. QED
    BY <2>1, <2>2
<1>5. ASSUME NEW o \in Orgs, NEW u \in Users, <<o, u>> \notin crowded'
      PROVE  /\ OneWay(o, u)'
             /\ \A r \in Req : IsAbout(req[r], o, u)' => StillSo(req[r])'
  <2>1. /\ IInv /\ OnRoutes /\ \A r \in Req : OnRoute(req[r]) /\ KnowsItsRows(req[r])
        /\ OneWay(o, u)
        /\ \A r \in Req : IsAbout(req[r], o, u) => StillSo(req[r])
    BY <1>4, <1>5 DEF ApartInv, OnRoutes
  <2>2. \A r, s \in Req : IsAbout(req[r], o, u) /\ IsAbout(req[s], o, u) => r = s
    BY <1>4, <1>5 DEF ApartInv, Crowds
  <2>3. ASSUME Untouched(o, u), req' = req
        PROVE  /\ OneWay(o, u)'
               /\ \A r \in Req : IsAbout(req[r], o, u)' => StillSo(req[r])'
    BY <2>1, <2>3, OneWaySurvives, ReadsSurvive DEF IsAbout
  <2>4. CASE UNCHANGED vars
    BY <2>3, <2>4, RowsUntouched DEF vars
  <2>5. ASSUME NEW r \in Req, RequestStep(r)
        PROVE  /\ OneWay(o, u)'
               /\ \A s \in Req : IsAbout(req[s], o, u)' => StillSo(req[s])'
    <3>1. ~IsAbout(req[r], o, u) => Untouched(o, u)
      BY <2>1, <2>5, OthersLeaveAlone
    <3>2. OneWay(o, u)'
      BY <2>1, <2>5, <3>1, OneWaySurvives, WritesKeepOneWay
    <3>3. ASSUME NEW s \in Req, IsAbout(req[s], o, u)'
          PROVE  StillSo(req[s])'
      <4>1. CASE s = r
        BY <2>1, <2>5, <3>3, <4>1, ReadsAreTrue
      <4>2. CASE s # r
        <5>1. req'[s] = req[s]
          BY <2>1, <2>5, <4>2, OneMoves
        <5>2. IsAbout(req[s], o, u)
          BY <3>3, <5>1 DEF IsAbout
        <5>3. Untouched(o, u)
          BY <2>2, <3>1, <4>2, <5>2
        <5>4. QED
          BY <2>1, <5>1, <5>2, <5>3, ReadsSurvive
      <4>3. QED
        BY <4>1, <4>2
    <3>4. QED
      BY <3>2, <3>3
  <2>6. ASSUME NEW v \in Users, NEW p \in Orgs, CreateOrganization(v, p)
        PROVE  /\ OneWay(o, u)'
               /\ \A r \in Req : IsAbout(req[r], o, u)' => StillSo(req[r])'
    BY <2>1, <2>6, FoundingKeepsApart
  <2>7. CASE CleanupExpiredInvitations \/ \E i \in Invites : InvitationLapses(i)
    BY <2>1, <2>3, <2>7, TimerLeavesAlone DEF CleanupExpiredInvitations, InvitationLapses
  <2>8. QED
    BY <1>1, <2>4, <2>5, <2>6, <2>7 DEF Next
<1>6. QED
  BY <1>2, <1>3, <1>4, <1>5 DEF ApartInv

\* Of everybody about whom no two requests have overlapped, what a request
\* has read is still true when it writes, however many others are in flight.
LEMMA ApartInvariant == CSpec => []ApartInv
  BY ApartInitInv, ApartNextInv, PTL DEF CSpec

\* An address has at most one live token for an organization, and none when
\* its user is a member, unless two requests about that user and organization
\* have overlapped (inviteUser supersedes, acceptInvitation uses up).
THEOREM OneTokenPerAddress == CSpec => []OneWayInApart
<1>1. ApartInv => OneWayInApart
  BY DEF ApartInv, OneWayInApart
<1>2. QED
  BY <1>1, ApartInvariant, PTL

\* Which request writes, and at which step.
LEMMA WritesAreSteps ==
  ASSUME ApartInv, [CNext]_cvars, NEW r \in Req, Writes(r)
  PROVE  LET q == req[r]
         IN /\ OnRoute(q) /\ q.org \in Orgs /\ q.actor \in Users
            /\ q.op \in ManageOps => /\ q.pc \in {"writeRole", "deleteMember"}
                                     /\ q.target \in Users
            /\ q.op = "accept" /\ member' # member => q.pc = "admit"
<1>1. IInv /\ OnRoute(req[r]) /\ RequestOK(req[r]) /\ [Next]_vars
  BY DEF ApartInv, OnRoutes, IInv, RequestsOK, CNext, cvars, vars
<1>2. RequestStep(r)
  BY <1>1, RequestsMoveThemselves DEF Writes
<1>3. \/ UpdateOrganization(r) \/ SoftDelete(r) \/ UpdateMemberRole(r)
      \/ RemoveMember(r) \/ Supersede(r) \/ CreateInvitation(r)
      \/ MarkExpired(r) \/ Admit(r)
  BY <1>2 DEF Writes, RequestStep, OpenGated, LoadMembership, ReadOwner, ReadTarget,
              CheckInvitee, FindPending, OpenAccept, Abort
<1>4. /\ req[r].pc \in {"writeOrg", "softDelete", "writeRole", "deleteMember",
                        "supersede", "createInvite", "markExpired", "admit"}
      /\ req[r].pc = "markExpired" => member' = member
  BY <1>3 DEF UpdateOrganization, SoftDelete, UpdateMemberRole, RemoveMember,
              Supersede, CreateInvitation, MarkExpired, Admit
<1>5. QED
  BY <1>1, <1>4 DEF OnRoute, ManageOps, RequestOK, TargetSteps

\* A token that was superseded or used admits nobody about whom no two
\* requests have overlapped: the hourly job may only retire it for its age.
THEOREM DeadTokensAreRefused == CSpec => DeadTokensAdmitNobodyApart
<1>1. ASSUME ApartInv, [CNext]_cvars
      PROVE  [\A r \in Req :
                LET row == invitation[req[r].inv]
                IN Admits(r) /\ <<req[r].org, req[r].actor>> \notin crowded =>
                     ~ \/ row.status = "ACCEPTED"
                       \/ row.status = "EXPIRED" /\ ~row.expired]_cvars
  <2>1. ASSUME NEW r \in Req, Admits(r), <<req[r].org, req[r].actor>> \notin crowded
        PROVE  LET row == invitation[req[r].inv]
               IN ~ \/ row.status = "ACCEPTED"
                    \/ row.status = "EXPIRED" /\ ~row.expired
    <3>1. /\ req[r].pc = "admit" /\ req[r].op = "accept"
          /\ req[r].org \in Orgs /\ req[r].actor \in Users
      BY <1>1, <2>1, WritesAreSteps DEF Admits
    <3>2. StillSo(req[r])
      BY <1>1, <2>1, <3>1 DEF ApartInv, IsAbout
    <3>3. QED
      BY <3>1, <3>2 DEF StillSo
  <2>2. QED
    BY <2>1
<1>2. QED
  BY <1>1, ApartInvariant, PTL DEF CSpec, DeadTokensAdmitNobodyApart

\* Unless two requests about somebody have overlapped, an admin only regrades
\* or removes him while he is a plain member (updateMemberRole, removeMember).
THEOREM AdminsLeaveAdminsAlone == CSpec => AdminsSpareAdminsApart
<1>1. ASSUME ApartInv, [CNext]_cvars
      PROVE  [\A r \in Req :
                /\ Writes(r)
                /\ req[r].op \in ManageOps
                /\ req[r].mrole = "ADMIN"
                /\ <<req[r].org, req[r].target>> \notin crowded
                => member[req[r].org][req[r].target] = "MEMBER"]_cvars
  <2>1. ASSUME NEW r \in Req, Writes(r), req[r].op \in ManageOps, req[r].mrole = "ADMIN",
               <<req[r].org, req[r].target>> \notin crowded
        PROVE  member[req[r].org][req[r].target] = "MEMBER"
    <3>1. /\ req[r].pc \in {"writeRole", "deleteMember"}
          /\ req[r].org \in Orgs /\ req[r].target \in Users
      BY <1>1, <2>1, WritesAreSteps
    <3>2. StillSo(req[r])
      BY <1>1, <2>1, <3>1 DEF ApartInv, IsAbout, TargetOps
    <3>3. QED
      BY <2>1, <3>1, <3>2 DEF StillSo
  <2>2. QED
    BY <2>1
<1>2. QED
  BY <1>1, ApartInvariant, PTL DEF CSpec, AdminsSpareAdminsApart
=============================================================================
