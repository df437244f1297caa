---------------------------- MODULE ProjectProofs ----------------------------
(***************************************************************************)
(* Proofs about Projects for every set of organizations, users, projects   *)
(* and request slots.                                                      *)
(***************************************************************************)
EXTENDS Projects, TLAPS

ProjectRequests ==
  [pc : {"idle", "membership", "insert", "find", "write"},
   op : ProjectOps \cup {"none"}, actor : Users \cup {NULL},
   org : Orgs \cup {NULL}, project : ProjectIds \cup {NULL}]

ProjectRows == [org : Orgs, status : Statuses] \cup {Unused, Deleted}

LEMMA TypesOfPInv ==
  ASSUME PInv
  PROVE  /\ owner \in [Orgs -> Users \cup {NULL}]
         /\ role \in [Orgs -> [Users -> Roles \cup {"none"}]]
         /\ open \in [Orgs -> BOOLEAN]
         /\ project \in [ProjectIds -> ProjectRows]
         /\ req \in [Req -> ProjectRequests]
         /\ seen \in [Req -> [permitted : BOOLEAN, open : BOOLEAN]]
  BY DEF PInv, PTypeOK, ProjectRows, ProjectRequests

\* The roles the project routes let through have the published permission.
LEMMA RoutesMatchTheMatrix ==
  ASSUME NEW op \in ProjectOps, NEW x \in ProjectRoles(op)
  PROVE  ProjectPermission[op] \in Capabilities(x)
<1>1. x \in {"OWNER", "ADMIN", "MEMBER"} /\ (op # "get" => x # "MEMBER")
  BY DEF ProjectRoles, Roles
<1>2. /\ ProjectPermission[op] \in {"project:create", "project:read", "project:update", "project:delete"}
      /\ op = "get" => ProjectPermission[op] = "project:read"
  BY DEF ProjectOps, ProjectPermission
<1>3. CASE x = "OWNER"
  BY <1>2, <1>3 DEF Capabilities, AdminCapabilities, MemberCapabilities
<1>4. CASE x = "ADMIN"
  BY <1>2, <1>4 DEF Capabilities, AdminCapabilities, MemberCapabilities
<1>5. CASE x = "MEMBER"
  BY <1>1, <1>2, <1>5 DEF Capabilities, MemberCapabilities
<1>6. QED
  BY <1>1, <1>3, <1>4, <1>5

-----------------------------------------------------------------------------
(* History: what has been true of a request remains so, and what is true    *)
(* of it now becomes part of it.                                           *)

Watched ==
  \A r \in Req :
    /\ seen'[r] \in [permitted : BOOLEAN, open : BOOLEAN]
    /\ req'[r] # IdleReq =>
         /\ seen'[r].permitted <=> seen[r].permitted \/ Facts(req[r])'.permitted
         /\ seen'[r].open <=> seen[r].open \/ Facts(req[r])'.open

LEMMA NextIsWatched ==
  ASSUME PInv, PNext
  PROVE  Watched /\ seen' \in [Req -> [permitted : BOOLEAN, open : BOOLEAN]]
<1>1. seen' = [r \in Req |->
       IF req'[r] = IdleReq THEN NothingSeen
       ELSE [f \in DOMAIN NothingSeen |-> seen[r][f] \/ Facts(req[r])'[f]]]
  BY DEF PNext
<1>2. DOMAIN NothingSeen = {"permitted", "open"}
  BY DEF NothingSeen
<1>3. NothingSeen \in [permitted : BOOLEAN, open : BOOLEAN]
  BY DEF NothingSeen
<1>4. ASSUME NEW r \in Req
      PROVE  /\ seen'[r] \in [permitted : BOOLEAN, open : BOOLEAN]
             /\ req'[r] # IdleReq =>
                  /\ seen'[r].permitted <=> seen[r].permitted \/ Facts(req[r])'.permitted
                  /\ seen'[r].open <=> seen[r].open \/ Facts(req[r])'.open
  <2>1. CASE req'[r] = IdleReq
    BY <1>1, <1>3, <2>1
  <2>2. CASE req'[r] # IdleReq
    <3>1. seen'[r] = [f \in {"permitted", "open"} |-> seen[r][f] \/ Facts(req[r])'[f]]
      BY <1>1, <1>2, <2>2
    <3>2. seen'[r] \in [permitted : BOOLEAN, open : BOOLEAN]
      BY <3>1
    <3>3. QED
      BY <3>1, <3>2
  <2>3. QED
    BY <2>1, <2>2
<1>5. QED
  BY <1>1, <1>4 DEF Watched

-----------------------------------------------------------------------------
(* Two kinds of step: one request moves, or the organizations do.          *)

\* Once created, a project stays where it is or goes.
ProjectsKept ==
  /\ project' \in [ProjectIds -> ProjectRows]
  /\ \A p \in ProjectIds : project[p] # Unused =>
       project'[p] # Unused /\ project'[p].org \in {project[p].org, NULL}

LEMMA ProjectsUnchanged ==
  ASSUME PInv, UNCHANGED project
  PROVE  ProjectsKept
  BY TypesOfPInv DEF ProjectsKept

LEMMA IdleIsOK ==
  ASSUME NEW r \in Req, req[r] = IdleReq
  PROVE  WriteOK(r)
  BY DEF WriteOK, IdleReq

LEMMA OthersWriteOK ==
  ASSUME PInv, Watched, ProjectsKept, NEW r \in Req, req'[r] = req[r]
  PROVE  WriteOK(r)'
<1>1. WriteOK(r) /\ req[r] \in ProjectRequests
  BY TypesOfPInv DEF PInv
<1>2. CASE req[r].pc = "idle"
  BY <1>2 DEF WriteOK
<1>3. CASE req[r].pc # "idle"
  <2>1. req'[r] # IdleReq
    BY <1>3 DEF IdleReq
  <2>2. seen[r].open => seen'[r].open
    BY <2>1 DEF Watched
  <2>3. seen[r].permitted => seen'[r].permitted
    BY <2>1 DEF Watched
  <2>4. req[r].pc = "write" => req[r].project \in ProjectIds
    BY <1>1 DEF WriteOK
  <2>5. req[r].pc = "write" =>
          /\ project'[req[r].project] # Unused
          /\ project'[req[r].project].org \in {req[r].org, NULL}
    BY <1>1, <2>4 DEF WriteOK, ProjectsKept
  <2>6. QED
    BY <1>1, <2>2, <2>3, <2>5 DEF WriteOK
<1>4. QED
  BY <1>2, <1>3

LEMMA OneProjectRequest ==
  ASSUME PInv, PNext, ProjectsKept, UNCHANGED ovars,
         NEW r \in Req, NEW q \in ProjectRequests,
         req' = [req EXCEPT ![r] = q],
         WriteOK(r)'
  PROVE  PInv'
<1>1. Watched /\ seen' \in [Req -> [permitted : BOOLEAN, open : BOOLEAN]]
  BY NextIsWatched
<1>2. req' \in [Req -> ProjectRequests]
  BY TypesOfPInv
<1>3. \A s \in Req \ {r} : req'[s] = req[s]
  BY TypesOfPInv
<1>4. \A s \in Req : WriteOK(s)'
  BY <1>1, <1>3, OthersWriteOK
<1>5. PTypeOK'
  BY <1>1, <1>2, TypesOfPInv DEF PTypeOK, ProjectsKept, ProjectRows, ProjectRequests, ovars
<1>6. QED
  BY <1>4, <1>5 DEF PInv

LEMMA FinishStep ==
  ASSUME PInv, PNext, ProjectsKept, UNCHANGED ovars, NEW r \in Req, Finish(r)
  PROVE  PInv'
<1>1. IdleReq \in ProjectRequests
  BY DEF IdleReq, ProjectRequests
<1>2. req'[r] = IdleReq
  BY TypesOfPInv DEF Finish
<1>3. WriteOK(r)'
  BY <1>2 DEF WriteOK, IdleReq
<1>4. QED
  BY <1>1, <1>3, OneProjectRequest DEF Finish

-----------------------------------------------------------------------------
(* The gate.                                                               *)

LEMMA OpenStep ==
  ASSUME PInv, PNext, UNCHANGED ovars, NEW r \in Req, NEW op \in ProjectOps,
         NEW u \in Users, NEW o \in Orgs, OpenProject(r, op, u, o)
  PROVE  PInv'
<1>1. PICK p \in Named(op) :
        req' = [req EXCEPT ![r] = [pc |-> "membership", op |-> op, actor |-> u,
                                   org |-> o, project |-> p]]
  BY DEF OpenProject
<1> DEFINE q == [pc |-> "membership", op |-> op, actor |-> u, org |-> o, project |-> p]
<1>2. q \in ProjectRequests /\ (op # "create" => p \in ProjectIds)
  BY DEF ProjectRequests, Named
<1>3. req'[r] = q
  BY <1>1, TypesOfPInv
<1>4. seen'[r].open
  <2>1. req'[r] # IdleReq
    BY <1>3 DEF IdleReq
  <2>2. open'[o] = TRUE /\ o # NULL
    BY ProjectsAssumption, TypesOfPInv DEF OpenProject, Available, ovars
  <2>3. req'[r].org = o
    BY <1>3
  <2>4. Facts(req[r])'.open = (req'[r].org # NULL /\ open'[req'[r].org])
    BY DEF Facts
  <2>5. Facts(req[r])'.open
    BY <2>2, <2>3, <2>4
  <2>6. QED
    BY <2>1, <2>5, NextIsWatched DEF Watched
<1>5. WriteOK(r)'
  BY <1>2, <1>3, <1>4 DEF WriteOK
<1>6. QED
  BY <1>1, <1>2, <1>5, ProjectsUnchanged, OneProjectRequest DEF OpenProject

\* What is admitted has been permitted.
LEMMA MembershipStep ==
  ASSUME PInv, PNext, UNCHANGED ovars, NEW r \in Req, LoadMembership(r)
  PROVE  PInv'
<1>1. CASE ~Admissible(req[r])
  BY <1>1, ProjectsUnchanged, FinishStep DEF LoadMembership
<1>2. CASE Admissible(req[r])
  <2> DEFINE l == IF req[r].op = "create" THEN "insert" ELSE "find"
             q == [req[r] EXCEPT !.pc = l]
  <2>1. req' = [req EXCEPT ![r] = q]
    BY <1>2 DEF LoadMembership
  <2>2. req[r] \in ProjectRequests /\ WriteOK(r) /\ req[r].pc = "membership"
    BY TypesOfPInv DEF PInv, LoadMembership
  <2>3. /\ q \in ProjectRequests /\ q.pc = l /\ q.op = req[r].op
        /\ q.actor = req[r].actor /\ q.org = req[r].org /\ q.project = req[r].project
    BY <2>2 DEF ProjectRequests
  <2>4. req'[r] = q
    BY <2>1, TypesOfPInv
  <2>5. l \in {"insert", "find"} /\ (l = "find" <=> req[r].op # "create")
    OBVIOUS
  <2> HIDE DEF q, l
  <2>6. req'[r] # IdleReq
    BY <2>3, <2>4, <2>5 DEF IdleReq
  <2>7. seen'[r].open
    BY <2>2, <2>6, NextIsWatched DEF WriteOK, Watched
  <2>8. seen'[r].permitted
    <3>1. req[r].op \in ProjectOps
      BY <2>2 DEF WriteOK
    <3>2. ProjectPermission[req[r].op] \in Capabilities(role[req[r].org][req[r].actor])
      BY <1>2, <3>1, RoutesMatchTheMatrix DEF Admissible
    <3>3. Facts(req[r])'.permitted
      BY <2>3, <2>4, <3>1, <3>2 DEF Facts, ovars, ProjectOps
    <3>4. QED
      BY <2>6, <3>3, NextIsWatched DEF Watched
  <2>9. WriteOK(r)'
    BY <2>2, <2>3, <2>4, <2>5, <2>7, <2>8 DEF WriteOK
  <2>10. QED
    BY <2>1, <2>3, <2>9, ProjectsUnchanged, OneProjectRequest DEF LoadMembership
<1>3. QED
  BY <1>1, <1>2

-----------------------------------------------------------------------------
(* project.service.js.                                                     *)

LEMMA CreateProjectStep ==
  ASSUME PInv, PNext, UNCHANGED ovars, NEW r \in Req, NEW p \in ProjectIds,
         CreateProject(r, p)
  PROVE  PInv'
<1>1. req[r].org \in Orgs
  BY DEF PInv, WriteOK, CreateProject
<1>2. ProjectsKept
  <2>1. [org |-> req[r].org, status |-> "ACTIVE"] \in ProjectRows
    BY <1>1 DEF ProjectRows, Statuses
  <2>2. project' = [project EXCEPT ![p] = [org |-> req[r].org, status |-> "ACTIVE"]]
    BY DEF CreateProject
  <2>3. project' \in [ProjectIds -> ProjectRows]
    BY <2>1, <2>2, TypesOfPInv
  <2>4. \A x \in ProjectIds : project[x] # Unused => project'[x] = project[x]
    BY <2>2, TypesOfPInv DEF CreateProject
  <2>5. QED
    BY <2>3, <2>4 DEF ProjectsKept
<1>3. QED
  BY <1>2, FinishStep DEF CreateProject

LEMMA FindStep ==
  ASSUME PInv, PNext, UNCHANGED ovars, NEW r \in Req, FindProject(r)
  PROVE  PInv'
<1>1. CASE ~(FoundIn(req[r]) /\ req[r].op # "get")
  BY <1>1, ProjectsUnchanged, FinishStep DEF FindProject
<1>2. CASE FoundIn(req[r]) /\ req[r].op # "get"
  <2> DEFINE q == [req[r] EXCEPT !.pc = "write"]
  <2>1. req' = [req EXCEPT ![r] = q] /\ UNCHANGED project
    BY <1>2 DEF FindProject
  <2>2. req[r] \in ProjectRequests /\ WriteOK(r) /\ req[r].pc = "find"
    BY TypesOfPInv DEF PInv, FindProject
  <2>3. /\ q \in ProjectRequests /\ q.pc = "write" /\ q.op = req[r].op
        /\ q.actor = req[r].actor /\ q.org = req[r].org /\ q.project = req[r].project
    BY <2>2 DEF ProjectRequests
  <2>4. req'[r] = q
    BY <2>1, TypesOfPInv
  <2> HIDE DEF q
  <2>5. req'[r] # IdleReq
    BY <2>3, <2>4 DEF IdleReq
  <2>6. seen'[r].open /\ seen'[r].permitted
    BY <2>2, <2>5, NextIsWatched DEF WriteOK, Watched
  <2>7. /\ req[r].project \in ProjectIds /\ req[r].org \in Orgs
        /\ req[r].op \in {"update", "delete"}
    BY <1>2, <2>2 DEF WriteOK, ProjectOps
  <2>8. /\ project[req[r].project].org = req[r].org
        /\ project[req[r].project] # Unused
    BY <1>2, <2>7, ProjectsAssumption DEF FoundIn, Unused
  <2>9. WriteOK(r)'
    BY <2>1, <2>2, <2>3, <2>4, <2>6, <2>7, <2>8 DEF WriteOK
  <2>10. QED
    BY <2>1, <2>3, <2>9, ProjectsUnchanged, OneProjectRequest
<1>3. QED
  BY <1>1, <1>2

\* The row an update or a deletion finds is the organization's, or is gone.
LEMMA RowAtWrite ==
  ASSUME PInv, NEW r \in Req, req[r].pc = "write"
  PROVE  /\ req[r].project \in ProjectIds /\ req[r].org \in Orgs
         /\ project[req[r].project] \in ProjectRows
         /\ project[req[r].project] # Unused
         /\ project[req[r].project].org \in {req[r].org, NULL}
         /\ project[req[r].project].org = NULL <=> project[req[r].project] = Deleted
<1>1. WriteOK(r)
  BY DEF PInv
<1>2. req[r].project \in ProjectIds /\ req[r].org \in Orgs
  BY <1>1 DEF WriteOK
<1>3. project[req[r].project] \in ProjectRows
  BY <1>2, TypesOfPInv
<1>4. project[req[r].project].org = NULL <=> project[req[r].project] = Deleted
  BY <1>1, <1>3, ProjectsAssumption DEF WriteOK, ProjectRows, Unused, Deleted
<1>5. QED
  BY <1>1, <1>2, <1>3, <1>4 DEF WriteOK

LEMMA UpdateProjectStep ==
  ASSUME PInv, PNext, UNCHANGED ovars, NEW r \in Req, NEW status \in Statuses,
         UpdateProject(r, status)
  PROVE  PInv'
<1>1. CASE project[req[r].project].org = NULL
  BY <1>1, ProjectsUnchanged, FinishStep DEF UpdateProject
<1>2. CASE project[req[r].project].org # NULL
  <2>1. PICK p \in ProjectIds : p = req[r].project
    BY RowAtWrite DEF UpdateProject
  <2>2. project[p] \in [org : Orgs, status : Statuses]
    BY <1>2, <2>1, RowAtWrite DEF UpdateProject, ProjectRows, Deleted
  <2> DEFINE row == [project[p] EXCEPT !.status = status]
  <2>3. row \in ProjectRows /\ row.org = project[p].org /\ row # Unused
    BY <2>2, ProjectsAssumption DEF ProjectRows, Unused
  <2>4. project' = [project EXCEPT ![p] = row]
    BY <1>2, <2>1 DEF UpdateProject
  <2> HIDE DEF row
  <2>5. ProjectsKept
    BY <2>3, <2>4, TypesOfPInv DEF ProjectsKept
  <2>6. QED
    BY <2>5, FinishStep DEF UpdateProject
<1>3. QED
  BY <1>1, <1>2

LEMMA DeleteProjectStep ==
  ASSUME PInv, PNext, UNCHANGED ovars, NEW r \in Req, DeleteProject(r)
  PROVE  PInv'
<1>1. Deleted \in ProjectRows /\ Deleted # Unused /\ Deleted.org = NULL
  BY DEF ProjectRows, Deleted, Unused
<1>2. project' = [project EXCEPT ![req[r].project] = Deleted]
  BY DEF DeleteProject
<1>3. ProjectsKept
  BY <1>1, <1>2, TypesOfPInv DEF ProjectsKept
<1>4. QED
  BY <1>3, FinishStep DEF DeleteProject

LEMMA FailStep ==
  ASSUME PInv, PNext, UNCHANGED ovars, NEW r \in Req, Fail(r)
  PROVE  PInv'
  BY ProjectsUnchanged, FinishStep DEF Fail

-----------------------------------------------------------------------------
(* Organizations change.                                                   *)

LEMMA OwnershipTypes ==
  ASSUME PInv, OwnNext
  PROVE  /\ owner' \in [Orgs -> Users \cup {NULL}]
         /\ role' \in [Orgs -> [Users -> Roles \cup {"none"}]]
         /\ open' \in [Orgs -> BOOLEAN]
<1>1. GrantableRoles \subseteq Roles /\ "OWNER" \in Roles
  BY DEF GrantableRoles, Roles
<1>2. ASSUME NEW o \in Orgs, NEW u \in Users, NEW x \in Roles \cup {"none"},
             role' = [role EXCEPT ![o][u] = x]
      PROVE  role' \in [Orgs -> [Users -> Roles \cup {"none"}]]
  BY <1>2, TypesOfPInv
<1>3. PICK o \in Orgs :
        \/ \E u \in Users : Found(o, u) \/ Expel(o, u)
        \/ \E u \in Users, x \in GrantableRoles : Join(o, u, x) \/ Regrade(o, u, x)
        \/ Close(o)
  BY DEF OwnNext
<1>4. ASSUME NEW u \in Users, Found(o, u) \/ Expel(o, u)
      PROVE  /\ owner' \in [Orgs -> Users \cup {NULL}]
             /\ role' \in [Orgs -> [Users -> Roles \cup {"none"}]]
             /\ open' \in [Orgs -> BOOLEAN]
  <2>1. role' \in [Orgs -> [Users -> Roles \cup {"none"}]]
    BY <1>1, <1>2, <1>4 DEF Found, Expel
  <2>2. QED
    BY <1>4, <2>1, TypesOfPInv DEF Found, Expel
<1>5. ASSUME NEW u \in Users, NEW x \in GrantableRoles, Join(o, u, x) \/ Regrade(o, u, x)
      PROVE  /\ role' \in [Orgs -> [Users -> Roles \cup {"none"}]]
             /\ UNCHANGED <<owner, open>>
  BY <1>1, <1>2, <1>5 DEF Join, Regrade
<1>6. CASE Close(o)
  BY <1>6, TypesOfPInv DEF Close
<1>7. QED
  BY <1>3, <1>4, <1>5, <1>6, TypesOfPInv

\* Whatever becomes of organizations, members and roles meanwhile, what the
\* requests rely on stays.
LEMMA OwnershipStep ==
  ASSUME PInv, PNext, OwnNext, UNCHANGED <<project, req>>
  PROVE  PInv'
<1>1. \A r \in Req : WriteOK(r)'
  BY NextIsWatched, ProjectsUnchanged, OthersWriteOK
<1>2. PTypeOK'
  BY OwnershipTypes, NextIsWatched, TypesOfPInv DEF PTypeOK, ProjectRows, ProjectRequests
<1>3. QED
  BY <1>1, <1>2 DEF PInv

-----------------------------------------------------------------------------

LEMMA PInitInv == PInit => PInv
<1> SUFFICES ASSUME PInit PROVE PInv
  OBVIOUS
<1>1. NothingSeen \in [permitted : BOOLEAN, open : BOOLEAN]
  BY DEF NothingSeen
<1>2. PTypeOK
  <2>1. project \in [ProjectIds -> [org : Orgs, status : Statuses] \cup {Unused, Deleted}]
    BY DEF PInit, Statuses
  <2>2. QED
    BY <1>1, <2>1 DEF PInit, OwnInit, PTypeOK, IdleReq
<1>3. QED
  BY <1>2, IdleIsOK DEF PInit, PInv

LEMMA ProjectStepInv ==
  ASSUME PInv, PNext, UNCHANGED ovars, NEW r \in Req, ProjectStep(r)
  PROVE  PInv'
<1>1. ASSUME NEW op \in ProjectOps, NEW u \in Users, NEW o \in Orgs, OpenProject(r, op, u, o)
      PROVE  PInv'
  BY <1>1, OpenStep
<1>2. CASE LoadMembership(r)
  BY <1>2, MembershipStep
<1>3. ASSUME NEW p \in ProjectIds, CreateProject(r, p) PROVE PInv'
  BY <1>3, CreateProjectStep
<1>4. CASE FindProject(r)
  BY <1>4, FindStep
<1>5. ASSUME NEW status \in Statuses, UpdateProject(r, status) PROVE PInv'
  BY <1>5, UpdateProjectStep
<1>6. CASE DeleteProject(r)
  BY <1>6, DeleteProjectStep
<1>7. CASE Fail(r)
  BY <1>7, FailStep
<1>8. QED
  BY <1>1, <1>2, <1>3, <1>4, <1>5, <1>6, <1>7 DEF ProjectStep

LEMMA PNextInv ==
  ASSUME PInv, [PNext]_pvars
  PROVE  PInv'
<1>1. CASE UNCHANGED pvars
  BY <1>1 DEF pvars, PInv, PTypeOK, WriteOK
<1>2. CASE PNext
  BY <1>2, OwnershipStep, ProjectStepInv DEF PNext
<1>3. QED
  BY <1>1, <1>2

\* What a project write relies on holds in every state, however requests and
\* changes of the organizations overlap.
THEOREM PInvariant == PSpec => []PInv
<1>1. PInit => PInv
  BY PInitInv
<1>2. PInv /\ [PNext]_pvars => PInv'
  BY PNextInv
<1>3. QED
  BY <1>1, <1>2, PTL DEF PSpec

-----------------------------------------------------------------------------
(* The writes.                                                             *)

Write(r) ==
  \/ \E p \in ProjectIds : CreateProject(r, p)
  \/ \E status \in Statuses : UpdateProject(r, status)
  \/ DeleteProject(r)

\* A step that changes a project is one request's write.
LEMMA ChangesAreWrites ==
  ASSUME PInv, [PNext]_pvars, project' # project
  PROVE  \E r \in Req :
           /\ Write(r)
           /\ req[r].pc \in {"insert", "write"}
           /\ req'[r] # req[r]
           /\ \A s \in Req \ {r} : req'[s] = req[s]
<1>1. PICK r \in Req : ProjectStep(r)
  BY DEF PNext, pvars
<1>2. Write(r)
  BY <1>1 DEF ProjectStep, Write, OpenProject, LoadMembership, FindProject, Fail
<1>3. Finish(r) /\ req[r].pc \in {"insert", "write"}
  BY <1>2 DEF Write, CreateProject, UpdateProject, DeleteProject
<1>4. req'[r] = IdleReq /\ \A s \in Req \ {r} : req'[s] = req[s]
  BY <1>3, TypesOfPInv DEF Finish
<1>5. req'[r] # req[r]
  BY <1>3, <1>4 DEF IdleReq
<1>6. QED
  BY <1>2, <1>3, <1>4, <1>5

\* Nobody changes a project without having had the published permission, in an
\* open organization, at some moment of the request (requireOrgMembership,
\* requireRole, project.service.js).
THEOREM ProjectWritersArePermitted == PSpec => ProjectEffectsArePermitted
<1>1. ASSUME PInv, [PNext]_pvars, NEW r \in Req, Effect(r)
      PROVE  seen[r].permitted /\ seen[r].open
  <2>1. req[r].pc \in {"insert", "write"}
    BY <1>1, ChangesAreWrites DEF Effect
  <2>2. QED
    BY <1>1, <2>1 DEF PInv, WriteOK
<1>2. PInv /\ [PNext]_pvars =>
        [\A r \in Req : Effect(r) => seen[r].permitted /\ seen[r].open]_pvars
  BY <1>1
<1>3. QED
  BY <1>2, PInvariant, PTL DEF PSpec, ProjectEffectsArePermitted

\* A project changes only by requests of its own organization, stays there,
\* and does not come back (findFirst by id and organization, then the write by
\* id alone).
THEOREM ProjectsAreKeptHome == PSpec => ProjectsStayHome
<1> DEFINE Home(p) ==
      /\ project[p] # Deleted
      /\ project[p] # Unused =>
           /\ project'[p].org \in {project[p].org, NULL}
           /\ \E r \in Req : req[r].org = project[p].org /\ req'[r] # req[r]
<1>1. ASSUME PInv, [PNext]_pvars, NEW p \in ProjectIds, project'[p] # project[p]
      PROVE  Home(p)
  <2>1. PICK r \in Req : Write(r) /\ req'[r] # req[r]
    BY <1>1, ChangesAreWrites
  <2>2. CASE \E x \in ProjectIds : CreateProject(r, x)
    BY <1>1, <2>2, TypesOfPInv DEF CreateProject, Unused, Deleted
  <2>3. CASE req[r].pc = "write"
    <3>1. p = req[r].project
      BY <1>1, <2>1, <2>3, TypesOfPInv
      DEF Write, CreateProject, UpdateProject, DeleteProject
    <3>2. project[p] # Deleted
      BY <1>1, <2>1, <2>3, <3>1, RowAtWrite, TypesOfPInv
      DEF Write, CreateProject, UpdateProject, DeleteProject
    <3>3. project[p].org = req[r].org
      BY <1>1, <2>3, <3>1, <3>2, RowAtWrite
    <3>4. project'[p].org \in {project[p].org, NULL}
      <4>1. PInv'
        BY <1>1, PNextInv
      <4>2. CASE DeleteProject(r)
        BY <1>1, <3>1, <4>2, TypesOfPInv DEF DeleteProject, Deleted
      <4>3. ASSUME NEW status \in Statuses, UpdateProject(r, status)
            PROVE  project'[p].org = project[p].org
        <5>1. project' = [project EXCEPT ![p].status = status]
          BY <1>1, <3>1, <4>3 DEF UpdateProject
        <5>2. project[p] \in [org : Orgs, status : Statuses] \cup {Unused}
          BY <1>1, <3>2, TypesOfPInv DEF ProjectRows
        <5>3. QED
          BY <1>1, <5>1, <5>2, TypesOfPInv DEF Unused
      <4>4. QED
        BY <2>1, <2>3, <4>2, <4>3 DEF Write, CreateProject
    <3>5. QED
      BY <2>1, <3>2, <3>3, <3>4
  <2>4. QED
    BY <2>1, <2>2, <2>3 DEF Write, UpdateProject, DeleteProject
<1>2. PInv /\ [PNext]_pvars => [\A p \in ProjectIds : project'[p] # project[p] => Home(p)]_pvars
  BY <1>1
<1>3. QED
  BY <1>2, PInvariant, PTL DEF PSpec, ProjectsStayHome
=============================================================================
