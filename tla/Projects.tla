------------------------------ MODULE Projects ------------------------------
(***************************************************************************)
(* Projects of organizations whose members, roles and existence change all *)
(* the while.  What may change there, and how, is the contract Ownership,  *)
(* which Organization is shown to implement; its variables are the tables  *)
(* the gate of the project routes reads.                                   *)
(*                                                                         *)
(* An action is one database call with the code up to the next await; what *)
(* a request has read is in req[r].  What a project is called and who made *)
(* it is read by nobody and left out; its status stands for its content.   *)
(*                                                                         *)
(* A definition commented "Mutant" is used by no other: it is a plausible  *)
(* mistake in the definition that follows.                                 *)
(***************************************************************************)
EXTENDS Ownership

CONSTANTS
  ProjectIds,  \* bound: one creation per id
  Req          \* slots for requests in flight (bound: how many overlap)

Statuses == {"ACTIVE", "ARCHIVED", "COMPLETED"}

ASSUME ProjectsAssumption ==
  NULL \notin Orgs \cup Users \cup ProjectIds

ProjectOps == {"create", "get", "update", "delete"}

\* The roles requireRole lets through; reading asks for membership alone.
ProjectRoles(op) == IF op = "get" THEN Roles ELSE {"OWNER", "ADMIN"}

\* The permission each operation exercises in the published matrix.
ProjectPermission ==
  [create |-> "project:create", get |-> "project:read",
   update |-> "project:update", delete |-> "project:delete"]

VARIABLES
  project,  \* projects: of no organization before creation and when deleted
  req,      \* requests in flight
  seen      \* history: what was true of each request at some moment

pvars == <<owner, role, open, project, req, seen>>

Unused == [org |-> NULL, status |-> "unused"]
Deleted == [org |-> NULL, status |-> "deleted"]

IdleReq == [pc |-> "idle", op |-> "none", actor |-> NULL, org |-> NULL, project |-> NULL]

NothingSeen == [permitted |-> FALSE, open |-> FALSE]

\* There may be projects in the organizations there are at the start: seed.js
\* leaves two.
PInit ==
  /\ OwnInit
  /\ project \in [ProjectIds ->
                   {Unused} \cup [org : {o \in Orgs : owner[o] # NULL}, status : {"ACTIVE"}]]
  /\ req = [r \in Req |-> IdleReq]
  /\ seen = [r \in Req |-> NothingSeen]

Finish(r) == req' = [req EXCEPT ![r] = IdleReq]

-----------------------------------------------------------------------------
(* The gate: requireOrgMembership, requireRole.                            *)

\* Mutant: a deleted organization still answers.
AvailableOnceFounded(o) == owner[o] # NULL

Available(o) == open[o]

\* The id in the path; a creation gets its id when it is inserted.
Named(op) == IF op = "create" THEN {NULL} ELSE ProjectIds

OpenProject(r, op, u, o) ==
  /\ req[r] = IdleReq
  /\ Available(o)
  /\ \E p \in Named(op) :
       req' = [req EXCEPT ![r] = [pc |-> "membership", op |-> op, actor |-> u,
                                  org |-> o, project |-> p]]
  /\ UNCHANGED project

\* Mutant: requireRole is missing.
AdmissibleAsMember(q) == role[q.org][q.actor] # "none"

Admissible(q) == role[q.org][q.actor] \in ProjectRoles(q.op)

LoadMembership(r) ==
  /\ req[r].pc = "membership"
  /\ IF Admissible(req[r])
     THEN req' = [req EXCEPT ![r].pc = IF req[r].op = "create" THEN "insert" ELSE "find"]
     ELSE Finish(r)
  /\ UNCHANGED project

-----------------------------------------------------------------------------
(* project.service.js.                                                     *)

CreateProject(r, p) ==
  /\ req[r].pc = "insert"
  /\ project[p] = Unused
  /\ project' = [project EXCEPT ![p] =
                   [org |-> req[r].org, status |-> "ACTIVE"]]
  /\ Finish(r)

\* Mutant: looked up by id alone.
FoundById(q) == project[q.project].org # NULL

FoundIn(q) == project[q.project].org = q.org

\* findFirst by id and organization; getProjectById has its answer with it.
FindProject(r) ==
  /\ req[r].pc = "find"
  /\ IF FoundIn(req[r]) /\ req[r].op # "get"
     THEN req' = [req EXCEPT ![r].pc = "write"]
     ELSE Finish(r)
  /\ UNCHANGED project

\* By id; a project deleted since makes it fail (P2025).
UpdateProject(r, status) ==
  /\ req[r].pc = "write" /\ req[r].op = "update"
  /\ project' = IF project[req[r].project].org = NULL THEN project
                ELSE [project EXCEPT ![req[r].project].status = status]
  /\ Finish(r)

\* Mutant: the row stays, with a mark.
MarkProject(r) ==
  /\ req[r].pc = "write" /\ req[r].op = "delete"
  /\ project' = [project EXCEPT ![req[r].project].status = "deleted"]
  /\ Finish(r)

DeleteProject(r) ==
  /\ req[r].pc = "write" /\ req[r].op = "delete"
  /\ project' = [project EXCEPT ![req[r].project] = Deleted]
  /\ Finish(r)

\* The database fails the request, or the process dies.
Fail(r) ==
  /\ req[r].pc # "idle"
  /\ Finish(r)
  /\ UNCHANGED project

ProjectStep(r) ==
  \/ \E op \in ProjectOps, u \in Users, o \in Orgs : OpenProject(r, op, u, o)
  \/ LoadMembership(r)
  \/ \E p \in ProjectIds : CreateProject(r, p)
  \/ FindProject(r)
  \/ \E status \in Statuses : UpdateProject(r, status)
  \/ DeleteProject(r)
  \/ Fail(r)

\* What the rows say of request q at one moment.
Facts(q) ==
  [permitted |-> q.op # "none" /\ ProjectPermission[q.op] \in Capabilities(role[q.org][q.actor]),
   open      |-> q.org # NULL /\ open[q.org]]

PNext ==
  /\ \/ OwnNext /\ UNCHANGED <<project, req>>
     \/ \E r \in Req : ProjectStep(r) /\ UNCHANGED ovars
  /\ seen' = [r \in Req |->
       IF req'[r] = IdleReq THEN NothingSeen
       ELSE [f \in DOMAIN NothingSeen |-> seen[r][f] \/ Facts(req[r])'[f]]]

PSpec == PInit /\ [][PNext]_pvars

-----------------------------------------------------------------------------

\* Rows and requests have their types.
PTypeOK ==
  /\ owner \in [Orgs -> Users \cup {NULL}]
  /\ role \in [Orgs -> [Users -> Roles \cup {"none"}]]
  /\ open \in [Orgs -> BOOLEAN]
  /\ project \in [ProjectIds -> [org : Orgs, status : Statuses] \cup {Unused, Deleted}]
  /\ req \in [Req -> [pc : {"idle", "membership", "insert", "find", "write"},
                      op : ProjectOps \cup {"none"}, actor : Users \cup {NULL},
                      org : Orgs \cup {NULL}, project : ProjectIds \cup {NULL}]]
  /\ seen \in [Req -> [permitted : BOOLEAN, open : BOOLEAN]]

\* What the gate and the look-up leave behind for the write: a caller who was
\* allowed to, in an open organization, and a project that is the
\* organization's or has been deleted since.
WriteOK(r) ==
  LET q == req[r]
  IN /\ q.pc # "idle" =>
          /\ q.op \in ProjectOps /\ q.actor \in Users /\ q.org \in Orgs
          /\ q.op # "create" => q.project \in ProjectIds
          /\ seen[r].open
     /\ q.pc \in {"insert", "find", "write"} => seen[r].permitted
     /\ q.pc = "find" => q.op # "create"
     /\ q.pc = "write" =>
          /\ q.op \in {"update", "delete"}
          /\ project[q.project] # Unused
          /\ project[q.project].org \in {q.org, NULL}

\* What a project write relies on, whatever roles, members, organizations and
\* other requests have done since the request looked.
PInv == PTypeOK /\ \A r \in Req : WriteOK(r)

\* Request r changes a project in this step.
Effect(r) == req'[r] # req[r] /\ project' # project

\* Projects change only for callers whose role in the organization carried
\* the published permission at some moment of the request, and only in
\* organizations that were open at some moment of it, however roles,
\* memberships and organizations changed meanwhile.
ProjectEffectsArePermitted ==
  [][\A r \in Req : Effect(r) => seen[r].permitted /\ seen[r].open]_pvars

\* A request changes only projects that are its organization's, whatever id
\* it names; projects do not move, and a deleted one does not come back.
ProjectsStayHome ==
  [][\A p \in ProjectIds : project'[p] # project[p] =>
       /\ project[p] # Deleted
       /\ project[p] # Unused =>
            /\ project'[p].org \in {project[p].org, NULL}
            /\ \E r \in Req : req[r].org = project[p].org /\ req'[r] # req[r]]_pvars
=============================================================================
