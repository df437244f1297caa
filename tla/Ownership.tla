----------------------------- MODULE Ownership -----------------------------
(***************************************************************************)
(* What the organization service promises about who holds which role,      *)
(* however its requests interleave: an organization is founded with one    *)
(* owner, ownership never moves, everybody else is admitted, regraded and  *)
(* expelled below the owner, and a closed organization stays closed.       *)
(***************************************************************************)
EXTENDS Rbac

CONSTANTS Orgs, Users, NULL

VARIABLES
  owner,   \* the owner of each organization, NULL before it is founded
  role,    \* the role of each user in each organization
  open     \* founded and not closed

ovars == <<owner, role, open>>

\* The service starts on whatever organizations there are: seeded ones, or
\* those of a server that ran before.  Each has its owner for its only OWNER,
\* and where none was founded nobody has a role.
OwnInit ==
  /\ owner \in [Orgs -> Users \cup {NULL}]
  /\ role \in [Orgs -> [Users -> Roles \cup {"none"}]]
  /\ open \in [Orgs -> BOOLEAN]
  /\ \A o \in Orgs, u \in Users : role[o][u] = "OWNER" <=> owner[o] = u
  /\ \A o \in Orgs : owner[o] = NULL =>
       ~open[o] /\ \A u \in Users : role[o][u] = "none"

Found(o, u) ==
  /\ owner[o] = NULL
  /\ owner' = [owner EXCEPT ![o] = u]
  /\ role' = [role EXCEPT ![o][u] = "OWNER"]
  /\ open' = [open EXCEPT ![o] = TRUE]

\* Only strangers are admitted, never as owners.
Join(o, u, r) ==
  /\ owner[o] # NULL
  /\ role[o][u] = "none"
  /\ role' = [role EXCEPT ![o][u] = r]
  /\ UNCHANGED <<owner, open>>

\* Only members below the owner are regraded, and never to owner.
Regrade(o, u, r) ==
  /\ role[o][u] \in GrantableRoles
  /\ role' = [role EXCEPT ![o][u] = r]
  /\ UNCHANGED <<owner, open>>

\* The owner cannot be expelled.
Expel(o, u) ==
  /\ role[o][u] \in GrantableRoles
  /\ role' = [role EXCEPT ![o][u] = "none"]
  /\ UNCHANGED <<owner, open>>

Close(o) ==
  /\ open[o]
  /\ open' = [open EXCEPT ![o] = FALSE]
  /\ UNCHANGED <<owner, role>>

OwnNext ==
  \E o \in Orgs :
    \/ \E u \in Users : Found(o, u) \/ Expel(o, u)
    \/ \E u \in Users, r \in GrantableRoles : Join(o, u, r) \/ Regrade(o, u, r)
    \/ Close(o)

OwnSpec == OwnInit /\ [][OwnNext]_ovars
=============================================================================
