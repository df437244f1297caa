------------------------- MODULE OrganizationClaims -------------------------
(***************************************************************************)
(* What the comments and the README say of invitations and of admins.      *)
(* Most of it is enforced by a read and a later write, so that requests    *)
(* that overlap break it (README.md, Findings and Disagreements);          *)
(* OrganizationApart says of whom it holds all the same.                   *)
(***************************************************************************)
EXTENDS OrganizationSafety

\* Request r changes a row in this step.
Writes(r) == req'[r] # req[r] /\ tables' # tables

\* inviteUser supersedes an invitation "rather than ... leaving two live tokens
\* for the same invite" and refuses members, and acceptInvitation uses the
\* invitation up: an address has at most one live token for an organization,
\* and none when its user is in already.
OneWayIn ==
  \A i, j \in Invites :
    LET row == invitation[i]
    IN row.status = "PENDING" =>
         /\ member[row.org][row.email] = "none"
         /\ invitation[j].status = "PENDING" /\ invitation[j].org = row.org
              /\ invitation[j].email = row.email => i = j

\* Request r makes its caller a member in this step.
Admits(r) == Writes(r) /\ req[r].op = "accept" /\ member' # member

\* inviteUser: superseding means "the old token is invalidated", and
\* acceptInvitation uses the invitation up.  An invitation that was marked
\* EXPIRED before its time was superseded and admits nobody any more, and one
\* that was accepted does not lead back in a user who was removed.
DeadTokensAdmitNobody ==
  [][\A r \in Req :
       LET row == invitation[req[r].inv]
       IN Admits(r) => ~ \/ row.status = "ACCEPTED"
                         \/ row.status = "EXPIRED" /\ ~row.expired]_vars

\* README, permission matrix: "ADMINs cannot remove or change the role of
\* other ADMINs or OWNERs".  Whose role is ADMIN when a row is changed or
\* deleted, was not changed by an admin.
AdminsSpareAdmins ==
  [][\A r \in Req :
       /\ Writes(r)
       /\ req[r].op \in ManageOps
       /\ req[r].mrole = "ADMIN"
       => member[req[r].org][req[r].target] = "MEMBER"]_vars

-----------------------------------------------------------------------------
(* Expired invitations retire.                                             *)

\* server.js starts the job with setInterval, so while a server is up it
\* runs again and again, and each run is one statement.
FairSpec == Spec /\ WF_vars(CleanupExpiredInvitations)

\* An invitation past its expiry stops pending for good, whatever requests
\* that read it earlier still write ("so stale invitations don't sit around
\* indefinitely").
ExpiredInvitationsRetire ==
  \A i \in Invites :
    (invitation[i].status = "PENDING" /\ invitation[i].expired)
      ~> [](invitation[i].status # "PENDING")
=============================================================================
