-------------------------- MODULE OrganizationApart --------------------------
(***************************************************************************)
(* How much of OrganizationClaims survives any number of requests in       *)
(* flight.  Each claim is about one user of one organization; it holds of  *)
(* the two as long as no two requests about them have overlapped, whatever *)
(* requests about others, the timer and failures do meanwhile.             *)
(***************************************************************************)
EXTENDS OrganizationClaims

VARIABLE crowded  \* history: <<o, u>> about whom two requests have overlapped

cvars == <<org, member, invitation, req, crowded>>

\* Request q is about user u of organization o: about to read or change the
\* membership of u in o, or u's invitations to o.
IsAbout(q, o, u) ==
  /\ q.org = o
  /\ \/ q.op \in TargetOps /\ q.target = u
     \/ q.op = "accept" /\ q.actor = u

Crowds ==
  {p \in Orgs \X Users :
     \E r, s \in Req : /\ r # s
                       /\ IsAbout(req[r], p[1], p[2])
                       /\ IsAbout(req[s], p[1], p[2])}

CInit == Init /\ crowded = {}

CNext == Next /\ crowded' = crowded \cup Crowds'

CSpec == CInit /\ [][CNext]_cvars

-----------------------------------------------------------------------------

\* The rows of u in o are as inviteUser and acceptInvitation want them: one
\* live token at most, and none for a member.
OneWay(o, u) ==
  \A i \in Pending(o, u) : member[o][u] = "none" /\ Pending(o, u) = {i}

\* What any request still knows when it writes: whose invitation it found,
\* that the one it marks has run out, and the role the gate let through.
KnowsItsRows(q) ==
  LET row == invitation[q.inv]
  IN /\ q.pc = "supersede" => row.org = q.org /\ row.email = q.target
     /\ q.pc = "markExpired" => row.expired
     /\ q.pc \in {"readTarget", "writeRole", "deleteMember"} =>
          q.mrole \in {"OWNER", "ADMIN"}

\* What a request knows besides if no other was about the same user: the
\* invitee is no member, the invitation found is the only one to pend and
\* after Supersede none does, the one to be admitted on pends or has run out
\* meanwhile, and whom an admin regrades or removes is a plain member.
StillSo(q) ==
  LET row == invitation[q.inv]
  IN /\ q.pc \in {"findPending", "supersede", "createInvite"} =>
          member[q.org][q.target] = "none"
     /\ q.pc = "supersede" => Pending(q.org, q.target) \subseteq {q.inv}
     /\ q.pc = "createInvite" => Pending(q.org, q.target) = {}
     /\ q.pc = "admit" =>
          /\ row.status = "PENDING" \/ (row.status = "EXPIRED" /\ row.expired)
          /\ Pending(q.org, q.actor) \subseteq {q.inv}
     /\ q.pc \in {"writeRole", "deleteMember"} /\ q.mrole = "ADMIN" =>
          member[q.org][q.target] = "MEMBER"

\* Why the claims hold then: an inductive invariant.
ApartInv ==
  /\ IInv
  /\ OnRoutes
  /\ Crowds \subseteq crowded
  /\ \A r \in Req : KnowsItsRows(req[r])
  /\ \A o \in Orgs, u \in Users : <<o, u>> \notin crowded =>
       /\ OneWay(o, u)
       /\ \A r \in Req : IsAbout(req[r], o, u) => StillSo(req[r])

-----------------------------------------------------------------------------

\* OneWayIn, of everybody about whom no two requests have overlapped: at most
\* one live token for an organization, and none for a member (inviteUser,
\* acceptInvitation).
OneWayInApart ==
  \A o \in Orgs, u \in Users : <<o, u>> \notin crowded => OneWay(o, u)

\* DeadTokensAdmitNobody, of the same: neither a superseded token nor a used
\* one lets its user in, after any removal, expiry or failed request.
DeadTokensAdmitNobodyApart ==
  [][\A r \in Req :
       LET row == invitation[req[r].inv]
       IN Admits(r) /\ <<req[r].org, req[r].actor>> \notin crowded =>
            ~ \/ row.status = "ACCEPTED"
              \/ row.status = "EXPIRED" /\ ~row.expired]_cvars

\* AdminsSpareAdmins, of the same: whom an admin regrades or removes is a
\* plain member at that moment, though the role was read before.
AdminsSpareAdminsApart ==
  [][\A r \in Req :
       /\ Writes(r)
       /\ req[r].op \in ManageOps
       /\ req[r].mrole = "ADMIN"
       /\ <<req[r].org, req[r].target>> \notin crowded
       => member[req[r].org][req[r].target] = "MEMBER"]_cvars
=============================================================================
