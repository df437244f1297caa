------------------------ MODULE MCOrganizationApart ------------------------
(* Instances of OrganizationApart for TLC.                                  *)
EXTENDS OrganizationApart, Naturals, FiniteSets, TLC

Symmetric ==
  Permutations(Users) \cup Permutations(Invites) \cup Permutations(Req)

\* Settings are read by nobody, nor is the role of an invitation that pends
\* no more.
View ==
  <<[o \in Orgs |-> [org[o] EXCEPT !.editedBy = NULL]], member, req, crowded,
    [i \in Invites |->
       IF invitation[i].status = "PENDING" THEN invitation[i]
       ELSE [invitation[i] EXCEPT !.role = "none"]]>>

\* Bound: requests crowd about one user at most, and the claims about the
\* others are at stake.
OneCrowd == Cardinality(crowded) <= 1
=============================================================================
