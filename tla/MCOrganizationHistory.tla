----------------------- MODULE MCOrganizationHistory -----------------------
(* Instances of OrganizationHistory for TLC.                               *)
EXTENDS OrganizationHistory, TLC

Symmetric ==
  Permutations(Users) \cup Permutations(Invites) \cup Permutations(Req)

\* Nothing reads the settings of an organization, or the role and expiry of
\* an invitation that pends no more: states that differ only there behave
\* alike and are explored once.
View ==
  <<[o \in Orgs |-> [org[o] EXCEPT !.editedBy = NULL]], member, req, seen, seeded,
    [i \in Invites |->
       IF invitation[i].status = "PENDING" THEN invitation[i]
       ELSE [NoInvitation EXCEPT !.org = invitation[i].org,
                                 !.email = invitation[i].email,
                                 !.status = invitation[i].status]]>>
=============================================================================
