--------------------------- MODULE MCOrganization ---------------------------
(***************************************************************************)
(* Instances of Organization for TLC: the values are in the .cfg files.    *)
(* Ids, users and request slots are interchangeable.                       *)
(***************************************************************************)
EXTENDS OrganizationClaims, TLC

Symmetric ==
  Permutations(Users) \cup Permutations(Invites) \cup Permutations(Req)
=============================================================================
