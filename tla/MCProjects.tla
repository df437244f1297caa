----------------------------- MODULE MCProjects -----------------------------
(* Instances of Projects for TLC.                                           *)
EXTENDS Projects, TLC

Symmetric ==
  Permutations(Orgs) \cup Permutations(Users) \cup Permutations(ProjectIds)
  \cup Permutations(Req)
=============================================================================
