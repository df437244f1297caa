\* Two requests of any kind in flight, and what was true meanwhile.
SPECIFICATION HSpec
CONSTANTS
  Orgs = {o1}
  Demo = {}
  Users = {u1, u2, u3}
  Invites = {i1, i2}
  Req = {r1, r2}
  Ops = {"updateOrg", "deleteOrg", "updateRole", "removeMember", "invite", "accept"}
  NULL = NULL
INVARIANTS SingleOwner HInv
PROPERTIES ImplementsOwnership EffectsArePermitted AdminsManageMembers NoEffectAfterDeletion JoinersWereInvited
SYMMETRY Symmetric
VIEW View
CHECK_DEADLOCK FALSE
