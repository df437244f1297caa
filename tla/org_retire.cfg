\* An invitation runs out while requests of any kind and the cleanup timer overlap.
SPECIFICATION FairSpec
CONSTANTS
  Orgs = {o1}
  Demo = {}
  Users = {u1, u2}
  Invites = {i1}
  Req = {r1, r2}
  Ops = {"updateOrg", "deleteOrg", "updateRole", "removeMember", "invite", "accept"}
  NULL = NULL
PROPERTIES ExpiredInvitationsRetire
CHECK_DEADLOCK FALSE
