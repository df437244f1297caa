\* Two requests in flight, about the same user or different ones.
SPECIFICATION CSpec
CONSTANTS
  Orgs = {o1}
  Demo = {}
  Users = {u1, u2, u3}
  Invites = {i1, i2}
  Req = {r1, r2}
  Ops = {"updateRole", "removeMember", "invite", "accept"}
  NULL = NULL
INVARIANTS OneWayInApart
PROPERTIES DeadTokensAdmitNobodyApart AdminsSpareAdminsApart
SYMMETRY Symmetric
VIEW View
CONSTRAINT OneCrowd
CHECK_DEADLOCK FALSE
