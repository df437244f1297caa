\* An invitation is superseded while it is being accepted.
SPECIFICATION Spec
CONSTANTS
  Orgs = {o1}
  Demo = {}
  Users = {u1, u2}
  Invites = {i1, i2}
  Req = {r1, r2}
  Ops = {"invite", "accept"}
  NULL = NULL
PROPERTIES DeadTokensAdmitNobody
SYMMETRY Symmetric
