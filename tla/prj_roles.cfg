\* Two requests while roles, members and organizations change.
SPECIFICATION PSpec
CONSTANTS
  Orgs = {o1, o2}
  Users = {u1, u2}
  ProjectIds = {p1, p2}
  Req = {r1, r2}
  NULL = NULL
INVARIANTS PInv
PROPERTIES ProjectEffectsArePermitted ProjectsStayHome
SYMMETRY Symmetric
