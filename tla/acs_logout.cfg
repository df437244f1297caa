\* Requests and logouts on two servers that fail and restart.
SPECIFICATION FairXSpec
CONSTANTS
  Users = {u1}
  Servers = {p1, p2}
  Req = {r1, r2}
  AccessExpiresIn <- OneSecond
  MaxTime = 2
  LastIssue = 1
  NULL = NULL
INVARIANTS XInv LogoutIsHeeded EntriesOutliveTokens
PROPERTIES RunOutEntriesGo
