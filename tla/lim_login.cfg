\* Two addresses and one account: with limits of two, refused requests, windows
\* that end under requests in flight, restarts.
SPECIFICATION LimSpec
CONSTANTS
  Clients = {c1, c2}
  Accounts = {a1}
  AuthMaxRequests = 2
  AccountMaxRequests = 3
  MaxHits = 4
  Req = {r1, r2}
  NULL = NULL
INVARIANTS LimInv GuessesAreBounded
PROPERTIES RefusedForFailures
SYMMETRY Symmetric
