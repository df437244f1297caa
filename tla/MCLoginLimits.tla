---- MODULE MCLoginLimits ----
EXTENDS LoginLimits, TLC

\* Requests, addresses and accounts are interchangeable.
Symmetric == Permutations(Req) \cup Permutations(Clients)
====
