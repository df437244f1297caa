-------------------------- MODULE AccessTokenProofs --------------------------
(***************************************************************************)
(* Proofs about AccessTokens for every lifetime of tokens, every number of *)
(* servers, users and requests, and every length of time.                  *)
(***************************************************************************)
EXTENDS AccessTokens, TLAPS

-----------------------------------------------------------------------------
(* Durations.                                                              *)

\* Where parseDurationToMs knows the unit it reads what the JWT library reads.
LEMMA Durations ==
  /\ Ttl \in Nat \ {0} /\ Lifetime \in Nat \ {0}
  /\ Understood => Ttl = Lifetime
<1>1. PICK n \in Nat \ {0}, u \in DOMAIN JwtUnits : AccessExpiresIn = [value |-> n, unit |-> u]
  BY AccessAssumption
<1>2. u \in {"s", "m", "h", "d", "w"}
  BY DEF JwtUnits
<1>3. Lifetime = n * JwtUnits[u]
  BY <1>1 DEF Lifetime, JwtLifetime
<1>4. JwtUnits[u] \in {1, 60, 3600, 86400, 604800}
  BY <1>2 DEF JwtUnits
<1>5. Lifetime \in Nat \ {0}
  BY <1>3, <1>4
<1>6. DOMAIN Units = {"s", "m", "h", "d"}
  BY DEF Units
<1>7. CASE u \in DOMAIN Units
  <2>1. Units[u] = JwtUnits[u]
    BY <1>6, <1>7 DEF Units, JwtUnits
  <2>2. Ttl = n * Units[u]
    BY <1>1, <1>7 DEF Ttl, ParseDuration
  <2>3. QED
    BY <1>3, <1>5, <2>1, <2>2
<1>8. CASE u \notin DOMAIN Units
  <2>1. Ttl = 7 * 86400
    BY <1>1, <1>8 DEF Ttl, ParseDuration
  <2>2. ~Understood
    BY <1>1, <1>8 DEF Understood
  <2>3. QED
    BY <1>5, <2>1, <2>2
<1>9. QED
  BY <1>7, <1>8

-----------------------------------------------------------------------------
(* What a step may do to the entries, and why it forgets no logout.        *)

\* An entry stays, is made for an issued token, or goes when it has run out.
EntryOK(t, before, after) ==
  \/ after = before
  \/ after = clock + Ttl /\ refresh[t] # "none"
  \/ after = 0 /\ clock >= before

\* Time does not go back, and no token becomes unissued.
RowsKept ==
  /\ clock' \in 0 .. MaxTime /\ clock <= clock'
  /\ redisOn' = redisOn
  /\ refresh' \in [Tokens -> {"none", "usable", "revoked"}]
  /\ \A t \in Tokens : refresh[t] # "none" => refresh'[t] # "none"
  /\ \A t \in Tokens : refresh[t] = "none" /\ refresh'[t] # "none" => t.iat <= clock'

EntriesKept ==
  /\ redis' \in [Tokens -> Nat] /\ list' \in [Servers -> [Tokens -> Nat]]
  /\ \A t \in Tokens :
       /\ EntryOK(t, redis[t], redis'[t])
       /\ \A p \in Servers : EntryOK(t, list[p][t], list'[p][t])

LEMMA TokenTimes ==
  ASSUME NEW t \in Tokens
  PROVE  t.iat \in Nat
  BY AccessAssumption DEF Tokens

LEMMA EntriesStay ==
  ASSUME XInv, RowsKept, EntriesKept
  PROVE  /\ redis' \in [Tokens -> Deadlines]
         /\ list' \in [Servers -> [Tokens -> Deadlines]]
         /\ EntriesOutliveTokens'
         /\ \A t \in Tokens : refresh'[t] # "none" => t.iat <= clock'
         /\ \A p \in Servers, t \in Tokens : Remembered(p, t) => Remembered(p, t)'
<1>1. /\ Ttl \in Nat \ {0} /\ Lifetime \in Nat \ {0}
      /\ Understood => Ttl = Lifetime
      /\ MaxTime \in Nat /\ clock \in 0 .. MaxTime
  BY Durations, AccessAssumption DEF XInv, XTypeOK
<1>2. ASSUME NEW t \in Tokens, NEW before \in Deadlines, NEW after, EntryOK(t, before, after)
      PROVE  after \in Deadlines
  BY <1>1, <1>2 DEF EntryOK, Deadlines
<1>3. \A t \in Tokens : /\ redis[t] \in Deadlines
                        /\ \A p \in Servers : list[p][t] \in Deadlines
  BY DEF XInv, XTypeOK
<1>4. /\ \A t \in Tokens : redis'[t] \in Deadlines
      /\ \A p \in Servers, t \in Tokens : list'[p][t] \in Deadlines
  BY <1>2, <1>3 DEF EntriesKept
<1>5. ASSUME NEW t \in Tokens PROVE refresh[t] # "none" => t.iat <= clock
  BY DEF XInv
<1>6. ASSUME NEW t \in Tokens, NEW before \in Deadlines, NEW after,
             EntryOK(t, before, after), Understood,
             before # 0 => before >= t.iat + Lifetime
      PROVE  /\ after # 0 => after >= t.iat + Lifetime
             /\ before # 0 /\ after = 0 => clock >= t.iat + Lifetime
  BY <1>1, <1>5, <1>6, TokenTimes DEF EntryOK, Deadlines
<1>7. EntriesOutliveTokens'
  BY <1>3, <1>6 DEF EntriesOutliveTokens, EntriesKept, Understood, XInv
<1>8. ASSUME NEW t \in Tokens PROVE refresh'[t] # "none" => t.iat <= clock'
  BY <1>1, <1>5, TokenTimes DEF RowsKept
<1>9. ASSUME NEW p \in Servers, NEW t \in Tokens, Remembered(p, t), Understood, Valid(t)'
      PROVE  (IF redisOn THEN redis[t] ELSE list[p][t])' # 0
  <2>1. Valid(t) /\ clock < t.iat + Lifetime
    BY <1>1, <1>9, TokenTimes DEF Valid, RowsKept
  <2>2. (IF redisOn THEN redis[t] ELSE list[p][t]) # 0
    BY <1>9, <2>1 DEF Remembered
  <2>3. CASE redisOn
    <3>1. redis'[t] # 0
      BY <1>1, <1>3, <1>6, <1>9, <2>1, <2>2, <2>3, TokenTimes
      DEF EntriesKept, EntriesOutliveTokens, XInv
    <3>2. QED
      BY <2>3, <3>1 DEF RowsKept
  <2>4. CASE ~redisOn
    <3>1. list'[p][t] # 0
      BY <1>1, <1>3, <1>6, <1>9, <2>1, <2>2, <2>4, TokenTimes
      DEF EntriesKept, EntriesOutliveTokens, XInv
    <3>2. QED
      BY <2>4, <3>1 DEF RowsKept
  <2>5. QED
    BY <2>3, <2>4
<1>10. \A p \in Servers, t \in Tokens : Remembered(p, t) => Remembered(p, t)'
  BY <1>9 DEF Remembered, Understood
<1>11. redis' \in [Tokens -> Deadlines] /\ list' \in [Servers -> [Tokens -> Deadlines]]
  <2>1. redis' \in [Tokens -> Deadlines]
    BY <1>4 DEF EntriesKept
  <2>2. list' \in [Servers -> [Tokens -> Deadlines]]
    BY <1>4 DEF EntriesKept
  <2>3. QED
    BY <2>1, <2>2
<1>12. QED
  BY <1>7, <1>8, <1>10, <1>11

-----------------------------------------------------------------------------
(* Two kinds of step: one request moves, or none does.                     *)

Requests ==
  [pc : {"idle", "check", "user", "list", "revoke"},
   server : Servers \cup {NULL}, token : Tokens \cup {NULL}]

\* What a request that was late stands for after the step.
LateOK(q) ==
  /\ q.pc # "idle" /\ q.server \in known[q.token]
  /\ Understood /\ q.pc \in {"user", "list", "revoke"} => ~Valid(q.token)

LEMMA TypesOfXInv ==
  ASSUME XInv
  PROVE  /\ clock \in 0 .. MaxTime
         /\ redisOn \in BOOLEAN
         /\ refresh \in [Tokens -> {"none", "usable", "revoked"}]
         /\ redis \in [Tokens -> Nat]
         /\ list \in [Servers -> [Tokens -> Nat]]
         /\ req \in [Req -> Requests]
         /\ known \in [Tokens -> SUBSET Servers]
         /\ late \subseteq Req
<1>1. Deadlines \subseteq Nat
  BY Durations, AccessAssumption DEF Deadlines
<1>2. XTypeOK
  BY DEF XInv
<1>3. redis \in [Tokens -> Deadlines] /\ list \in [Servers -> [Tokens -> Deadlines]]
  BY <1>2 DEF XTypeOK
<1>4. redis \in [Tokens -> Nat]
  BY <1>1, <1>3
<1>5. list \in [Servers -> [Tokens -> Nat]]
  BY <1>1, <1>3
<1>6. QED
  BY <1>2, <1>4, <1>5 DEF XTypeOK, Requests

LEMMA OthersStay ==
  ASSUME XInv, RowsKept, EntriesKept, NEW s \in Req, RequestOK(req[s]),
         req'[s] = req[s]
  PROVE  RequestOK(req[s])'
  BY EntriesStay DEF RequestOK, RowsKept

LEMMA ValidityEnds ==
  ASSUME XInv, RowsKept, NEW t \in Tokens, ~Valid(t)
  PROVE  ~Valid(t)'
  BY TypesOfXInv, Durations, AccessAssumption, TokenTimes DEF Valid, RowsKept

\* Requests that are as they were, and late as they were.
LEMMA LateStays ==
  ASSUME XInv, RowsKept, NEW s \in late, req'[s] = req[s],
         known[req[s].token] \subseteq known'[req[s].token]
  PROVE  LateOK(req[s])'
<1>1. s \in Req /\ RequestOK(req[s])
  BY TypesOfXInv DEF XInv
<1>2. req[s].pc # "idle" /\ req[s].server \in known[req[s].token]
  BY DEF XInv
<1>3. req[s].token \in Tokens
  BY <1>1, <1>2 DEF RequestOK
<1>4. Understood /\ Admitted(s) => ~Valid(req[s].token)
  BY DEF XInv, LogoutIsHeeded
<1>5. QED
  BY <1>2, <1>3, <1>4, ValidityEnds DEF LateOK, Admitted, Understood

LEMMA OneRequest ==
  ASSUME XInv, RowsKept, EntriesKept,
         NEW r \in Req, NEW q \in Requests,
         req' = [req EXCEPT ![r] = q],
         RequestOK(q)',
         known' \in [Tokens -> SUBSET Servers],
         \A t \in Tokens : known[t] \subseteq known'[t],
         \A t \in Tokens : \A p \in known'[t] \ known[t] : Remembered(p, t)',
         late' \subseteq late \cup {r},
         r \in late' => LateOK(q)'
  PROVE  XInv'
<1>1. \A s \in Req : req'[s] = IF s = r THEN q ELSE req[s]
  BY TypesOfXInv
<1>2. XTypeOK'
  <2>1. req' \in [Req -> Requests]
    BY TypesOfXInv
  <2>2. QED
    BY <2>1, TypesOfXInv, EntriesStay DEF XTypeOK, RowsKept, Requests
<1>3. \A s \in Req : RequestOK(req[s])'
  <2>1. ASSUME NEW s \in Req PROVE RequestOK(req[s])'
    <3>1. CASE s = r
      BY <1>1, <3>1 DEF RequestOK
    <3>2. CASE s # r
      BY <1>1, <3>2, OthersStay DEF XInv
    <3>3. QED
      BY <3>1, <3>2
  <2>2. QED
    BY <2>1
<1>4. \A s \in late' : LateOK(req[s])'
  <2>1. ASSUME NEW s \in late' PROVE LateOK(req[s])'
    <3>1. CASE s = r
      BY <1>1, <2>1, <3>1 DEF LateOK
    <3>2. CASE s # r
      <4>1. s \in late /\ s \in Req /\ req'[s] = req[s]
        BY <1>1, <3>2, TypesOfXInv
      <4>2. req[s].token \in Tokens
        BY <4>1 DEF XInv, RequestOK
      <4>3. QED
        BY <4>1, <4>2, LateStays
    <3>3. QED
      BY <3>1, <3>2
  <2>2. QED
    BY <2>1
<1>5. \A t \in Tokens : \A p \in known'[t] : Remembered(p, t)'
  <2>1. ASSUME NEW t \in Tokens, NEW p \in known[t] PROVE Remembered(p, t)'
    <3>1. p \in Servers /\ Remembered(p, t)
      BY TypesOfXInv DEF XInv
    <3>2. QED
      BY <3>1, EntriesStay
  <2>2. QED
    BY <2>1
<1>6. LogoutIsHeeded'
  BY <1>4 DEF LateOK, LogoutIsHeeded, Admitted, Understood
<1>7. QED
  BY <1>2, <1>3, <1>4, <1>5, <1>6, EntriesStay DEF XInv, LateOK

LEMMA NoRequest ==
  ASSUME XInv, RowsKept, EntriesKept, UNCHANGED <<req, known, late>>
  PROVE  XInv'
<1>1. XTypeOK'
  BY TypesOfXInv, EntriesStay DEF XTypeOK, RowsKept, Requests
<1>2. \A s \in Req : RequestOK(req[s])'
  BY OthersStay DEF XInv
<1>3. \A s \in late : LateOK(req[s])'
  BY LateStays
<1>4. \A t \in Tokens : \A p \in known[t] : Remembered(p, t)'
  BY TypesOfXInv, EntriesStay DEF XInv
<1>5. LogoutIsHeeded'
  BY <1>3 DEF LateOK, LogoutIsHeeded, Admitted, Understood
<1>6. QED
  BY <1>1, <1>2, <1>3, <1>4, <1>5, EntriesStay DEF XInv, LateOK

-----------------------------------------------------------------------------
(* authenticate.                                                           *)

\* Where no row, entry or request is touched.
LEMMA NothingTouched ==
  ASSUME XInv, UNCHANGED <<clock, redisOn, refresh, redis, list>>
  PROVE  RowsKept /\ EntriesKept
  BY TypesOfXInv DEF RowsKept, EntriesKept, EntryOK

LEMMA LeaveStep ==
  ASSUME XInv, RowsKept, EntriesKept, NEW r \in Req, Leave(r),
         known' \in [Tokens -> SUBSET Servers],
         \A t \in Tokens : known[t] \subseteq known'[t],
         \A t \in Tokens : \A p \in known'[t] \ known[t] : Remembered(p, t)'
  PROVE  XInv'
<1>1. IdleReq \in Requests /\ RequestOK(IdleReq)'
  BY DEF IdleReq, Requests, RequestOK
<1>2. late' \subseteq late /\ r \notin late' /\ req' = [req EXCEPT ![r] = IdleReq]
  BY DEF Leave
<1>3. QED
  BY <1>1, <1>2, OneRequest

LEMMA KnownUnchanged ==
  ASSUME XInv, UNCHANGED known
  PROVE  /\ known' \in [Tokens -> SUBSET Servers]
         /\ \A t \in Tokens : known[t] \subseteq known'[t]
         /\ \A t \in Tokens : \A p \in known'[t] \ known[t] : Remembered(p, t)'
  BY TypesOfXInv

LEMMA IssueStep ==
  ASSUME XInv, NEW u \in Users, Issue(u)
  PROVE  XInv'
<1> DEFINE t == [user |-> u, iat |-> clock]
<1>1. t \in Tokens
  BY TypesOfXInv, AccessAssumption DEF Issue, Tokens
<1>2. refresh' = [refresh EXCEPT ![t] = "usable"] /\ refresh[t] = "none"
  BY DEF Issue
<1>3. t.iat = clock
  OBVIOUS
<1> HIDE DEF t
<1>4. RowsKept
  BY <1>1, <1>2, <1>3, TypesOfXInv DEF RowsKept, Issue
<1>5. EntriesKept
  BY TypesOfXInv DEF EntriesKept, EntryOK, Issue
<1>6. QED
  BY <1>4, <1>5, NoRequest DEF Issue

LEMMA ArriveStep ==
  ASSUME XInv, NEW r \in Req, NEW p \in Servers, NEW t \in Tokens, Arrive(r, p, t)
  PROVE  XInv'
<1> DEFINE q == [pc |-> "check", server |-> p, token |-> t]
<1>1. RowsKept /\ EntriesKept
  BY NothingTouched DEF Arrive
<1>2. q \in Requests /\ RequestOK(q)'
  BY DEF Requests, RequestOK, Arrive
<1>3. late' \subseteq late \cup {r} /\ (r \in late' => LateOK(q)')
  <2>1. r \notin late
    BY DEF XInv, Arrive, IdleReq
  <2>2. QED
    BY <2>1 DEF Arrive, LateOK
<1>4. req' = [req EXCEPT ![r] = q] /\ UNCHANGED known
  BY DEF Arrive
<1> HIDE DEF q
<1>5. QED
  BY <1>1, <1>2, <1>3, <1>4, KnownUnchanged, OneRequest

\* A server that passes a token whose logout it knows finds it run out.
LEMMA PassStep ==
  ASSUME XInv, NEW r \in Req, Pass(r)
  PROVE  XInv'
<1>1. PICK p \in Servers, t \in Tokens : req[r].server = p /\ req[r].token = t
  BY TypesOfXInv DEF XInv, RequestOK, Pass
<1>2. /\ req[r] \in Requests /\ req[r].pc = "check"
      /\ refresh[t] # "none"
  BY <1>1, TypesOfXInv DEF XInv, RequestOK, Pass
<1> DEFINE q == [req[r] EXCEPT !.pc = "user"]
<1>3. q = [pc |-> "user", server |-> p, token |-> t]
  BY <1>1, <1>2 DEF Requests
<1>4. req' = [req EXCEPT ![r] = [pc |-> "user", server |-> p, token |-> t]]
  BY <1>3 DEF Pass
<1>5. clock >= redis[t] /\ clock >= list[p][t]
  BY <1>1 DEF Pass, MayBeUnlisted
<1>6. RowsKept
  BY TypesOfXInv DEF RowsKept, Pass
<1>7. EntriesKept
  <2>1. list' = [list EXCEPT ![p][t] = 0]
    BY <1>1 DEF Pass
  <2>2. list' \in [Servers -> [Tokens -> Nat]]
    BY <2>1, TypesOfXInv
  <2>3. \A x \in Tokens, s \in Servers :
          list'[s][x] = list[s][x] \/ (list'[s][x] = 0 /\ clock >= list[s][x])
    BY <1>5, <2>1, TypesOfXInv
  <2>4. UNCHANGED redis
    BY DEF Pass
  <2>5. QED
    BY <2>2, <2>3, <2>4, TypesOfXInv DEF EntriesKept, EntryOK
<1>8. ASSUME r \in late, Understood
      PROVE  ~Valid(t)
  <2>1. Remembered(p, t)
    BY <1>1, <1>8 DEF XInv
  <2>2. SUFFICES ASSUME Valid(t) PROVE FALSE
    OBVIOUS
  <2>3. (IF redisOn THEN redis[t] ELSE list[p][t]) # 0
    BY <1>8, <2>1, <2>2 DEF Remembered
  <2>4. clock >= t.iat + Lifetime
    <3>1. /\ redis[t] # 0 => redis[t] >= t.iat + Lifetime
          /\ list[p][t] # 0 => list[p][t] >= t.iat + Lifetime
      BY <1>8 DEF XInv, EntriesOutliveTokens
    <3>2. /\ redis[t] \in Nat /\ list[p][t] \in Nat /\ clock \in Nat
          /\ t.iat + Lifetime \in Nat
      BY TypesOfXInv, Durations, TokenTimes, AccessAssumption
    <3>3. QED
      BY <1>5, <2>3, <3>1, <3>2
  <2>5. QED
    BY <2>2, <2>4, TypesOfXInv, Durations, TokenTimes, AccessAssumption DEF Valid
<1>9. r \in late => LateOK([pc |-> "user", server |-> p, token |-> t])'
  <2>1. ASSUME r \in late PROVE p \in known[t]
    BY <1>1, <2>1 DEF XInv
  <2>2. Valid(t)' <=> Valid(t)
    BY DEF Valid, Pass
  <2>3. UNCHANGED known
    BY DEF Pass
  <2>4. QED
    BY <1>8, <2>1, <2>2, <2>3 DEF LateOK, Understood
<1>10. RequestOK([pc |-> "user", server |-> p, token |-> t])'
  BY <1>2, <1>6 DEF RequestOK, RowsKept
<1>11. [pc |-> "user", server |-> p, token |-> t] \in Requests
  BY DEF Requests
<1>12. UNCHANGED <<known, late>>
  BY DEF Pass
<1>13. QED
  BY <1>4, <1>6, <1>7, <1>9, <1>10, <1>11, <1>12, KnownUnchanged, OneRequest

\* Refusals, other handlers, and failures: the request goes, and that is all.
LEMMA GoneStep ==
  ASSUME XInv, NEW r \in Req, Refuse(r) \/ Serve(r) \/ Fail(r)
  PROVE  XInv'
<1>1. Leave(r) /\ UNCHANGED <<clock, redisOn, refresh, redis, list, known>>
  BY DEF Refuse, Serve, Fail
<1>2. QED
  BY <1>1, NothingTouched, KnownUnchanged, LeaveStep

-----------------------------------------------------------------------------
(* logout.                                                                 *)

\* What a request behind authenticate is.
LEMMA InHandler ==
  ASSUME XInv, NEW r \in Req, req[r].pc \in {"user", "list", "revoke"}
  PROVE  \E p \in Servers, t \in Tokens :
           /\ req[r] = [pc |-> req[r].pc, server |-> p, token |-> t]
           /\ refresh[t] # "none"
           /\ req[r].pc = "revoke" => Remembered(p, t)
           /\ r \in late => p \in known[t] /\ (Understood => ~Valid(t))
<1>1. PICK p \in Servers, t \in Tokens : req[r].server = p /\ req[r].token = t
  BY TypesOfXInv DEF XInv, RequestOK
<1>2. req[r] \in Requests /\ RequestOK(req[r])
  BY TypesOfXInv DEF XInv
<1>3. req[r] = [pc |-> req[r].pc, server |-> p, token |-> t]
  BY <1>1, <1>2 DEF Requests
<1>4. r \in late => p \in known[t] /\ (Understood => ~Valid(t))
  BY <1>1 DEF XInv, LogoutIsHeeded, Admitted
<1>5. QED
  BY <1>1, <1>2, <1>3, <1>4 DEF RequestOK

\* A request goes on to the next call of logout.
LEMMA LogoutGoesOn ==
  ASSUME XInv, NEW r \in Req, req[r].pc \in {"user", "list"},
         NEW l \in {"list", "revoke"}, req' = [req EXCEPT ![r].pc = l],
         UNCHANGED <<clock, redisOn, refresh, known, late>>,
         EntriesKept,
         l = "list" => redisOn,
         l = "revoke" => Remembered(req[r].server, req[r].token)'
  PROVE  XInv'
<1>1. PICK p \in Servers, t \in Tokens :
           /\ req[r] = [pc |-> req[r].pc, server |-> p, token |-> t]
           /\ refresh[t] # "none"
           /\ r \in late => p \in known[t] /\ (Understood => ~Valid(t))
  BY InHandler
<1> DEFINE q == [pc |-> l, server |-> p, token |-> t]
<1>2. req' = [req EXCEPT ![r] = q]
  <2>1. [req[r] EXCEPT !.pc = l] = q
    BY <1>1
  <2>2. req' = [req EXCEPT ![r] = [req[r] EXCEPT !.pc = l]]
    OBVIOUS
  <2>3. QED
    BY <2>1, <2>2
<1>3. RowsKept
  BY TypesOfXInv DEF RowsKept
<1>4. q \in Requests
  BY DEF Requests
<1>5. l = "revoke" => Remembered(p, t)'
  BY <1>1, TypesOfXInv DEF Remembered, Valid
<1>6. RequestOK(q)'
  BY <1>1, <1>3, <1>5 DEF RequestOK, RowsKept
<1>7. r \in late => LateOK(q)'
  BY <1>1 DEF LateOK, Valid, Understood
<1> HIDE DEF q
<1>8. QED
  BY <1>2, <1>3, <1>4, <1>6, <1>7, KnownUnchanged, OneRequest

LEMMA NewDeadline ==
  ASSUME XInv
  PROVE  clock + Ttl \in Nat \ {0}
  BY TypesOfXInv, Durations, AccessAssumption

LEMMA StartLogoutStep ==
  ASSUME XInv, NEW r \in Req, StartLogout(r)
  PROVE  XInv'
<1>1. req[r].pc = "user"
  BY DEF StartLogout
<1>2. PICK p \in Servers, t \in Tokens :
        req[r] = [pc |-> req[r].pc, server |-> p, token |-> t] /\ refresh[t] # "none"
  BY <1>1, InHandler
<1>3. req[r].server = p /\ req[r].token = t
  BY <1>2
<1>4. CASE redisOn
  <2>1. req' = [req EXCEPT ![r].pc = "list"] /\ UNCHANGED <<redis, list>>
    BY <1>4 DEF StartLogout
  <2>2. EntriesKept
    BY <2>1, TypesOfXInv DEF EntriesKept, EntryOK
  <2>3. QED
    BY <1>1, <1>4, <2>1, <2>2, LogoutGoesOn DEF StartLogout
<1>5. CASE ~redisOn
  <2>1. /\ list' = [list EXCEPT ![p][t] = clock + Ttl]
        /\ req' = [req EXCEPT ![r].pc = "revoke"]
        /\ UNCHANGED <<redis, redisOn>>
    BY <1>3, <1>5 DEF StartLogout
  <2>2. EntriesKept
    BY <1>2, <2>1, NewDeadline, TypesOfXInv DEF EntriesKept, EntryOK
  <2>3. Remembered(p, t)'
    BY <1>5, <2>1, NewDeadline, TypesOfXInv DEF Remembered
  <2>4. Remembered(req[r].server, req[r].token)'
    <3>1. (req[r].server)' = p /\ (req[r].token)' = t
      BY <1>3, <2>1, TypesOfXInv
    <3>2. QED
      BY <2>3, <3>1 DEF Remembered, Valid
  <2>5. QED
    BY <1>1, <2>1, <2>2, <2>4, LogoutGoesOn DEF StartLogout
<1>6. QED
  BY <1>4, <1>5

LEMMA ListInRedisStep ==
  ASSUME XInv, NEW r \in Req, ListInRedis(r)
  PROVE  XInv'
<1>1. req[r].pc = "list"
  BY DEF ListInRedis
<1>2. PICK p \in Servers, t \in Tokens :
        req[r] = [pc |-> req[r].pc, server |-> p, token |-> t] /\ refresh[t] # "none"
  BY <1>1, InHandler
<1> req[r].server = p /\ req[r].token = t
  BY <1>2
<1>3. /\ redis' = [redis EXCEPT ![t] = clock + Ttl]
      /\ req' = [req EXCEPT ![r].pc = "revoke"]
      /\ UNCHANGED <<clock, redisOn, refresh, list, known, late>>
  BY <1>2 DEF ListInRedis
<1>4. EntriesKept
  <2>1. redis' \in [Tokens -> Nat]
    BY <1>3, NewDeadline, TypesOfXInv
  <2>2. \A x \in Tokens : redis'[x] = redis[x] \/ (redis'[x] = clock + Ttl /\ x = t)
    BY <1>3, TypesOfXInv
  <2>3. QED
    BY <1>2, <1>3, <2>1, <2>2, TypesOfXInv DEF EntriesKept, EntryOK
<1>5. redisOn
  BY <1>1 DEF XInv, RequestOK
<1>6. redis'[t] # 0
  BY <1>3, NewDeadline, TypesOfXInv
<1>7. Remembered(req[r].server, req[r].token)'
  <2>1. (req[r].token)' = t
    BY <1>2, <1>3, TypesOfXInv
  <2>2. QED
    BY <1>3, <1>5, <1>6, <2>1 DEF Remembered
<1>8. QED
  BY <1>1, <1>3, <1>4, <1>7, LogoutGoesOn

\* The answer to a logout: whoever shares its list now knows of it.
LEMMA RevokeRefreshStep ==
  ASSUME XInv, NEW r \in Req, NEW x \in Tokens, RevokeRefresh(r, x)
  PROVE  XInv'
<1>1. req[r].pc = "revoke"
  BY DEF RevokeRefresh
<1>2. PICK p \in Servers, t \in Tokens :
        /\ req[r] = [pc |-> req[r].pc, server |-> p, token |-> t]
        /\ req[r].pc = "revoke" => Remembered(p, t)
  BY <1>1, InHandler
<1> req[r].server = p /\ req[r].token = t
  BY <1>2
<1> DEFINE S == IF redisOn THEN Servers ELSE {p}
<1>3. /\ known' = [known EXCEPT ![t] = @ \cup S]
      /\ UNCHANGED <<clock, redisOn, redis, list>> /\ Leave(r)
  BY <1>2 DEF RevokeRefresh
<1>4. RowsKept
  <2>1. \/ refresh' = refresh
        \/ refresh' = [refresh EXCEPT ![x] = "revoked"] /\ refresh[x] = "usable"
    BY DEF RevokeRefresh
  <2>2. refresh' \in [Tokens -> {"none", "usable", "revoked"}]
    BY <2>1, TypesOfXInv
  <2>3. \A y \in Tokens : refresh[y] = "none" <=> refresh'[y] = "none"
    BY <2>1, TypesOfXInv
  <2>4. QED
    BY <1>3, <2>2, <2>3, TypesOfXInv DEF RowsKept
<1>5. EntriesKept
  BY <1>3, TypesOfXInv DEF EntriesKept, EntryOK
<1>6. S \subseteq Servers
  OBVIOUS
<1>7. \A s \in S : Remembered(s, t)
  BY <1>1, <1>2 DEF Remembered
<1> HIDE DEF S
<1>8. \A y \in Tokens : known'[y] = IF y = t THEN known[y] \cup S ELSE known[y]
  BY <1>3, TypesOfXInv
<1>9. known' \in [Tokens -> SUBSET Servers]
  BY <1>3, <1>6, TypesOfXInv
<1>10. \A y \in Tokens : \A s \in known'[y] \ known[y] : Remembered(s, y)'
  BY <1>4, <1>5, <1>6, <1>7, <1>8, EntriesStay
<1>11. QED
  BY <1>3, <1>4, <1>5, <1>8, <1>9, <1>10, LeaveStep

-----------------------------------------------------------------------------
(* Time, restarts.                                                         *)

LEMMA TickStep ==
  ASSUME XInv, Tick
  PROVE  XInv'
<1>1. RowsKept
  BY TypesOfXInv, AccessAssumption DEF RowsKept, Tick
<1>2. EntriesKept
  BY TypesOfXInv DEF EntriesKept, EntryOK, Tick
<1>3. QED
  BY <1>1, <1>2, NoRequest DEF Tick

LEMMA CleanupStep ==
  ASSUME XInv, NEW p \in Servers, Cleanup(p)
  PROVE  XInv'
<1>1. RowsKept
  BY TypesOfXInv DEF RowsKept, Cleanup
<1>2. EntriesKept
  <2>1. list' = [list EXCEPT ![p] = [t \in Tokens |-> IF clock > list[p][t] THEN 0 ELSE list[p][t]]]
    BY DEF Cleanup
  <2>2. list' \in [Servers -> [Tokens -> Nat]]
    BY <2>1, TypesOfXInv
  <2>3. \A s \in Servers, t \in Tokens :
          list'[s][t] = list[s][t] \/ (list'[s][t] = 0 /\ clock >= list[s][t])
    BY <2>1, TypesOfXInv
  <2>4. UNCHANGED redis
    BY DEF Cleanup
  <2>5. QED
    BY <2>2, <2>3, <2>4, TypesOfXInv DEF EntriesKept, EntryOK
<1>3. QED
  BY <1>1, <1>2, NoRequest DEF Cleanup

\* A restart forgets the Map of a server; with Redis that is no loss, and
\* without, nobody counts on it any more: its requests are gone with it.
LEMMA RestartStep ==
  ASSUME XInv, NEW p \in Servers, Restart(p)
  PROVE  XInv'
<1>1. UNCHANGED <<clock, redisOn, refresh, redis>>
  BY DEF Restart
<1>2. /\ list' \in [Servers -> [Tokens -> Deadlines]]
      /\ \A s \in Servers, t \in Tokens : list'[s][t] = IF s = p THEN 0 ELSE list[s][t]
  <2>1. 0 \in Deadlines
    BY Durations, AccessAssumption DEF Deadlines
  <2>2. list' = [list EXCEPT ![p] = Empty] /\ list \in [Servers -> [Tokens -> Deadlines]]
    BY DEF Restart, XInv, XTypeOK
  <2>3. Empty \in [Tokens -> Deadlines] /\ \A t \in Tokens : Empty[t] = 0
    BY <2>1 DEF Empty
  <2>4. QED
    BY <2>2, <2>3
<1>3. \A r \in Req : req'[r] = IF req[r].server = p THEN IdleReq ELSE req[r]
  BY DEF Restart
<1>4. /\ known' \in [Tokens -> SUBSET Servers]
      /\ \A t \in Tokens : known'[t] = IF redisOn THEN known[t] ELSE known[t] \ {p}
  BY TypesOfXInv DEF Restart
<1>5. late' \subseteq late /\ \A r \in late' : req[r].server # p
  BY DEF Restart
<1>6. \A t \in Tokens : Valid(t)' <=> Valid(t)
  BY <1>1 DEF Valid
<1>7. XTypeOK'
  <2>1. req' \in [Req -> Requests]
    <3>1. IdleReq \in Requests /\ req \in [Req -> Requests]
      BY TypesOfXInv DEF IdleReq, Requests
    <3>2. req' = [r \in Req |-> IF req[r].server = p THEN IdleReq ELSE req[r]]
      BY DEF Restart
    <3>3. QED
      BY <3>1, <3>2
  <2>2. QED
    BY <1>1, <1>2, <1>4, <1>5, <2>1 DEF XInv, XTypeOK, Requests, Deadlines
<1>8. EntriesOutliveTokens'
  BY <1>1, <1>2 DEF XInv, EntriesOutliveTokens, Understood
<1>9. ASSUME NEW s \in Servers, NEW t \in Tokens, Remembered(s, t), redisOn \/ s # p
      PROVE  Remembered(s, t)'
  BY <1>1, <1>2, <1>6, <1>9 DEF Remembered, Understood
<1>10. ASSUME NEW r \in Req PROVE RequestOK(req[r])'
  <2>1. CASE req[r].server = p
    BY <1>3, <2>1 DEF RequestOK, IdleReq
  <2>2. CASE req[r].server # p
    BY <1>1, <1>3, <1>9, <2>2 DEF RequestOK, XInv
  <2>3. QED
    BY <2>1, <2>2
<1>11. ASSUME NEW t \in Tokens, NEW s \in known'[t] PROVE Remembered(s, t)'
  <2>1. s \in known[t] /\ s \in Servers /\ (redisOn \/ s # p)
    BY <1>4, TypesOfXInv
  <2>2. Remembered(s, t)
    BY <2>1 DEF XInv
  <2>3. QED
    BY <1>9, <2>1, <2>2
<1>12. ASSUME NEW r \in late' PROVE LateOK(req[r])'
  <2>1. r \in late /\ r \in Req /\ req'[r] = req[r] /\ req[r].server # p
    BY <1>3, <1>5, TypesOfXInv
  <2>2. req[r].pc # "idle" /\ req[r].server \in known[req[r].token] /\ req[r].token \in Tokens
    BY <2>1 DEF XInv, RequestOK
  <2>3. Understood /\ Admitted(r) => ~Valid(req[r].token)
    BY <2>1 DEF XInv, LogoutIsHeeded
  <2>4. QED
    BY <1>4, <1>6, <2>1, <2>2, <2>3 DEF LateOK, Admitted, Understood
<1>13. LogoutIsHeeded'
  BY <1>12 DEF LateOK, LogoutIsHeeded, Admitted, Understood
<1>14. QED
  BY <1>1, <1>7, <1>8, <1>10, <1>11, <1>12, <1>13 DEF XInv, LateOK

-----------------------------------------------------------------------------

LEMMA XInitInv == XInit => XInv
<1> SUFFICES ASSUME XInit PROVE XInv
  OBVIOUS
<1>1. Empty \in [Tokens -> Deadlines] /\ \A t \in Tokens : Empty[t] = 0
  BY Durations, AccessAssumption DEF Empty, Deadlines
<1>2. XTypeOK
  BY <1>1, AccessAssumption DEF XInit, XTypeOK, IdleReq
<1>3. EntriesOutliveTokens /\ LogoutIsHeeded
  BY <1>1 DEF XInit, EntriesOutliveTokens, LogoutIsHeeded
<1>4. \A r \in Req : RequestOK(req[r])
  BY DEF XInit, RequestOK, IdleReq
<1>5. QED
  BY <1>2, <1>3, <1>4 DEF XInit, XInv

LEMMA XNextInv ==
  ASSUME XInv, [XNext]_xvars
  PROVE  XInv'
<1>1. ASSUME NEW r \in Req, NEW p \in Servers, NEW t \in Tokens, Arrive(r, p, t)
      PROVE  XInv'
  BY <1>1, ArriveStep
<1>2. ASSUME NEW r \in Req, Refuse(r) \/ Serve(r) \/ Fail(r)
      PROVE  XInv'
  BY <1>2, GoneStep
<1>3. ASSUME NEW r \in Req, Pass(r)
      PROVE  XInv'
  BY <1>3, PassStep
<1>4. ASSUME NEW r \in Req, StartLogout(r)
      PROVE  XInv'
  BY <1>4, StartLogoutStep
<1>5. ASSUME NEW r \in Req, ListInRedis(r)
      PROVE  XInv'
  BY <1>5, ListInRedisStep
<1>6. ASSUME NEW r \in Req, NEW x \in Tokens, RevokeRefresh(r, x)
      PROVE  XInv'
  BY <1>6, RevokeRefreshStep
<1>7. ASSUME NEW u \in Users, Issue(u)
      PROVE  XInv'
  BY <1>7, IssueStep
<1>8. ASSUME NEW p \in Servers, Cleanup(p)
      PROVE  XInv'
  BY <1>8, CleanupStep
<1>9. ASSUME NEW p \in Servers, Restart(p)
      PROVE  XInv'
  BY <1>9, RestartStep
<1>10. CASE Tick
  BY <1>10, TickStep
<1>11. CASE UNCHANGED xvars
  <2>1. RowsKept /\ EntriesKept
    BY <1>11, NothingTouched DEF xvars
  <2>2. QED
    BY <1>11, <2>1, NoRequest DEF xvars
<1>12. QED
  BY <1>1, <1>2, <1>3, <1>4, <1>5, <1>6, <1>7, <1>8, <1>9, <1>10, <1>11 DEF XNext

\* The invariant authenticate and logout rely on between them, through
\* restarts, failures and cleanups.
THEOREM XInvariant == XSpec => []XInv
<1>1. XInit => XInv
  BY XInitInv
<1>2. XInv /\ [XNext]_xvars => XInv'
  BY XNextInv
<1>3. QED
  BY <1>1, <1>2, PTL DEF XSpec

\* A token whose logout has been answered opens nothing more while it lives
\* (authenticate, logout), for lifetimes written in units parseDurationToMs
\* knows.
THEOREM LogoutsAreHeeded == XSpec => []LogoutIsHeeded
<1>1. XInv => LogoutIsHeeded
  BY DEF XInv
<1>2. QED
  BY <1>1, XInvariant, PTL

\* Forgetting an entry that has run out is harmless: its token has run out too
\* (inMemoryBlacklist.has).
THEOREM EntriesLastLongEnough == XSpec => []EntriesOutliveTokens
<1>1. XInv => EntriesOutliveTokens
  BY DEF XInv
<1>2. QED
  BY <1>1, XInvariant, PTL
=============================================================================
