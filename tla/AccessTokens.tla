---------------------------- MODULE AccessTokens ----------------------------
(***************************************************************************)
(* Access tokens on several servers: authenticate checks a token's         *)
(* lifetime, then whether a logout has listed it, then loads the user;     *)
(* logout lists the token and revokes the refresh token it is given.  The  *)
(* list is in Redis, shared by the servers and kept over their restarts,   *)
(* or, if Redis is not enabled, a Map in each server.                      *)
(*                                                                         *)
(* The clock shows whole seconds, as the times in a token do.  An entry of *)
(* the list is the second in which it runs out, 0 if there is none; within *)
(* that second it may be there or gone.  No operation deletes or           *)
(* deactivates a user.                                                     *)
(*                                                                         *)
(* A definition commented "Mutant" is used by no other: it is a plausible  *)
(* mistake in the definition that follows.                                 *)
(***************************************************************************)
EXTENDS Naturals

CONSTANTS
  Users,
  Servers,
  Req,              \* slots for requests in flight (bound: how many overlap)
  AccessExpiresIn,  \* JWT_ACCESS_EXPIRES_IN: a number and a unit
  MaxTime,          \* bound: the clock runs from 0 to MaxTime
  LastIssue,        \* bound: the last second in which tokens are issued
  NULL

\* The unit table of parseDurationToMs, in seconds.
Units == [s |-> 1, m |-> 60, h |-> 3600, d |-> 86400]

\* What the JWT library reads besides: weeks stand for all of it.
JwtUnits == [s |-> 1, m |-> 60, h |-> 3600, d |-> 86400, w |-> 604800]

ASSUME AccessAssumption ==
  /\ AccessExpiresIn \in [value : Nat \ {0}, unit : DOMAIN JwtUnits]
  /\ MaxTime \in Nat
  /\ LastIssue \in Nat
  /\ NULL \notin Servers

\* Mutant: half a unit is lost.
ParseDurationHalf(d) == (d.value * JwtUnits[d.unit]) \div 2

\* Seven days for what the pattern does not match.
ParseDuration(d) ==
  IF d.unit \in DOMAIN Units THEN d.value * Units[d.unit] ELSE 7 * 86400

JwtLifetime(d) == d.value * JwtUnits[d.unit]

Ttl == ParseDuration(AccessExpiresIn)
Lifetime == JwtLifetime(AccessExpiresIn)

\* As in Sessions, a token is its user and the second it was signed in.
Tokens == [user : Users, iat : 0 .. LastIssue]

VARIABLES
  clock,
  redisOn,   \* REDIS_ENABLED, the same on all servers and for good
  refresh,   \* per token, its refresh token: none (not issued), usable, revoked
  redis,     \* entries in Redis
  list,      \* entries in each server's Map
  req,       \* requests in flight
  known,     \* history: servers that answered a token's logout or share its list
  late       \* history: requests that arrived where the logout was known

xvars == <<clock, redisOn, refresh, redis, list, req, known, late>>

IdleReq == [pc |-> "idle", server |-> NULL, token |-> NULL]

Empty == [t \in Tokens |-> 0]

XInit ==
  /\ clock = 0
  /\ redisOn \in BOOLEAN
  /\ refresh = [t \in Tokens |-> "none"]
  /\ redis = Empty
  /\ list = [p \in Servers |-> Empty]
  /\ req = [r \in Req |-> IdleReq]
  /\ known = [t \in Tokens |-> {}]
  /\ late = {}

\* jwt.verify: the token has not expired.
Valid(t) == clock < t.iat + Lifetime

Leave(r) == /\ req' = [req EXCEPT ![r] = IdleReq]
            /\ late' = late \ {r}

-----------------------------------------------------------------------------
(* authenticate.                                                           *)

\* A pair is issued by login, signup or rotation; see Sessions.
Issue(u) ==
  LET t == [user |-> u, iat |-> clock]
  IN /\ clock <= LastIssue
     /\ refresh[t] = "none"
     /\ refresh' = [refresh EXCEPT ![t] = "usable"]
     /\ UNCHANGED <<clock, redisOn, redis, list, req, known, late>>

\* A request without a valid token is refused at once and changes nothing.
Arrive(r, p, t) ==
  /\ req[r] = IdleReq
  /\ refresh[t] # "none"
  /\ Valid(t)
  /\ req' = [req EXCEPT ![r] = [pc |-> "check", server |-> p, token |-> t]]
  /\ late' = IF p \in known[t] THEN late \cup {r} ELSE late
  /\ UNCHANGED <<clock, redisOn, refresh, redis, list, known>>

\* Mutant: the Map is not asked.
MayBeUnlistedInRedis(p, t) == clock >= redis[t]

\* The answer of redis.exists, then of inMemoryBlacklist.has.
MayBeListed(p, t) ==
  \E entry \in {redis[t], list[p][t]} : entry # 0 /\ clock <= entry

MayBeUnlisted(p, t) == clock >= redis[t] /\ clock >= list[p][t]

\* A listed token is refused.
Refuse(r) ==
  /\ req[r].pc = "check"
  /\ MayBeListed(req[r].server, req[r].token)
  /\ Leave(r)
  /\ UNCHANGED <<clock, redisOn, refresh, redis, list, known>>

\* An entry that has run out is deleted by the look at it.
Pass(r) ==
  /\ req[r].pc = "check"
  /\ MayBeUnlisted(req[r].server, req[r].token)
  /\ list' = [list EXCEPT ![req[r].server][req[r].token] = 0]
  /\ req' = [req EXCEPT ![r].pc = "user"]
  /\ UNCHANGED <<clock, redisOn, refresh, redis, known, late>>

\* The user is loaded and some other handler answers.
Serve(r) ==
  /\ req[r].pc = "user"
  /\ Leave(r)
  /\ UNCHANGED <<clock, redisOn, refresh, redis, list, known>>

-----------------------------------------------------------------------------
(* logout.                                                                 *)

\* The user is loaded and logout runs: to its call of Redis, or past the Map.
StartLogout(r) ==
  /\ req[r].pc = "user"
  /\ IF redisOn
     THEN req' = [req EXCEPT ![r].pc = "list"] /\ UNCHANGED list
     ELSE /\ list' = [list EXCEPT ![req[r].server][req[r].token] = clock + Ttl]
          /\ req' = [req EXCEPT ![r].pc = "revoke"]
  /\ UNCHANGED <<clock, redisOn, refresh, redis, known, late>>

ListInRedis(r) ==
  /\ req[r].pc = "list"
  /\ redis' = [redis EXCEPT ![req[r].token] = clock + Ttl]
  /\ req' = [req EXCEPT ![r].pc = "revoke"]
  /\ UNCHANGED <<clock, redisOn, refresh, list, known, late>>

\* A usable refresh token the caller owns and sent along, if any, is revoked.
RevokeRefresh(r, x) ==
  /\ req[r].pc = "revoke"
  /\ x.user = req[r].token.user
  /\ refresh' = IF refresh[x] = "usable" THEN [refresh EXCEPT ![x] = "revoked"]
                ELSE refresh
  /\ known' = [known EXCEPT ![req[r].token] =
                 @ \cup (IF redisOn THEN Servers ELSE {req[r].server})]
  /\ Leave(r)
  /\ UNCHANGED <<clock, redisOn, redis, list>>

-----------------------------------------------------------------------------
(* Time, failure, restarts.                                                *)

Tick ==
  /\ clock < MaxTime
  /\ clock' = clock + 1
  /\ UNCHANGED <<redisOn, refresh, redis, list, req, known, late>>

\* Redis or the database fails the request: what it has written stays.
Fail(r) ==
  /\ req[r].pc # "idle"
  /\ Leave(r)
  /\ UNCHANGED <<clock, redisOn, refresh, redis, list, known>>

\* Mutants: an entry goes in its last second; or it is kept for one more
\* second, run after run.
CleanupSoon(p) ==
  /\ list' = [list EXCEPT ![p] = [t \in Tokens |-> IF clock + 1 >= @[t] THEN 0 ELSE @[t]]]
  /\ UNCHANGED <<clock, redisOn, refresh, redis, req, known, late>>

CleanupLate(p) ==
  /\ \E t \in Tokens : list[p][t] # 0 /\ clock > list[p][t] + 1
  /\ list' = [list EXCEPT ![p] = [t \in Tokens |-> IF clock > @[t] + 1 THEN 0 ELSE @[t]]]
  /\ UNCHANGED <<clock, redisOn, refresh, redis, req, known, late>>

\* The timer of inMemoryBlacklist.js: whatever has run out goes.
Cleanup(p) ==
  /\ \E t \in Tokens : list[p][t] # 0 /\ clock > list[p][t]
  /\ list' = [list EXCEPT ![p] = [t \in Tokens |-> IF clock > @[t] THEN 0 ELSE @[t]]]
  /\ UNCHANGED <<clock, redisOn, refresh, redis, req, known, late>>

\* A server starts afresh: its Map and its requests are gone.
Restart(p) ==
  /\ list' = [list EXCEPT ![p] = Empty]
  /\ req' = [r \in Req |-> IF req[r].server = p THEN IdleReq ELSE req[r]]
  /\ late' = {r \in late : req[r].server # p}
  /\ known' = IF redisOn THEN known ELSE [t \in Tokens |-> known[t] \ {p}]
  /\ UNCHANGED <<clock, redisOn, refresh, redis>>

XNext ==
  \/ \E r \in Req :
       \/ \E p \in Servers, t \in Tokens : Arrive(r, p, t)
       \/ Refuse(r) \/ Pass(r) \/ Serve(r)
       \/ StartLogout(r) \/ ListInRedis(r)
       \/ \E x \in Tokens : RevokeRefresh(r, x)
       \/ Fail(r)
  \/ \E u \in Users : Issue(u)
  \/ \E p \in Servers : Cleanup(p) \/ Restart(p)
  \/ Tick

XSpec == XInit /\ [][XNext]_xvars

\* The cleanup timer runs as long as its server does.
FairXSpec == XSpec /\ \A p \in Servers : WF_xvars(Cleanup(p))

-----------------------------------------------------------------------------

Deadlines == 0 .. (MaxTime + Ttl)

\* Entries, requests and the rest have their types.
XTypeOK ==
  /\ clock \in 0 .. MaxTime
  /\ redisOn \in BOOLEAN
  /\ refresh \in [Tokens -> {"none", "usable", "revoked"}]
  /\ redis \in [Tokens -> Deadlines]
  /\ list \in [Servers -> [Tokens -> Deadlines]]
  /\ req \in [Req -> [pc : {"idle", "check", "user", "list", "revoke"},
                      server : Servers \cup {NULL}, token : Tokens \cup {NULL}]]
  /\ known \in [Tokens -> SUBSET Servers]
  /\ late \subseteq Req

\* The lifetime is written in units that parseDurationToMs knows.
Understood == AccessExpiresIn.unit \in DOMAIN Units

\* Request r has got past authenticate.
Admitted(r) == req[r].pc \in {"user", "list", "revoke"}

\* Once a logout is answered, its access token opens nothing any more: not on
\* any server with Redis, restarts or not, and not on the server that
\* answered, until it restarts, without.  A request that was checked in the
\* very second the token's lifetime ended may get through.
LogoutIsHeeded ==
  Understood => \A r \in late : Admitted(r) => ~Valid(req[r].token)

\* An entry of the list lasts as long as its token, so that forgetting it is
\* harmless (has: "the JWT verification step will reject it first").
EntriesOutliveTokens ==
  Understood =>
    \A t \in Tokens :
      /\ redis[t] # 0 => redis[t] >= t.iat + Lifetime
      /\ \A p \in Servers : list[p][t] # 0 => list[p][t] >= t.iat + Lifetime

\* A token that could still be used is on the list a look-up at p asks.
Remembered(p, t) ==
  Understood /\ Valid(t) => (IF redisOn THEN redis[t] ELSE list[p][t]) # 0

\* Behind authenticate there is an issued token, and before the answer to a
\* logout an entry for it.
RequestOK(q) ==
  q.pc # "idle" =>
    /\ q.server \in Servers /\ q.token \in Tokens
    /\ refresh[q.token] # "none"
    /\ q.pc = "list" => redisOn
    /\ q.pc = "revoke" => Remembered(q.server, q.token)

\* What makes logout hold: entries that run out after their tokens, and every
\* server that is said to know of a logout remembering it, through restarts,
\* cleanups, failures and the passing of time.
XInv ==
  /\ XTypeOK /\ EntriesOutliveTokens /\ LogoutIsHeeded
  /\ \A t \in Tokens : refresh[t] # "none" => t.iat <= clock
  /\ \A r \in Req : RequestOK(req[r])
  /\ \A t \in Tokens : \A p \in known[t] : Remembered(p, t)
  /\ \A r \in late : req[r].pc # "idle" /\ req[r].server \in known[req[r].token]

\* The Map does not grow for ever: what has run out is removed ("keeping
\* memory bounded"), although nobody may ever ask for it again, unless a
\* logout that was under way enters it anew.
RunOutEntriesGo ==
  \A p \in Servers, t \in Tokens :
    (list[p][t] # 0 /\ clock > list[p][t]) ~> (list[p][t] = 0 \/ clock <= list[p][t])
=============================================================================
