---------------------------- MODULE ServerProofs ----------------------------
(***************************************************************************)
(* Proofs about the server process (ServerLife), for every number of       *)
(* connections and signals, and about its rate limiters (LoginLimits), for *)
(* every limit, every set of addresses and accounts and every finite       *)
(* number of requests at once.  The two parts share nothing.               *)
(***************************************************************************)
EXTENDS ServerLife, LoginLimits, FiniteSetTheorems, TLAPS

LEMMA LInitInv == LInit => LInv
  BY DEF LInit, LInv, LTypeOK, NobodyWaitsAtTheEnd, Closing

\* The process ends: with success only when clients have been answered.
LEMMA ExitStep ==
  ASSUME LInv, NEW n \in {"0", "1"}, Exit(n),
         n = "0" => \A c \in Conns : conn[c] = "free"
  PROVE  LInv'
  BY DEF LInv, LTypeOK, NobodyWaitsAtTheEnd, Closing, Exit, jobs, stopping

\* Starting and cleaning up; a listening server is not being closed yet.
LEMMA StartStep ==
  ASSUME LInv, ConnectRedis \/ Listen \/ TimerFires \/ CleanupEnds
  PROVE  LInv'
<1>1. UNCHANGED <<code, conn, signalled, closer, armed>>
  BY DEF ConnectRedis, Listen, TimerFires, CleanupEnds, process, stopping
<1>2. LTypeOK'
  BY <1>1 DEF LInv, LTypeOK, ConnectRedis, Listen, TimerFires, CleanupEnds, process, jobs
<1>3. NobodyWaitsAtTheEnd' /\ (Closing' <=> Closing)
  BY <1>1 DEF LInv, NobodyWaitsAtTheEnd, Closing
<1>4. code = "none"
  BY DEF LInv, ConnectRedis, Listen, TimerFires, CleanupEnds
<1>5. Closing => UNCHANGED <<phase, interval>>
  BY DEF LInv, ConnectRedis, Listen, TimerFires, CleanupEnds, process, jobs
<1>6. QED
  BY <1>1, <1>2, <1>3, <1>4, <1>5 DEF LInv

\* A client may be waiting only while no shutdown has got to the database:
\* connections are accepted before server.close, and an idle one that takes
\* another request has kept the callback of server.close from running.
LEMMA ConnectionStep ==
  ASSUME LInv, NEW c \in Conns,
         Connect(c) \/ NextRequest(c) \/ Answer(c) \/ HangUp(c)
  PROVE  LInv'
<1>1. NobodyWaitsAtTheEnd'
  BY DEF LInv, LTypeOK, NobodyWaitsAtTheEnd, Closing, Connect, NextRequest,
         Answer, HangUp, process, jobs, stopping
<1>2. LTypeOK'
  BY DEF LInv, LTypeOK, Connect, NextRequest, Answer, HangUp, process, jobs, stopping
<1>3. UNCHANGED <<phase, code, interval, closer, armed>>
  BY DEF Connect, NextRequest, Answer, HangUp, process, jobs, stopping
<1>4. QED
  BY <1>1, <1>2, <1>3 DEF LInv, Closing

LEMMA SignalStep ==
  ASSUME LInv, NEW s \in Signals, Signal(s)
  PROVE  LInv'
<1>1. LTypeOK'
  BY DEF LInv, LTypeOK, Signal, process
<1>2. NobodyWaitsAtTheEnd'
  BY DEF LInv, LTypeOK, NobodyWaitsAtTheEnd, Signal, process
<1>3. (code # "none" => phase = "exited")'
  BY DEF LInv, Signal, process
<1>4. (Closing => phase \in {"up", "exited"} /\ ~interval /\ armed)'
  BY DEF LInv, LTypeOK, Closing, Signal, Running, process
<1>5. QED
  BY <1>1, <1>2, <1>3, <1>4 DEF LInv

\* The steps of one shutdown() up to the exit.
LEMMA CloserStep ==
  ASSUME LInv, NEW s \in Signals, Closed(s) \/ DisconnectDatabase(s)
  PROVE  LInv'
<1>1. LTypeOK'
  BY DEF LInv, LTypeOK, Closed, DisconnectDatabase, process, jobs
<1>2. NobodyWaitsAtTheEnd'
  BY DEF LInv, LTypeOK, NobodyWaitsAtTheEnd, Closed, DisconnectDatabase, process, jobs
<1>3. Closing /\ UNCHANGED <<phase, code, interval, armed>>
  BY DEF Closing, Closed, DisconnectDatabase, process, jobs
<1>4. QED
  BY <1>1, <1>2, <1>3 DEF LInv

LEMMA LNextInv ==
  ASSUME LInv, [LNext]_lvars
  PROVE  LInv'
<1>1. CASE ConnectRedis \/ Listen \/ TimerFires \/ CleanupEnds
  BY <1>1, StartStep
<1>2. CASE StartFails \/ Crash \/ ForceExit
  BY <1>2, ExitStep DEF StartFails, Crash, ForceExit
<1>3. ASSUME NEW c \in Conns, Connect(c) \/ NextRequest(c) \/ Answer(c) \/ HangUp(c)
      PROVE  LInv'
  BY <1>3, ConnectionStep
<1>4. ASSUME NEW s \in Signals,
             \/ Signal(s) \/ Closed(s) \/ DisconnectDatabase(s)
             \/ DisconnectRedis(s) \/ DisconnectFails(s)
      PROVE  LInv'
  <2>1. CASE Signal(s)
    BY <2>1, SignalStep
  <2>2. CASE Closed(s) \/ DisconnectDatabase(s)
    BY <2>2, CloserStep
  <2>3. CASE DisconnectRedis(s)
    <3>1. \A c \in Conns : conn[c] = "free"
      BY <2>3 DEF LInv, NobodyWaitsAtTheEnd, DisconnectRedis
    <3>2. QED
      BY <2>3, <3>1, ExitStep DEF DisconnectRedis
  <2>4. CASE DisconnectFails(s)
    BY <2>4, ExitStep DEF DisconnectFails
  <2>5. QED
    BY <1>4, <2>1, <2>2, <2>3, <2>4
<1>5. CASE UNCHANGED lvars
  BY <1>5 DEF lvars, LInv, LTypeOK, NobodyWaitsAtTheEnd, Closing
<1>6. QED
  BY <1>1, <1>2, <1>3, <1>4, <1>5 DEF LNext

\* Every state of a server process satisfies the invariant that its shutdown
\* relies on (server.js).
THEOREM LInvariant == LSpec => []LInv
<1>1. LInit => LInv
  BY LInitInv
<1>2. LInv /\ [LNext]_lvars => LInv'
  BY LNextInv
<1>3. QED
  BY <1>1, <1>2, PTL DEF LSpec

\* However signals, requests and connections interleave, the database is left
\* and the process exits with success only when no client waits.
THEOREM WaitingClientsHoldTheEnd == LSpec => []NobodyWaitsAtTheEnd
<1>1. LInv => NobodyWaitsAtTheEnd
  BY DEF LInv
<1>2. QED
  BY <1>1, LInvariant, PTL

\* A shutdown that is closing the server goes on to the exit: nothing takes
\* back the close or the forced exit it has scheduled, and a process that has
\* ended does not come back.
THEOREM ClosingIsForGood ==
  LSpec => [][/\ Closing => Closing' /\ armed'
              /\ phase = "exited" => phase' = "exited"]_lvars
<1>1. ASSUME LInv, [LNext]_lvars
      PROVE  /\ Closing => Closing' /\ armed'
             /\ phase = "exited" => phase' = "exited"
  <2>1. LInv'
    BY <1>1, LNextInv
  <2>2. CASE UNCHANGED lvars
    BY <2>1, <2>2 DEF lvars, LInv, Closing
  <2>3. CASE LNext
    <3>1. phase = "exited" => phase' = "exited"
      BY <2>3 DEF LNext, ConnectRedis, Listen, StartFails, Crash, TimerFires,
         CleanupEnds, Connect, NextRequest, Answer, HangUp, Signal, Closed,
         DisconnectDatabase, DisconnectRedis, DisconnectFails, ForceExit, Running, Exit
    <3>2. ASSUME NEW s \in Signals, closer[s] # "none"
          PROVE  closer'[s] # "none"
      <4>1. ASSUME NEW x \in Signals,
                   Signal(x) \/ Closed(x) \/ DisconnectDatabase(x)
            PROVE  closer'[s] # "none"
        BY <1>1, <3>2, <4>1 DEF LInv, LTypeOK, Signal, Closed, DisconnectDatabase
      <4>2. CASE UNCHANGED closer
        BY <3>2, <4>2
      <4>3. QED
        BY <2>3, <4>1, <4>2 DEF LNext, ConnectRedis, Listen, StartFails, Crash,
           TimerFires, CleanupEnds, Connect, NextRequest, Answer, HangUp,
           DisconnectRedis, DisconnectFails, ForceExit, Exit, stopping
    <3>3. QED
      BY <2>1, <3>1, <3>2 DEF Closing, LInv
  <2>4. QED
    BY <1>1, <2>2, <2>3
<1>2. QED
  BY <1>1, LInvariant, PTL DEF LSpec

-----------------------------------------------------------------------------
(* The rate limiters.                                                      *)

LimRequests ==
  [pc : {"idle", "account", "handler"}, client : Clients \cup {NULL},
   account : Accounts \cup {NULL}, counted : SUBSET Keys]

LEMMA TypesOfLimInv ==
  ASSUME LimInv
  PROVE  /\ hits \in [Keys -> Nat] /\ tried \in [Keys -> Nat]
         /\ refused \in [Keys -> Nat] /\ lent \in [Keys -> Nat]
         /\ req \in [Req -> LimRequests]
  BY DEF LimInv, LimTypeOK, LimRequests

LEMMA Limits ==
  ASSUME NEW k \in Keys
  PROVE  Limit(k) \in Nat
  BY LimitsAssumption DEF Limit

\* Request q counts on k.
CountsOn(q, k) == k \in Passed(q) \cap q.counted

LEMMA IdleCountsOnNothing == \A k \in Keys : ~CountsOn(IdleReq, k)
  BY DEF CountsOn, IdleReq

LEMMA PendingIsFinite ==
  ASSUME NEW k \in Keys
  PROVE  IsFiniteSet(Pending(k)) /\ Cardinality(Pending(k)) \in Nat
<1>1. Pending(k) \subseteq Req
  BY DEF Pending
<1>2. QED
  BY <1>1, LimitsAssumption, FS_Subset, FS_CardinalityType

-----------------------------------------------------------------------------
(* What a step of request r does to one counter and the requests it stands *)
(* for: nothing but arithmetic from here on.                               *)

\* The counter, with what it is owed, does not fall.
NotLess(k) == hits'[k] + lent'[k] >= hits[k] + lent[k] /\ lent'[k] >= lent[k]

\* The counter, less what it refused, does not rise.
NotMore(k) ==
  hits'[k] - refused'[k] <= hits[k] - refused[k] /\ refused'[k] >= refused[k]

KeyStep(k, r) ==
  \/ /\ Pending(k)' = Pending(k) /\ tried'[k] = tried[k] /\ NotLess(k)
     /\ NotMore(k)
  \/ /\ Pending(k)' = Pending(k) \cup {r} /\ r \notin Pending(k)
     /\ tried'[k] = tried[k] /\ lent'[k] = lent[k] /\ refused'[k] = refused[k]
     /\ hits'[k] = hits[k] + 1 /\ hits'[k] <= Limit(k)
  \/ /\ Pending(k)' = Pending(k) \ {r} /\ r \in Pending(k)
     /\ tried'[k] = tried[k] + 1 /\ NotLess(k) /\ NotMore(k)
  \/ /\ Pending(k)' = Pending(k) \ {r} /\ r \in Pending(k)
     /\ tried'[k] = tried[k] /\ refused'[k] = refused[k]
     /\ hits'[k] + lent'[k] >= hits[k] + lent[k] - 1 /\ lent'[k] >= lent[k]
     /\ hits'[k] = Less(hits[k])

KeyInv(k) ==
  /\ tried[k] + Cardinality(Pending(k)) <= Limit(k) + lent[k]
  /\ tried[k] + Cardinality(Pending(k)) <= hits[k] + lent[k]
  /\ hits[k] <= tried[k] + Cardinality(Pending(k)) + refused[k]

LEMMA KeyStepInv ==
  ASSUME LimInv, NEW k \in Keys, NEW r \in Req, KeyStep(k, r),
         hits'[k] \in Nat, tried'[k] \in Nat, lent'[k] \in Nat, refused'[k] \in Nat
  PROVE  KeyInv(k)'
<1>1. KeyInv(k)
  BY DEF LimInv, GuessesAreBounded, KeyInv
<1>2. IsFiniteSet(Pending(k)) /\ Cardinality(Pending(k)) \in Nat /\ Limit(k) \in Nat
  BY PendingIsFinite, Limits
<1>3. hits[k] \in Nat /\ tried[k] \in Nat /\ lent[k] \in Nat /\ refused[k] \in Nat
  BY TypesOfLimInv
<1>4. PICK n \in Nat : n = Cardinality(Pending(k))
  BY <1>2
<1>5. PICK m : m = Limit(k) /\ m \in Nat /\ Limit(k)' = m
  BY <1>2 DEF Limit
<1>6. CASE /\ Pending(k)' = Pending(k) /\ tried'[k] = tried[k] /\ NotLess(k)
           /\ NotMore(k)
  <2>1. Cardinality(Pending(k)') = n
    BY <1>4, <1>6
  <2>2. QED
    BY <1>1, <1>3, <1>4, <1>5, <1>6, <2>1 DEF KeyInv, NotLess, NotMore
<1>7. CASE /\ Pending(k)' = Pending(k) \cup {r} /\ r \notin Pending(k)
           /\ tried'[k] = tried[k] /\ lent'[k] = lent[k] /\ refused'[k] = refused[k]
           /\ hits'[k] = hits[k] + 1 /\ hits'[k] <= Limit(k)
  <2>1. Cardinality(Pending(k)') = n + 1
    BY <1>2, <1>4, <1>7, FS_AddElement
  <2>2. QED
    BY <1>1, <1>3, <1>4, <1>5, <1>7, <2>1 DEF KeyInv
<1>8. CASE Pending(k)' = Pending(k) \ {r} /\ r \in Pending(k)
  <2>1. Cardinality(Pending(k)') = n - 1
    BY <1>2, <1>4, <1>8, FS_RemoveElement
  <2>2. CASE tried'[k] = tried[k] + 1 /\ NotLess(k) /\ NotMore(k)
    BY <1>1, <1>3, <1>4, <1>5, <2>1, <2>2 DEF KeyInv, NotLess, NotMore
  <2>3. CASE /\ tried'[k] = tried[k] /\ refused'[k] = refused[k]
             /\ hits'[k] + lent'[k] >= hits[k] + lent[k] - 1 /\ lent'[k] >= lent[k]
             /\ hits'[k] = Less(hits[k])
    <3>1. hits'[k] <= hits[k] - 1 \/ hits'[k] = 0
      BY <1>3, <2>3 DEF Less
    <3>2. /\ (tried[k] + Cardinality(Pending(k)) <= Limit(k) + lent[k])'
          /\ (tried[k] + Cardinality(Pending(k)) <= hits[k] + lent[k])'
      BY <1>1, <1>3, <1>4, <1>5, <2>1, <2>3 DEF KeyInv
    <3>3. hits'[k] <= tried'[k] + (n - 1) + refused'[k]
      <4>1. hits[k] <= tried[k] + n + refused[k]
        BY <1>1, <1>4 DEF KeyInv
      <4>2. n - 1 \in Nat
        BY <1>2, <1>4, <1>8, <2>1, FS_RemoveElement, FS_CardinalityType
      <4>3. QED
        BY <1>3, <1>4, <2>3, <3>1, <4>1, <4>2
    <3>4. QED
      BY <2>1, <3>2, <3>3 DEF KeyInv
  <2>4. Pending(k)' # Pending(k) /\ r \notin Pending(k)' /\ r \in Pending(k)
    BY <1>8
  <2>5. QED
    BY <2>2, <2>3, <2>4 DEF KeyStep
<1>9. QED
  BY <1>6, <1>7, <1>8 DEF KeyStep

\* Only r moves: it comes to count on k, or no longer does.
LEMMA PendingAfter ==
  ASSUME NEW r \in Req, NEW k \in Keys, NEW q,
         \A s \in Req \ {r} : req'[s] = req[s],
         req'[r] = q
  PROVE  /\ CountsOn(q, k) => Pending(k)' = Pending(k) \cup {r}
         /\ ~CountsOn(q, k) => Pending(k)' = Pending(k) \ {r}
         /\ r \in Pending(k) <=> CountsOn(req[r], k)
<1>1. \A s \in Req : s \in Pending(k) <=> CountsOn(req[s], k)
  BY DEF Pending, CountsOn
<1>2. ASSUME NEW s \in Req
      PROVE  s \in Pending(k)' <=> CountsOn(req'[s], k)
  BY DEF Pending, CountsOn
<1>3. \A s \in Req \ {r} : s \in Pending(k)' <=> s \in Pending(k)
  BY <1>1, <1>2
<1>4. r \in Pending(k)' <=> CountsOn(q, k)
  BY <1>2
<1>5. Pending(k) \subseteq Req /\ Pending(k)' \subseteq Req
  BY DEF Pending
<1>6. QED
  BY <1>1, <1>3, <1>4, <1>5

\* What is left to show of a step in which only r moves.
LEMMA OneLimited ==
  ASSUME LimInv, NEW r \in Req, NEW q \in LimRequests,
         req' = [req EXCEPT ![r] = q],
         hits' \in [Keys -> Nat], tried' \in [Keys -> Nat],
         refused' \in [Keys -> Nat], lent' \in [Keys -> Nat],
         \A k \in Keys : KeyStep(k, r),
         q.pc # "idle" => q.client \in Clients,
         q.pc = "account" => q.account \in Accounts
  PROVE  LimInv'
<1>1. \A s \in Req : req'[s] = IF s = r THEN q ELSE req[s]
  BY TypesOfLimInv
<1>2. req' \in [Req -> LimRequests]
  BY TypesOfLimInv
<1>3. LimTypeOK'
  BY <1>2 DEF LimTypeOK, LimRequests
<1>4. \A k \in Keys : KeyInv(k)'
  BY KeyStepInv
<1>5. \A s \in Req : /\ req'[s].pc # "idle" => req'[s].client \in Clients
                     /\ req'[s].pc = "account" => req'[s].account \in Accounts
  BY <1>1 DEF LimInv
<1>6. QED
  BY <1>3, <1>4, <1>5 DEF LimInv, GuessesAreBounded, KeyInv

-----------------------------------------------------------------------------
(* The steps.                                                              *)

\* One more hit on a counter.
LEMMA OneHit ==
  ASSUME LimInv, NEW c \in Keys, hits' = [hits EXCEPT ![c] = @ + 1]
  PROVE  /\ hits' \in [Keys -> Nat]
         /\ hits'[c] = hits[c] + 1
         /\ \A k \in Keys \ {c} : hits'[k] = hits[k]
  BY TypesOfLimInv

LEMMA RefusedOnce ==
  ASSUME LimInv, NEW c \in Keys, refused' = [refused EXCEPT ![c] = @ + 1]
  PROVE  /\ refused' \in [Keys -> Nat]
         /\ refused'[c] = refused[c] + 1
         /\ \A k \in Keys \ {c} : refused'[k] = refused[k]
  BY TypesOfLimInv

LEMMA ArriveStep ==
  ASSUME LimInv, NEW r \in Req, NEW c \in Clients, NEW a \in Accounts \cup {NULL},
         Arrive(r, c, a)
  PROVE  LimInv'
<1>1. c \in Keys /\ hits' = [hits EXCEPT ![c] = @ + 1] /\ UNCHANGED <<tried, lent>>
  BY DEF Arrive, Keys
<1>2. /\ hits' \in [Keys -> Nat] /\ hits'[c] = hits[c] + 1
      /\ \A k \in Keys \ {c} : hits'[k] = hits[k]
  BY <1>1, OneHit
<1>3. refused' \in [Keys -> Nat]
  BY <1>1, RefusedOnce, TypesOfLimInv DEF Arrive
<1>4. /\ tried' \in [Keys -> Nat] /\ lent' \in [Keys -> Nat]
      /\ \A k \in Keys : hits[k] \in Nat /\ lent[k] \in Nat /\ refused[k] \in Nat
  BY <1>1, TypesOfLimInv
<1>5. req[r] = IdleReq
  BY DEF Arrive
<1>6. CASE Over(c, hits'[c])
  <2>1. req' = req /\ req' = [req EXCEPT ![r] = req[r]]
    BY <1>6, TypesOfLimInv DEF Arrive
  <2>2. \A k \in Keys : Pending(k)' = Pending(k)
    BY <2>1 DEF Pending
  <2>3. /\ refused'[c] = refused[c] + 1
        /\ \A k \in Keys \ {c} : refused'[k] = refused[k]
    BY <1>1, <1>6, RefusedOnce DEF Arrive
  <2>4. ASSUME NEW k \in Keys PROVE NotLess(k) /\ NotMore(k)
    BY <1>1, <1>2, <1>4, <2>3 DEF NotLess, NotMore
  <2>5. \A k \in Keys : KeyStep(k, r)
    BY <1>1, <2>2, <2>4 DEF KeyStep
  <2>6. req[r] \in LimRequests
    BY TypesOfLimInv
  <2>7. QED
    BY <1>2, <1>3, <1>4, <2>1, <2>5, <2>6, OneLimited DEF LimInv
<1>7. CASE ~Over(c, hits'[c])
  <2> DEFINE l == IF a = NULL THEN "handler" ELSE "account"
             q == [pc |-> l, client |-> c, account |-> a, counted |-> {c}]
  <2>1. req' = [req EXCEPT ![r] = q]
    BY <1>7 DEF Arrive
  <2>2. q \in LimRequests /\ (q.pc = "account" => q.account \in Accounts)
    BY <1>1 DEF LimRequests
  <2>3. ASSUME NEW k \in Keys PROVE CountsOn(q, k) <=> k = c
    BY <1>1, LimitsAssumption DEF CountsOn, Passed, Keys
  <2>4. hits'[c] <= Limit(c)
    BY <1>1, <1>2, <1>4, <1>7, Limits DEF Over
  <2>5. req'[r] = q /\ \A s \in Req \ {r} : req'[s] = req[s]
    BY <2>1, TypesOfLimInv
  <2>6. UNCHANGED refused
    BY <1>7 DEF Arrive
  <2> HIDE DEF q
  <2>7. ASSUME NEW k \in Keys PROVE KeyStep(k, r)
    <3>1. r \notin Pending(k)
      BY <1>5, IdleCountsOnNothing DEF Pending, CountsOn
    <3>2. CASE k = c
      BY <1>1, <1>2, <2>3, <2>4, <2>5, <2>6, <3>1, <3>2, PendingAfter DEF KeyStep
    <3>3. CASE k # c
      <4>1. Pending(k)' = Pending(k)
        BY <2>3, <2>5, <3>1, <3>3, PendingAfter
      <4>2. QED
        BY <1>1, <1>2, <1>4, <2>6, <3>3, <4>1 DEF KeyStep, NotLess, NotMore
    <3>4. QED
      BY <3>2, <3>3
  <2>8. QED
    BY <1>2, <1>3, <1>4, <2>1, <2>2, <2>7, OneLimited DEF q
<1>8. QED
  BY <1>6, <1>7

LEMMA IdleIsARequest == IdleReq \in LimRequests /\ IdleReq.pc = "idle"
  BY DEF IdleReq, LimRequests

\* A request that ends in vain moves from those in flight to those tried.
LEMMA InVain ==
  ASSUME LimInv, NEW r \in Req, EndInVain(r, req[r]),
         hits' \in [Keys -> Nat], refused' \in [Keys -> Nat], UNCHANGED lent,
         \A k \in Keys : hits'[k] >= hits[k] /\ NotMore(k)
  PROVE  LimInv'
<1>1. /\ req' = [req EXCEPT ![r] = IdleReq]
      /\ tried' = [k \in Keys |-> IF CountsOn(req[r], k) THEN tried[k] + 1 ELSE tried[k]]
  BY DEF EndInVain, CountsOn
<1>2. req'[r] = IdleReq /\ \A s \in Req \ {r} : req'[s] = req[s]
  BY <1>1, TypesOfLimInv
<1>3. tried' \in [Keys -> Nat] /\ lent' \in [Keys -> Nat]
  BY <1>1, TypesOfLimInv
<1>4. ASSUME NEW k \in Keys PROVE KeyStep(k, r)
  <2>1. Pending(k)' = Pending(k) \ {r} /\ (r \in Pending(k) <=> CountsOn(req[r], k))
    BY <1>2, PendingAfter, IdleCountsOnNothing
  <2>2. NotLess(k)
    BY TypesOfLimInv DEF NotLess
  <2>3. tried'[k] = IF CountsOn(req[r], k) THEN tried[k] + 1 ELSE tried[k]
    BY <1>1
  <2>4. QED
    BY <2>1, <2>2, <2>3 DEF KeyStep
<1>5. QED
  BY <1>1, <1>3, <1>4, IdleIsARequest, OneLimited

\* What a request behind authLimiter is.
LEMMA BehindTheFirst ==
  ASSUME LimInv, NEW r \in Req, req[r].pc # "idle"
  PROVE  /\ req[r] \in LimRequests
         /\ req[r].client \in Clients
         /\ req[r].pc = "account" => req[r].account \in Accounts
         /\ req[r].account \in Accounts \cup {NULL}
  BY TypesOfLimInv DEF LimInv, LimRequests

LEMMA AskAccountStep ==
  ASSUME LimInv, NEW r \in Req, AskAccount(r)
  PROVE  LimInv'
<1>1. PICK a \in Accounts : a = req[r].account
  BY BehindTheFirst DEF AskAccount
<1>2. /\ req[r].pc = "account" /\ a \in Keys
      /\ hits' = [hits EXCEPT ![a] = @ + 1] /\ UNCHANGED lent
  BY <1>1 DEF AskAccount, Keys
<1>3. /\ hits' \in [Keys -> Nat] /\ hits'[a] = hits[a] + 1
      /\ \A k \in Keys \ {a} : hits'[k] = hits[k]
  BY <1>2, OneHit
<1>4. refused' \in [Keys -> Nat]
  BY <1>1, <1>2, RefusedOnce, TypesOfLimInv DEF AskAccount
<1>5. CASE Over(a, hits'[a])
  <2>1. EndInVain(r, req[r])
    BY <1>1, <1>5 DEF AskAccount
  <2>2. /\ refused'[a] = refused[a] + 1
        /\ \A k \in Keys \ {a} : refused'[k] = refused[k]
    BY <1>1, <1>2, <1>5, RefusedOnce DEF AskAccount
  <2>3. ASSUME NEW k \in Keys PROVE hits'[k] >= hits[k] /\ NotMore(k)
    BY <1>3, <2>2, TypesOfLimInv DEF NotMore
  <2>4. QED
    BY <1>2, <1>3, <1>4, <2>1, <2>3, InVain
<1>6. CASE ~Over(a, hits'[a])
  <2>1. PICK old \in LimRequests : old = req[r] /\ old.client \in Clients
    BY <1>2, BehindTheFirst
  <2>2. PICK n \in SUBSET Keys : n = old.counted \cup {a}
    BY <1>2 DEF LimRequests
  <2>3. PICK q : q = [old EXCEPT !.pc = "handler", !.counted = n]
    OBVIOUS
  <2>4. /\ q \in LimRequests /\ q.pc = "handler" /\ q.counted = old.counted \cup {a}
        /\ q.client = old.client /\ q.account = old.account
    BY <2>2, <2>3 DEF LimRequests
  <2>5. req' = [req EXCEPT ![r] = q]
    BY <1>1, <1>6, <2>1, <2>2, <2>3, TypesOfLimInv DEF AskAccount
  <2>6. ASSUME NEW k \in Keys
        PROVE  CountsOn(q, k) <=> CountsOn(req[r], k) \/ k = a
    BY <1>1, <1>2, <2>1, <2>4, LimitsAssumption DEF CountsOn, Passed, Keys
  <2>7. ~CountsOn(req[r], a)
    BY <1>2, <2>1, LimitsAssumption DEF CountsOn, Passed
  <2>8. req'[r] = q /\ \A s \in Req \ {r} : req'[s] = req[s]
    BY <2>5, TypesOfLimInv
  <2>9. q.pc = "handler" /\ q.client \in Clients
    BY <2>1, <2>4
  <2>10. hits'[a] <= Limit(a)
    BY <1>2, <1>3, <1>6, Limits, TypesOfLimInv DEF Over
  <2>11. UNCHANGED <<tried, refused>>
    BY <1>1, <1>6 DEF AskAccount
  <2>12. ASSUME NEW k \in Keys PROVE KeyStep(k, r)
    <3>1. CASE k = a
      BY <1>2, <1>3, <2>6, <2>7, <2>8, <2>10, <2>11, <3>1, PendingAfter DEF KeyStep
    <3>2. CASE k # a
      <4>1. Pending(k)' = Pending(k)
        BY <2>6, <2>8, <3>2, PendingAfter
      <4>2. QED
        BY <1>2, <1>3, <2>11, <3>2, <4>1, TypesOfLimInv DEF KeyStep, NotLess, NotMore
    <3>3. QED
      BY <3>1, <3>2
  <2>13. tried' \in [Keys -> Nat] /\ lent' \in [Keys -> Nat]
    BY <1>2, <2>11, TypesOfLimInv
  <2>14. QED
    BY <1>3, <1>4, <2>4, <2>5, <2>9, <2>12, <2>13, OneLimited
<1>7. QED
  BY <1>5, <1>6

\* A success gives back what counts, or is lent where another window counted it.
LEMMA SucceedStep ==
  ASSUME LimInv, NEW r \in Req, Succeed(r)
  PROVE  LimInv'
<1> DEFINE P == Passed(req[r])
<1>1. /\ hits' = [k \in Keys |-> IF k \in P THEN Less(hits[k]) ELSE hits[k]]
      /\ lent' = [k \in Keys |-> IF k \in P \ req[r].counted THEN lent[k] + 1 ELSE lent[k]]
      /\ req' = [req EXCEPT ![r] = IdleReq]
      /\ UNCHANGED <<tried, refused>>
  BY DEF Succeed, TakeBack
<1>2. \A k \in Keys : CountsOn(req[r], k) <=> k \in P /\ k \in req[r].counted
  BY DEF CountsOn
<1> HIDE DEF P
<1>3. \A n \in Nat : Less(n) \in Nat /\ Less(n) >= n - 1 /\ Less(n) <= n
  BY DEF Less
<1>4. hits' \in [Keys -> Nat] /\ lent' \in [Keys -> Nat]
  BY <1>1, <1>3, TypesOfLimInv
<1>5. tried' \in [Keys -> Nat] /\ refused' \in [Keys -> Nat]
  BY <1>1, TypesOfLimInv
<1>6. req'[r] = IdleReq /\ \A s \in Req \ {r} : req'[s] = req[s]
  BY <1>1, TypesOfLimInv
<1>7. ASSUME NEW k \in Keys PROVE KeyStep(k, r)
  <2>1. Pending(k)' = Pending(k) \ {r} /\ (r \in Pending(k) <=> CountsOn(req[r], k))
    BY <1>6, PendingAfter, IdleCountsOnNothing
  <2>2. /\ hits[k] \in Nat /\ lent[k] \in Nat /\ refused[k] \in Nat
        /\ tried'[k] = tried[k] /\ refused'[k] = refused[k]
    BY <1>1, TypesOfLimInv
  <2>3. hits'[k] = IF k \in P THEN Less(hits[k]) ELSE hits[k]
    BY <1>1
  <2>4. lent'[k] = IF k \in P /\ k \notin req[r].counted THEN lent[k] + 1 ELSE lent[k]
    BY <1>1
  <2>5. Less(hits[k]) \in Nat /\ Less(hits[k]) >= hits[k] - 1 /\ Less(hits[k]) <= hits[k]
    BY <1>3, <2>2
  <2>6. CASE CountsOn(req[r], k)
    BY <1>2, <2>1, <2>2, <2>3, <2>4, <2>5, <2>6 DEF KeyStep
  <2>7. CASE ~CountsOn(req[r], k)
    BY <1>2, <2>1, <2>2, <2>3, <2>4, <2>5, <2>7 DEF KeyStep, NotLess, NotMore
  <2>8. QED
    BY <2>6, <2>7
<1>8. QED
  BY <1>1, <1>4, <1>5, <1>7, IdleIsARequest, OneLimited

LEMMA AnswerInVainStep ==
  ASSUME LimInv, NEW r \in Req, AnswerInVain(r)
  PROVE  LimInv'
<1>1. hits' \in [Keys -> Nat] /\ refused' \in [Keys -> Nat]
  BY TypesOfLimInv DEF AnswerInVain
<1>2. \A k \in Keys : hits'[k] >= hits[k] /\ NotMore(k)
  BY TypesOfLimInv DEF AnswerInVain, NotMore
<1>3. QED
  BY <1>1, <1>2, InVain DEF AnswerInVain

-----------------------------------------------------------------------------
(* Windows end, and the process with all of them.                          *)

LEMMA ZeroIsATally == Zero \in [Keys -> Nat] /\ \A k \in Keys : Zero[k] = 0
  BY DEF Zero

LEMMA NothingCounts ==
  ASSUME NEW k \in Keys, hits'[k] = 0, tried'[k] = 0, refused'[k] = 0, lent'[k] = 0,
         Pending(k)' = {}
  PROVE  KeyInv(k)'
<1>1. PICK m \in Nat : m = Limit(k) /\ Limit(k)' = m
  BY Limits DEF Limit
<1>2. Cardinality(Pending(k)') = 0
  BY FS_EmptySet
<1>3. QED
  BY <1>1, <1>2 DEF KeyInv

LEMMA WindowEndsStep ==
  ASSUME LimInv, NEW k \in Keys, WindowEnds(k)
  PROVE  LimInv'
<1>1. /\ hits' \in [Keys -> Nat] /\ tried' \in [Keys -> Nat]
      /\ refused' \in [Keys -> Nat] /\ lent' \in [Keys -> Nat]
      /\ hits'[k] = 0 /\ tried'[k] = 0 /\ refused'[k] = 0 /\ lent'[k] = 0
  BY TypesOfLimInv DEF WindowEnds
<1>2. \A x \in Keys \ {k} : /\ hits'[x] = hits[x] /\ tried'[x] = tried[x]
                           /\ lent'[x] = lent[x] /\ refused'[x] = refused[x]
  BY TypesOfLimInv DEF WindowEnds
<1>3. ASSUME NEW r \in Req
      PROVE  /\ req'[r] \in LimRequests
             /\ req'[r].pc = req[r].pc /\ req'[r].client = req[r].client
             /\ req'[r].account = req[r].account
             /\ req'[r].counted = req[r].counted \ {k}
  BY TypesOfLimInv DEF WindowEnds, LimRequests
<1>4. req' \in [Req -> LimRequests]
  BY <1>3 DEF WindowEnds
<1>5. \A r \in Req : Passed(req'[r]) = Passed(req[r])
  BY <1>3 DEF Passed
<1>6. ASSUME NEW x \in Keys \ {k} PROVE KeyInv(x)'
  <2>1. Pending(x)' = Pending(x)
    BY <1>3, <1>5 DEF Pending
  <2>2. KeyInv(x)
    BY DEF LimInv, GuessesAreBounded, KeyInv
  <2>3. Limit(x)' = Limit(x)
    BY DEF Limit
  <2>4. QED
    BY <1>2, <2>1, <2>2, <2>3 DEF KeyInv
<1>7. KeyInv(k)'
  <2>1. Pending(k)' = {}
    BY <1>3 DEF Pending
  <2>2. QED
    BY <1>1, <2>1, NothingCounts
<1>8. QED
  BY <1>1, <1>3, <1>4, <1>6, <1>7
  DEF LimInv, LimTypeOK, LimRequests, GuessesAreBounded, KeyInv

LEMMA RestartStep ==
  ASSUME LimInv, Restart
  PROVE  LimInv'
<1>1. /\ hits' \in [Keys -> Nat] /\ tried' \in [Keys -> Nat]
      /\ refused' \in [Keys -> Nat] /\ lent' \in [Keys -> Nat]
      /\ \A k \in Keys : hits'[k] = 0 /\ tried'[k] = 0 /\ refused'[k] = 0 /\ lent'[k] = 0
  BY ZeroIsATally DEF Restart
<1>2. \A r \in Req : req'[r] = IdleReq
  BY DEF Restart
<1>3. ASSUME NEW k \in Keys PROVE KeyInv(k)'
  <2>1. Pending(k)' = {}
    BY <1>2 DEF Pending, IdleReq
  <2>2. QED
    BY <1>1, <2>1, NothingCounts
<1>4. req' \in [Req -> LimRequests]
  BY IdleIsARequest DEF Restart
<1>5. QED
  BY <1>1, <1>2, <1>3, <1>4, IdleIsARequest
  DEF LimInv, LimTypeOK, LimRequests, GuessesAreBounded, KeyInv

-----------------------------------------------------------------------------

LEMMA LimInitInv == LimInit => LimInv
<1> SUFFICES ASSUME LimInit PROVE LimInv
  OBVIOUS
<1>1. \A k \in Keys : Pending(k) = {}
  BY DEF LimInit, Pending, IdleReq
<1>2. \A k \in Keys : Cardinality(Pending(k)) = 0 /\ Limit(k) \in Nat
  BY <1>1, FS_EmptySet, Limits
<1>3. LimTypeOK
  BY ZeroIsATally, IdleIsARequest DEF LimInit, LimTypeOK, LimRequests
<1>4. \A k \in Keys : hits[k] = 0 /\ tried[k] = 0 /\ refused[k] = 0 /\ lent[k] = 0
  BY ZeroIsATally DEF LimInit
<1>5. \A r \in Req : req[r].pc = "idle"
  BY DEF LimInit, IdleReq
<1>6. QED
  BY <1>2, <1>3, <1>4, <1>5 DEF LimInv, GuessesAreBounded

LEMMA LimNextInv ==
  ASSUME LimInv, [LimNext]_limits
  PROVE  LimInv'
<1>1. CASE UNCHANGED limits
  BY <1>1 DEF limits, LimInv, LimTypeOK, GuessesAreBounded, Pending
<1>2. ASSUME NEW r \in Req, NEW c \in Clients, NEW a \in Accounts \cup {NULL}, Arrive(r, c, a)
      PROVE  LimInv'
  BY <1>2, ArriveStep
<1>3. ASSUME NEW r \in Req, AskAccount(r) \/ Succeed(r) \/ AnswerInVain(r)
      PROVE  LimInv'
  BY <1>3, AskAccountStep, SucceedStep, AnswerInVainStep
<1>4. ASSUME NEW k \in Keys, WindowEnds(k) PROVE LimInv'
  BY <1>4, WindowEndsStep
<1>5. CASE Restart
  BY <1>5, RestartStep
<1>6. QED
  BY <1>1, <1>2, <1>3, <1>4, <1>5 DEF LimNext

\* The counters of both limiters stay ahead of the requests they stand for,
\* through windows that end under requests in flight and through restarts.
THEOREM LimInvariant == LimSpec => []LimInv
<1>1. LimInit => LimInv
  BY LimInitInv
<1>2. LimInv /\ [LimNext]_limits => LimInv'
  BY LimNextInv
<1>3. QED
  BY <1>1, <1>2, PTL DEF LimSpec

\* However many requests come at once, from however many addresses, a window
\* lets no more fail than the limit and what it has lent (authLimiter,
\* loginAccountLimiter).
THEOREM GuessingIsBounded == LimSpec => []GuessesAreBounded
<1>1. LimInv => GuessesAreBounded
  BY DEF LimInv
<1>2. QED
  BY <1>1, LimInvariant, PTL
-----------------------------------------------------------------------------
(* Refusals.                                                               *)

\* While nobody counts on k a counter is made of failures and refusals.
LEMMA NobodyCounts ==
  ASSUME LimInv, NEW k \in Keys, Pending(k) = {}, refused[k] = 0
  PROVE  hits[k] <= tried[k]
<1>1. Cardinality(Pending(k)) = 0
  BY FS_EmptySet
<1>2. hits[k] <= tried[k] + Cardinality(Pending(k)) + refused[k]
  BY DEF LimInv
<1>3. QED
  BY <1>1, <1>2, TypesOfLimInv

\* Over the limit by one more request is at the limit without it.
LEMMA OverByOne ==
  ASSUME LimInv, NEW k \in Keys, Pending(k) = {}, refused[k] = 0,
         Over(k, hits[k] + 1)
  PROVE  tried[k] >= Limit(k)
BY NobodyCounts, Limits, TypesOfLimInv DEF Over

LEMMA RefusedStep ==
  ASSUME LimInv, [LimNext]_limits, NEW k \in Keys,
         NoOther(k), refused[k] = 0, refused'[k] > 0
  PROVE  tried[k] >= Limit(k)
<1>1. CASE UNCHANGED limits
  BY <1>1 DEF limits
<1>2. ASSUME NEW r \in Req, NEW c \in Clients, NEW a \in Accounts \cup {NULL},
             Arrive(r, c, a)
      PROVE  tried[k] >= Limit(k)
  <2>1. c \in Keys /\ hits' = [hits EXCEPT ![c] = @ + 1]
    BY <1>2 DEF Arrive, Keys
  <2>2. hits'[c] = hits[c] + 1
    BY <2>1, OneHit
  <2>3. Over(c, hits'[c]) /\ refused' = [refused EXCEPT ![c] = @ + 1]
    BY <1>2 DEF Arrive
  <2>4. k = c
    BY <2>1, <2>3, RefusedOnce
  <2>5. \A x \in Req : req[x].pc = "idle"
    BY <2>4 DEF NoOther
  <2>6. Pending(k) = {}
    BY <2>5 DEF Pending, Passed
  <2>7. QED
    BY <2>2, <2>3, <2>4, <2>6, OverByOne
<1>3. ASSUME NEW r \in Req, AskAccount(r)
      PROVE  tried[k] >= Limit(k)
  <2>1. PICK a \in Accounts : a = req[r].account
    BY <1>3, BehindTheFirst DEF AskAccount
  <2>2. /\ req[r].pc = "account" /\ a \in Keys /\ hits' = [hits EXCEPT ![a] = @ + 1]
    BY <1>3, <2>1 DEF AskAccount, Keys
  <2>3. hits'[a] = hits[a] + 1
    BY <2>2, OneHit
  <2>4. Over(a, hits'[a]) /\ refused' = [refused EXCEPT ![a] = @ + 1]
    BY <1>3, <2>1 DEF AskAccount
  <2>5. k = a /\ k \notin Clients
    BY <2>1, <2>2, <2>4, RefusedOnce, LimitsAssumption
  <2>6. \A x \in Req : req[x].pc # "idle" => x = r
    BY <2>2, <2>5 DEF NoOther
  <2>7. ASSUME NEW x \in Req PROVE k \notin Passed(req[x])
    <3>1. CASE x = r
      BY <2>2, <2>5, <3>1, BehindTheFirst DEF Passed
    <3>2. CASE x # r
      BY <2>6, <3>2 DEF Passed
    <3>3. QED
      BY <3>1, <3>2
  <2>8. Pending(k) = {}
    BY <2>7 DEF Pending
  <2>9. QED
    BY <2>3, <2>4, <2>5, <2>8, OverByOne
<1>4. ASSUME NEW r \in Req, Succeed(r) \/ AnswerInVain(r)
      PROVE  tried[k] >= Limit(k)
  BY <1>4 DEF Succeed, AnswerInVain
<1>5. ASSUME NEW j \in Keys, WindowEnds(j)
      PROVE  tried[k] >= Limit(k)
  BY <1>5, TypesOfLimInv DEF WindowEnds
<1>6. CASE Restart
  BY <1>6, ZeroIsATally DEF Restart
<1>7. QED
  BY <1>1, <1>2, <1>3, <1>4, <1>5, <1>6 DEF LimNext

\* A client whose requests come one after the other is not refused before its
\* failures have reached the limit, whatever succeeded in between, whenever
\* windows end and processes restart (skipSuccessfulRequests).
THEOREM RefusalsAreForFailures == LimSpec => RefusedForFailures
<1>1. LimInv /\ [LimNext]_limits =>
        [\A k \in Keys : NoOther(k) /\ refused[k] = 0 /\ refused'[k] > 0
                           => tried[k] >= Limit(k)]_limits
  BY RefusedStep
<1>2. QED
  BY <1>1, LimInvariant, PTL DEF LimSpec, RefusedForFailures
=============================================================================
