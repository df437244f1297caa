----------------------------- MODULE LoginLimits -----------------------------
(***************************************************************************)
(* The two limiters on the way to login: authLimiter counts the requests   *)
(* of a client address, loginAccountLimiter those for an account; signup,  *)
(* refresh, verification and the two of password reset have the first      *)
(* alone, and /logout and /me neither, so they are left out.  apiLimiter   *)
(* before them answers by itself or lets a request on, and is left out.    *)
(*                                                                         *)
(* express-rate-limit (in memory) counts a request when it arrives, refuses*)
(* it with 429 when that makes more than the limit, and takes it back when *)
(* a successful answer has been sent; a count starts at 0 again when its   *)
(* window is over, which it is at some time after it began.                *)
(*                                                                         *)
(* A definition commented "Mutant" is used by no other: it is a plausible  *)
(* mistake in the definition that follows.                                 *)
(***************************************************************************)
EXTENDS Integers, FiniteSets

CONSTANTS
  Clients,            \* addresses
  Accounts,           \* keys of accounts
  AuthMaxRequests,
  AccountMaxRequests,
  MaxHits,            \* bound: no request comes when a counter of its keys is there
  Req,                \* slots for requests in flight (bound: how many overlap)
  NULL

Keys == Clients \cup Accounts

ASSUME LimitsAssumption ==
  /\ Clients \cap Accounts = {}
  /\ NULL \notin Keys
  /\ AuthMaxRequests \in Nat \ {0} /\ AccountMaxRequests \in Nat \ {0}
  /\ MaxHits \in Nat
  /\ IsFiniteSet(Req)

Limit(k) == IF k \in Clients THEN AuthMaxRequests ELSE AccountMaxRequests

VARIABLES
  hits,     \* the counters
  req,      \* requests in flight
  \* History, of the window each counter is in:
  tried,    \* requests let through that did not succeed
  refused,  \* requests refused
  lent      \* requests taken back that an earlier window had counted

limits == <<hits, req, tried, refused, lent>>

\* `counted`: the keys that counted the request in their present window.
IdleReq == [pc |-> "idle", client |-> NULL, account |-> NULL, counted |-> {}]

Zero == [k \in Keys |-> 0]

LimInit ==
  /\ hits = Zero
  /\ req = [r \in Req |-> IdleReq]
  /\ tried = Zero
  /\ refused = Zero
  /\ lent = Zero

\* The counters request q has got past.
Passed(q) == CASE q.pc = "account" -> {q.client}
               [] q.pc = "handler" -> {q.client, q.account} \ {NULL}
               [] OTHER -> {}

\* Request q ends without success.
EndInVain(r, q) ==
  /\ req' = [req EXCEPT ![r] = IdleReq]
  /\ tried' = [k \in Keys |-> IF k \in Passed(q) \cap q.counted THEN tried[k] + 1
                              ELSE tried[k]]

-----------------------------------------------------------------------------
(* The way in.                                                             *)

Over(k, n) == n > Limit(k)

\* authLimiter; a is NULL on the routes that have it without
\* loginAccountLimiter.
Arrive(r, c, a) ==
  /\ req[r] = IdleReq
  /\ \A k \in {c, a} \ {NULL} : hits[k] < MaxHits
  /\ hits' = [hits EXCEPT ![c] = @ + 1]
  /\ IF Over(c, hits'[c])
     THEN refused' = [refused EXCEPT ![c] = @ + 1] /\ UNCHANGED req
     ELSE /\ req' = [req EXCEPT ![r] = [pc |-> IF a = NULL THEN "handler" ELSE "account",
                                        client |-> c, account |-> a, counted |-> {c}]]
          /\ UNCHANGED refused
  /\ UNCHANGED <<tried, lent>>

\* loginAccountLimiter: its 429 is an answer without success to authLimiter.
AskAccount(r) ==
  LET q == req[r]
      a == q.account
  IN /\ q.pc = "account"
     /\ hits' = [hits EXCEPT ![a] = @ + 1]
     /\ IF Over(a, hits'[a])
        THEN refused' = [refused EXCEPT ![a] = @ + 1] /\ EndInVain(r, q)
        ELSE /\ req' = [req EXCEPT ![r].pc = "handler", ![r].counted = @ \cup {a}]
             /\ UNCHANGED <<refused, tried>>
     /\ UNCHANGED lent

-----------------------------------------------------------------------------
(* The answer.                                                             *)

\* Mutant: also what is not counted is taken back.
LessAnyhow(n) == n - 1

Less(n) == IF n > 0 THEN n - 1 ELSE 0

\* Mutant: skipSuccessfulRequests is missing.
TakeBackNothing(r) == hits' = hits

\* skipSuccessfulRequests.
TakeBack(r) ==
  hits' = [k \in Keys |-> IF k \in Passed(req[r]) THEN Less(hits[k]) ELSE hits[k]]

Succeed(r) ==
  /\ req[r].pc = "handler"
  /\ TakeBack(r)
  /\ lent' = [k \in Keys |-> IF k \in Passed(req[r]) \ req[r].counted THEN lent[k] + 1
                             ELSE lent[k]]
  /\ req' = [req EXCEPT ![r] = IdleReq]
  /\ UNCHANGED <<tried, refused>>

\* Mutant: every answer is taken back.
AnswerInVainTakenBack(r) ==
  /\ req[r].pc = "handler"
  /\ EndInVain(r, req[r])
  /\ TakeBack(r)
  /\ UNCHANGED <<refused, lent>>

\* An answer of 400 or above (a wrong password, a body that is not valid, a
\* failure), or a client that did not wait for its answer.
AnswerInVain(r) ==
  /\ req[r].pc = "handler"
  /\ EndInVain(r, req[r])
  /\ UNCHANGED <<hits, refused, lent>>

WindowEnds(k) ==
  /\ hits' = [hits EXCEPT ![k] = 0]
  /\ tried' = [tried EXCEPT ![k] = 0]
  /\ refused' = [refused EXCEPT ![k] = 0]
  /\ lent' = [lent EXCEPT ![k] = 0]
  /\ req' = [r \in Req |-> [req[r] EXCEPT !.counted = @ \ {k}]]

\* A restart forgets the counters and the requests.
Restart ==
  /\ hits' = Zero /\ tried' = Zero /\ refused' = Zero /\ lent' = Zero
  /\ req' = [r \in Req |-> IdleReq]

LimNext ==
  \/ \E r \in Req :
       \/ \E c \in Clients, a \in Accounts \cup {NULL} : Arrive(r, c, a)
       \/ AskAccount(r)
       \/ Succeed(r)
       \/ AnswerInVain(r)
  \/ \E k \in Keys : WindowEnds(k)
  \/ Restart

LimSpec == LimInit /\ [][LimNext]_limits

-----------------------------------------------------------------------------

\* Requests that count on k in its window and are still in flight.
Pending(k) == {r \in Req : k \in Passed(req[r]) \cap req[r].counted}

\* Counters and requests have their types.
LimTypeOK ==
  /\ hits \in [Keys -> Nat]
  /\ tried \in [Keys -> Nat] /\ refused \in [Keys -> Nat] /\ lent \in [Keys -> Nat]
  /\ req \in [Req -> [pc : {"idle", "account", "handler"}, client : Clients \cup {NULL},
                      account : Accounts \cup {NULL}, counted : SUBSET Keys]]

\* In a window no more passwords of an account are tried in vain than its
\* limit, from however many addresses and however many at once, but for one
\* more per success begun before the window and taken back in it; and the same
\* holds of the requests of an address.
GuessesAreBounded ==
  \A k \in Keys : tried[k] + Cardinality(Pending(k)) <= Limit(k) + lent[k]

\* Why guesses are bounded: a counter, with what was taken back from it too
\* often, is never behind the requests it stands for, be they answered or not.
\* And why refusals are for failures: it is never ahead of those and the
\* requests it refused.
LimInv ==
  /\ LimTypeOK /\ GuessesAreBounded
  /\ \A k \in Keys : tried[k] + Cardinality(Pending(k)) <= hits[k] + lent[k]
  /\ \A k \in Keys : hits[k] <= tried[k] + Cardinality(Pending(k)) + refused[k]
  /\ \A r \in Req :
       /\ req[r].pc # "idle" => req[r].client \in Clients
       /\ req[r].pc = "account" => req[r].account \in Accounts

\* No request is in flight but the one that limiter k is asked about.
NoOther(k) == IF k \in Clients THEN \A r \in Req : req[r].pc = "idle"
              ELSE \E r \in Req : \A x \in Req : req[x].pc # "idle" => x = r

\* Of requests that do not overlap the first to be refused is refused for
\* failures ("Only count failed auth attempts"): that many of this window have
\* reached the limit.  When requests overlap, a success may be refused.
RefusedForFailures ==
  [][\A k \in Keys :
       NoOther(k) /\ refused[k] = 0 /\ refused'[k] > 0 => tried[k] >= Limit(k)]_limits
=============================================================================
