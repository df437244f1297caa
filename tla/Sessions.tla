------------------------------ MODULE Sessions ------------------------------
(***************************************************************************)
(* Refresh tokens and passwords of registered, verified users: login,      *)
(* rotation of refresh tokens, logout and password reset.                  *)
(*                                                                         *)
(* As in Organization, an action is one database call with the code up to  *)
(* the next await; what a request has read stays in req[r].                *)
(*                                                                         *)
(* A refresh token is a JWT over the user's id and the time of signing in  *)
(* whole seconds, and nothing else: two tokens signed for one user within  *)
(* one second are the same string.  So a token is here the pair of the two,*)
(* and the unique index on refresh_tokens.token is what it is in the code. *)
(*                                                                         *)
(* A definition commented "Mutant" is used by no other: it is a plausible  *)
(* mistake in the definition that follows, for showing that the properties *)
(* depend on the code being as it is.                                      *)
(***************************************************************************)
EXTENDS Naturals

CONSTANTS
  Users,
  MaxTime,   \* bound: the clock runs from 0 to MaxTime, in seconds
  Keys,      \* password reset tokens (bound: one reset request per key)
  Req,       \* slots for requests in flight (bound: how many overlap)
  MayFail,   \* whether database calls may fail half-way through a request
  NULL

ASSUME SessionAssumption ==
  /\ MaxTime \in Nat
  /\ MayFail \in BOOLEAN
  /\ NULL \notin Keys \cup Users

Times == 0 .. MaxTime
Tokens == [user : Users, iat : Times]

ASSUME NoTokenAssumption == NULL \notin Tokens

VARIABLES
  clock,    \* the second the server's clock shows
  token,    \* refresh_tokens: no row, usable, revokedAt set, or past expiresAt
  pwd,      \* users.passwordHash, as the number of changes so far
  key,      \* users.passwordResetToken and whether passwordResetExpiry is past
  issued,   \* reset tokens generated so far: random, so never twice
  req       \* requests in flight

rows == <<token, pwd, key, issued>>
svars == <<clock, token, pwd, key, issued, req>>

IdleSession ==
  [pc |-> "idle", user |-> NULL, pwd |-> 0, old |-> NULL, new |-> NULL, key |-> NULL]

NoKey == [id |-> NULL, expired |-> FALSE]

SessionRequest ==
  [pc : {"idle", "revoke", "sign", "store", "setPassword", "revokeAll"},
   user : Users \cup {NULL},
   pwd  : Nat,                    \* the password a login was checked against
   old  : Tokens \cup {NULL},     \* the token a refresh redeems
   new  : Tokens \cup {NULL},     \* the token signed last
   key  : Keys \cup {NULL}]

SInit ==
  /\ clock = 0
  /\ token = [t \in Tokens |-> "none"]
  /\ pwd = [u \in Users |-> 0]
  /\ key = [u \in Users |-> NoKey]
  /\ issued = {}
  /\ req = [r \in Req |-> IdleSession]

Reply(r) == req' = [req EXCEPT ![r] = IdleSession]

-----------------------------------------------------------------------------
(* generateTokenPair, the end of login and of refreshTokens.               *)

\* The pair is signed when the call before it has answered: at any time.
SignPair(r) ==
  /\ req[r].pc = "sign"
  /\ req' = [req EXCEPT ![r].pc = "store",
                        ![r].new = [user |-> req[r].user, iat |-> clock]]
  /\ UNCHANGED <<clock, rows>>

\* Mutant: upsert for create.
StoreTokenAgain(r) ==
  /\ req[r].pc = "store"
  /\ token' = [token EXCEPT ![req[r].new] = "usable"]
  /\ Reply(r)
  /\ UNCHANGED <<clock, pwd, key, issued>>

\* The same string again makes the insert fail (P2002) and the request with it.
StoreToken(r) ==
  /\ req[r].pc = "store"
  /\ token' = IF token[req[r].new] = "none"
              THEN [token EXCEPT ![req[r].new] = "usable"] ELSE token
  /\ Reply(r)
  /\ UNCHANGED <<clock, pwd, key, issued>>

-----------------------------------------------------------------------------
(* login: the password given matches the hash read now; comparing takes    *)
(* time.  A login that fails changes nothing and is left out.              *)

Login(r, u) ==
  /\ req[r] = IdleSession
  /\ req' = [req EXCEPT ![r] = [IdleSession EXCEPT !.pc = "sign", !.user = u,
                                                   !.pwd = pwd[u]]]
  /\ UNCHANGED <<clock, rows>>

-----------------------------------------------------------------------------
(* refreshTokens: look the token up, revoke it by id, sign a new pair.     *)

\* Mutant: revokedAt is not looked at.
RedeemableAgain(t) == token[t] \in {"usable", "revoked"}

Redeemable(t) == token[t] = "usable"

OpenRefresh(r, t) ==
  /\ req[r] = IdleSession
  /\ Redeemable(t)
  /\ req' = [req EXCEPT ![r] = [IdleSession EXCEPT !.pc = "revoke",
                                                   !.user = t.user, !.old = t]]
  /\ UNCHANGED <<clock, rows>>

\* Mutant: the old token stays.
RevokeNothing(r) ==
  /\ req[r].pc = "revoke"
  /\ req' = [req EXCEPT ![r].pc = "sign"]
  /\ UNCHANGED <<clock, rows>>

\* By id, whether or not somebody has revoked it since.
RevokeOld(r) ==
  /\ req[r].pc = "revoke"
  /\ token' = [token EXCEPT ![req[r].old] = "revoked"]
  /\ req' = [req EXCEPT ![r].pc = "sign"]
  /\ UNCHANGED <<clock, pwd, key, issued>>

-----------------------------------------------------------------------------
(* logout with a refresh token of one's own: one updateMany.               *)

Logout(t) ==
  /\ token[t] \in {"usable", "expired"}
  /\ token' = [token EXCEPT ![t] = "revoked"]
  /\ UNCHANGED <<clock, pwd, key, issued, req>>

-----------------------------------------------------------------------------
(* Password reset.                                                         *)

\* requestPasswordReset: a new reset token replaces the one there was.
RequestReset(u, k) ==
  /\ k \notin issued
  /\ issued' = issued \cup {k}
  /\ key' = [key EXCEPT ![u] = [id |-> k, expired |-> FALSE]]
  /\ UNCHANGED <<clock, token, pwd, req>>

\* Mutant: passwordResetExpiry is not looked at.
KeyOpensAnyTime(u, k) == key[u].id = k

KeyOpens(u, k) == key[u].id = k /\ ~key[u].expired

OpenReset(r, u, k) ==
  /\ req[r] = IdleSession
  /\ KeyOpens(u, k)
  /\ req' = [req EXCEPT ![r] = [IdleSession EXCEPT !.pc = "setPassword",
                                                   !.user = u, !.key = k]]
  /\ UNCHANGED <<clock, rows>>

\* By user id: clears whatever reset token the user has by now.
SetPassword(r) ==
  /\ req[r].pc = "setPassword"
  /\ pwd' = [pwd EXCEPT ![req[r].user] = @ + 1]
  /\ key' = [key EXCEPT ![req[r].user] = NoKey]
  /\ req' = [req EXCEPT ![r].pc = "revokeAll"]
  /\ UNCHANGED <<clock, token, issued>>

\* Mutant: the sessions are left alone.
RevokeAllSkipped(r) ==
  /\ req[r].pc = "revokeAll"
  /\ Reply(r)
  /\ UNCHANGED <<clock, rows>>

\* One updateMany over the user's rows that are not revoked.
RevokeAll(r) ==
  /\ req[r].pc = "revokeAll"
  /\ token' = [t \in Tokens |->
                 IF t.user = req[r].user /\ token[t] \in {"usable", "expired"}
                 THEN "revoked" ELSE token[t]]
  /\ Reply(r)
  /\ UNCHANGED <<clock, pwd, key, issued>>

-----------------------------------------------------------------------------
(* Time and failure.                                                       *)

Tick ==
  /\ clock < MaxTime
  /\ clock' = clock + 1
  /\ UNCHANGED <<rows, req>>

TokenExpires(t) ==
  /\ token[t] = "usable"
  /\ token' = [token EXCEPT ![t] = "expired"]
  /\ UNCHANGED <<clock, pwd, key, issued, req>>

KeyExpires(u) ==
  /\ key[u].id # NULL /\ ~key[u].expired
  /\ key' = [key EXCEPT ![u].expired = TRUE]
  /\ UNCHANGED <<clock, token, pwd, issued, req>>

\* A call fails or the process dies: what the request wrote so far stays.
Fail(r) ==
  /\ MayFail
  /\ req[r].pc # "idle"
  /\ Reply(r)
  /\ UNCHANGED <<clock, rows>>

SessionStep(r) ==
  \/ \E u \in Users : Login(r, u)
  \/ \E t \in Tokens : OpenRefresh(r, t)
  \/ RevokeOld(r)
  \/ SignPair(r)
  \/ StoreToken(r)
  \/ \E u \in Users, k \in Keys : OpenReset(r, u, k)
  \/ SetPassword(r)
  \/ RevokeAll(r)
  \/ Fail(r)

SNext ==
  \/ \E r \in Req : SessionStep(r)
  \/ \E t \in Tokens : Logout(t) \/ TokenExpires(t)
  \/ \E u \in Users, k \in Keys : RequestReset(u, k)
  \/ \E u \in Users : KeyExpires(u)
  \/ Tick

SSpec == SInit /\ [][SNext]_svars
=============================================================================
