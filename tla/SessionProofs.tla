--------------------------- MODULE SessionProofs ---------------------------
(***************************************************************************)
(* Proofs about SessionHistory for every set of users, reset tokens and    *)
(* request slots and for every length of time: what a rotation and a reset *)
(* rely on while other requests run, and the properties that follow.       *)
(***************************************************************************)
EXTENDS SessionHistory, TLAPS

Statuses == {"none", "usable", "revoked", "expired"}

\* What RequestInv says of request q without the history variables.
HandlerOK(q) ==
  /\ q.pc \in {"sign", "store"} /\ q.old # NULL => token[q.old] = "revoked"
  /\ q.pc # "idle" => q.user \in Users
  /\ q.pc = "revoke" => q.old \in Tokens /\ token[q.old] # "none"
  /\ q.pc = "store" => q.new \in Tokens
  /\ q.pc = "setPassword" => q.key # NULL

\* What a step never does to refresh tokens: make a revoked one anything
\* else, delete one, or make a new one without a request that stores it.
TokensKept ==
  \A t \in Tokens :
    /\ token[t] = "revoked" => token'[t] = "revoked"
    /\ token[t] # "none" => token'[t] # "none"
    /\ token[t] = "none" /\ token'[t] # "none" => \E r \in Req : Storing(r, t)

\* A request at setPassword has been there before or is linked now.
LinksKept ==
  \A r \in Req :
    /\ req'[r].pc = "setPassword" => req'[r] = req[r] \/ Current(req[r])'
    /\ Sets(r) => req'[r].key = req[r].key

\* What every step of the rows and requests gives.
StepOK ==
  /\ STypeOK'
  /\ TokensKept
  /\ \A r \in Req : HandlerOK(req[r])'
  /\ LinksKept

LEMMA RequestsAreOK ==
  ASSUME SInv, NEW r \in Req
  PROVE  req[r] \in SessionRequest /\ HandlerOK(req[r])
  BY DEF SInv, STypeOK, RequestInv, HandlerOK

LEMMA IdleOK == IdleSession \in SessionRequest /\ HandlerOK(IdleSession)
  BY DEF IdleSession, SessionRequest, HandlerOK

-----------------------------------------------------------------------------
(* Two kinds of step: one request moves, or none does.                     *)

RowsOK ==
  /\ clock' \in Times
  /\ token' \in [Tokens -> Statuses]
  /\ pwd' \in [Users -> Nat]
  /\ key' \in [Users -> [id : Keys \cup {NULL}, expired : BOOLEAN]]
  /\ issued' \subseteq Keys

LEMMA RowsUnchanged ==
  ASSUME SInv, UNCHANGED <<clock, rows>>
  PROVE  RowsOK /\ TokensKept
  BY DEF SInv, STypeOK, RowsOK, TokensKept, rows, Statuses

\* Revoked tokens stay revoked, so what the other requests rely on stays.
LEMMA OthersOK ==
  ASSUME SInv, TokensKept, NEW s \in Req, req'[s] = req[s]
  PROVE  HandlerOK(req[s])'
<1>1. req[s] \in SessionRequest /\ HandlerOK(req[s])
  BY RequestsAreOK
<1>2. req[s].old # NULL => req[s].old \in Tokens
  BY <1>1 DEF SessionRequest
<1>3. QED
  BY <1>1, <1>2 DEF HandlerOK, TokensKept

LEMMA OneRequest ==
  ASSUME SInv, NEW r \in Req, NEW q \in SessionRequest,
         req' = [req EXCEPT ![r] = q],
         RowsOK, TokensKept,
         HandlerOK(q)',
         q.pc = "setPassword" => Current(q)',
         q.pc = "revokeAll" => q.key = req[r].key
  PROVE  StepOK
<1>1. req \in [Req -> SessionRequest]
  BY DEF SInv, STypeOK
<1>2. STypeOK'
  BY <1>1 DEF STypeOK, RowsOK, Statuses
<1>3. \A s \in Req : req'[s] = IF s = r THEN q ELSE req[s]
  BY <1>1
<1>4. ASSUME NEW s \in Req PROVE HandlerOK(req[s])'
  <2>1. CASE s = r
    BY <1>3, <2>1 DEF HandlerOK
  <2>2. CASE s # r
    BY <1>3, <2>2, OthersOK
  <2>3. QED
    BY <2>1, <2>2
<1>5. LinksKept
  <2>1. Current(req[r])' = Current(q)'
    BY <1>3 DEF Current
  <2>2. QED
    BY <1>3, <2>1 DEF LinksKept, Sets
<1>6. QED
  BY <1>2, <1>4, <1>5 DEF StepOK

\* A request answers.
LEMMA ReplyStep ==
  ASSUME SInv, NEW r \in Req, Reply(r), RowsOK, TokensKept
  PROVE  StepOK
<1>1. HandlerOK(IdleSession)'
  BY DEF HandlerOK, IdleSession
<1>2. IdleSession.pc = "idle"
  BY DEF IdleSession
<1>3. QED
  BY <1>1, <1>2, IdleOK, OneRequest DEF Reply

LEMMA NoRequest ==
  ASSUME SInv, UNCHANGED req, RowsOK, TokensKept
  PROVE  StepOK
<1>1. STypeOK'
  BY DEF SInv, STypeOK, RowsOK, Statuses
<1>2. \A s \in Req : HandlerOK(req[s])'
  BY OthersOK
<1>3. LinksKept
  BY DEF LinksKept, Sets
<1>4. QED
  BY <1>1, <1>2, <1>3 DEF StepOK

-----------------------------------------------------------------------------
(* The steps of login, rotation and logout.                                *)

LEMMA LoginStep ==
  ASSUME SInv, NEW r \in Req, NEW u \in Users, Login(r, u)
  PROVE  StepOK
<1>1. pwd[u] \in Nat
  BY DEF SInv, STypeOK
<1>2. PICK n \in Nat : n = pwd[u]
  BY <1>1
<1> DEFINE q == [IdleSession EXCEPT !.pc = "sign", !.user = u, !.pwd = n]
<1>3. q \in SessionRequest /\ q.pc = "sign"
  BY DEF IdleSession, SessionRequest
<1>4. HandlerOK(q)'
  BY DEF HandlerOK, IdleSession
<1>5. RowsOK /\ TokensKept /\ req' = [req EXCEPT ![r] = q]
  BY <1>2, RowsUnchanged DEF Login
<1> HIDE DEF q
<1>6. QED
  BY <1>3, <1>4, <1>5, OneRequest

LEMMA OpenRefreshStep ==
  ASSUME SInv, NEW r \in Req, NEW t \in Tokens, OpenRefresh(r, t)
  PROVE  StepOK
<1> DEFINE q == [IdleSession EXCEPT !.pc = "revoke", !.user = t.user, !.old = t]
<1>1. t.user \in Users
  BY DEF Tokens
<1>2. q \in SessionRequest /\ q.pc = "revoke"
  BY <1>1 DEF IdleSession, SessionRequest
<1>3. HandlerOK(q)'
  BY <1>1 DEF HandlerOK, IdleSession, OpenRefresh, Redeemable, rows
<1>4. RowsOK /\ TokensKept /\ req' = [req EXCEPT ![r] = q]
  BY RowsUnchanged DEF OpenRefresh
<1> HIDE DEF q
<1>5. QED
  BY <1>2, <1>3, <1>4, OneRequest

\* The token is revoked before the request comes to sign another.
LEMMA RevokeOldStep ==
  ASSUME SInv, NEW r \in Req, RevokeOld(r)
  PROVE  StepOK
<1>1. req[r] \in SessionRequest /\ HandlerOK(req[r]) /\ req[r].pc = "revoke"
  BY RequestsAreOK DEF RevokeOld
<1>2. PICK p \in SessionRequest : p = req[r]
  BY <1>1
<1>3. p.old \in Tokens /\ token[p.old] # "none" /\ p.user \in Users
  BY <1>1, <1>2 DEF HandlerOK
<1> DEFINE q == [p EXCEPT !.pc = "sign"]
<1>4. q \in SessionRequest /\ q.pc = "sign" /\ q.old = p.old /\ q.user = p.user
  BY <1>2 DEF SessionRequest
<1>5. token \in [Tokens -> Statuses]
  BY DEF SInv, STypeOK, Statuses
<1>6. /\ token' = [token EXCEPT ![p.old] = "revoked"]
      /\ req' = [req EXCEPT ![r] = q]
      /\ UNCHANGED <<clock, pwd, key, issued>>
  BY <1>2 DEF RevokeOld
<1>7. RowsOK
  BY <1>3, <1>5, <1>6 DEF RowsOK, SInv, STypeOK, Statuses
<1>8. TokensKept
  BY <1>3, <1>5, <1>6 DEF TokensKept
<1>9. HandlerOK(q)'
  BY <1>3, <1>4, <1>5, <1>6 DEF HandlerOK
<1> HIDE DEF q
<1>10. QED
  BY <1>4, <1>6, <1>7, <1>8, <1>9, OneRequest

LEMMA SignPairStep ==
  ASSUME SInv, NEW r \in Req, SignPair(r)
  PROVE  StepOK
<1>1. req[r] \in SessionRequest /\ HandlerOK(req[r]) /\ req[r].pc = "sign"
  BY RequestsAreOK DEF SignPair
<1>2. PICK p \in SessionRequest : p = req[r]
  BY <1>1
<1>3. clock \in Times /\ p.user \in Users
  BY <1>1, <1>2 DEF SInv, STypeOK, HandlerOK
<1>4. PICK t \in Tokens : t = [user |-> p.user, iat |-> clock]
  BY <1>3 DEF Tokens
<1> DEFINE q == [p EXCEPT !.pc = "store", !.new = t]
<1>5. /\ q \in SessionRequest /\ q.pc = "store"
      /\ q.old = p.old /\ q.user = p.user /\ q.new = t
  BY <1>2 DEF SessionRequest
<1>6. req' = [req EXCEPT ![r] = q] /\ UNCHANGED <<clock, rows>>
  BY <1>2, <1>4 DEF SignPair
<1>7. HandlerOK(q)'
  BY <1>1, <1>2, <1>3, <1>5, <1>6 DEF HandlerOK, rows
<1> HIDE DEF q
<1>8. QED
  BY <1>5, <1>6, <1>7, RowsUnchanged, OneRequest

\* The only step that makes a token, and only one whose row is not there.
LEMMA StoreTokenStep ==
  ASSUME SInv, NEW r \in Req, StoreToken(r)
  PROVE  StepOK
<1>1. req[r].new \in Tokens /\ token \in [Tokens -> Statuses]
      /\ req \in [Req -> SessionRequest]
  BY RequestsAreOK DEF StoreToken, HandlerOK, SInv, STypeOK, Statuses
<1>2. RowsOK
  BY <1>1 DEF StoreToken, RowsOK, SInv, STypeOK, Statuses
<1>3. req'[r] # req[r]
  BY <1>1 DEF StoreToken, Reply, IdleSession
<1>4. TokensKept
  BY <1>1, <1>3 DEF StoreToken, TokensKept, Storing
<1>5. QED
  BY <1>2, <1>4, ReplyStep DEF StoreToken

LEMMA LogoutStep ==
  ASSUME SInv, NEW t \in Tokens, Logout(t)
  PROVE  StepOK
<1>1. token \in [Tokens -> Statuses]
  BY DEF SInv, STypeOK, Statuses
<1>2. RowsOK
  BY <1>1 DEF Logout, RowsOK, SInv, STypeOK, Statuses
<1>3. TokensKept
  BY <1>1 DEF Logout, TokensKept
<1>4. QED
  BY <1>2, <1>3, NoRequest DEF Logout

LEMMA TokenExpiresStep ==
  ASSUME SInv, NEW t \in Tokens, TokenExpires(t)
  PROVE  StepOK
<1>1. token \in [Tokens -> Statuses]
  BY DEF SInv, STypeOK, Statuses
<1>2. RowsOK
  BY <1>1 DEF TokenExpires, RowsOK, SInv, STypeOK, Statuses
<1>3. TokensKept
  BY <1>1 DEF TokenExpires, TokensKept
<1>4. QED
  BY <1>2, <1>3, NoRequest DEF TokenExpires

-----------------------------------------------------------------------------
(* The steps of a password reset, time and failure.                        *)

LEMMA RequestResetStep ==
  ASSUME SInv, NEW u \in Users, NEW k \in Keys, RequestReset(u, k)
  PROVE  StepOK
<1>1. RowsOK
  BY DEF RequestReset, RowsOK, SInv, STypeOK, Statuses
<1>2. TokensKept
  BY DEF RequestReset, TokensKept
<1>3. QED
  BY <1>1, <1>2, NoRequest DEF RequestReset

LEMMA KeyExpiresStep ==
  ASSUME SInv, NEW u \in Users, KeyExpires(u)
  PROVE  StepOK
<1>1. RowsOK
  BY DEF KeyExpires, RowsOK, SInv, STypeOK, Statuses
<1>2. TokensKept
  BY DEF KeyExpires, TokensKept
<1>3. QED
  BY <1>1, <1>2, NoRequest DEF KeyExpires

LEMMA TickStep ==
  ASSUME SInv, Tick
  PROVE  StepOK
<1>1. RowsOK
  BY SessionAssumption DEF Tick, rows, Times, RowsOK, SInv, STypeOK, Statuses
<1>2. TokensKept
  BY DEF Tick, rows, TokensKept
<1>3. QED
  BY <1>1, <1>2, NoRequest DEF Tick

\* The request is linked when it has read its reset token.
LEMMA OpenResetStep ==
  ASSUME SInv, NEW r \in Req, NEW u \in Users, NEW k \in Keys,
         OpenReset(r, u, k)
  PROVE  StepOK
<1> DEFINE q == [IdleSession EXCEPT !.pc = "setPassword", !.user = u, !.key = k]
<1>1. q \in SessionRequest /\ q.pc = "setPassword" /\ q.user = u /\ q.key = k
  BY DEF IdleSession, SessionRequest
<1>2. HandlerOK(q)'
  BY SessionAssumption DEF HandlerOK, IdleSession
<1>3. RowsOK /\ TokensKept /\ req' = [req EXCEPT ![r] = q]
  BY RowsUnchanged DEF OpenReset
<1>4. Current(q)'
  BY DEF Current, IdleSession, OpenReset, KeyOpens, rows
<1> HIDE DEF q
<1>5. QED
  BY <1>1, <1>2, <1>3, <1>4, OneRequest

LEMMA SetPasswordStep ==
  ASSUME SInv, NEW r \in Req, SetPassword(r)
  PROVE  StepOK
<1>1. req[r] \in SessionRequest /\ HandlerOK(req[r]) /\ req[r].pc = "setPassword"
  BY RequestsAreOK DEF SetPassword
<1>2. PICK p \in SessionRequest : p = req[r]
  BY <1>1
<1>3. p.user \in Users
  BY <1>1, <1>2 DEF HandlerOK
<1> DEFINE q == [p EXCEPT !.pc = "revokeAll"]
<1>4. /\ q \in SessionRequest /\ q.pc = "revokeAll"
      /\ q.user = p.user /\ q.key = p.key
  BY <1>2 DEF SessionRequest
<1>5. HandlerOK(q)'
  BY <1>3, <1>4 DEF HandlerOK
<1>6. NoKey \in [id : Keys \cup {NULL}, expired : BOOLEAN]
  BY DEF NoKey
<1>7. RowsOK
  BY <1>2, <1>3, <1>6 DEF SetPassword, RowsOK, SInv, STypeOK, Statuses
<1>8. TokensKept
  BY DEF SetPassword, TokensKept
<1>9. req' = [req EXCEPT ![r] = q]
  BY <1>2 DEF SetPassword
<1> HIDE DEF q
<1>10. QED
  BY <1>2, <1>4, <1>5, <1>7, <1>8, <1>9, OneRequest

LEMMA RevokeAllStep ==
  ASSUME SInv, NEW r \in Req, RevokeAll(r)
  PROVE  StepOK
<1>1. token \in [Tokens -> Statuses]
  BY DEF SInv, STypeOK, Statuses
<1>2. token' \in [Tokens -> Statuses]
  BY <1>1 DEF RevokeAll, Statuses
<1>3. RowsOK
  BY <1>2 DEF RevokeAll, RowsOK, SInv, STypeOK
<1>4. TokensKept
  BY DEF RevokeAll, TokensKept
<1>5. QED
  BY <1>3, <1>4, ReplyStep DEF RevokeAll

LEMMA FailStep ==
  ASSUME SInv, NEW r \in Req, Fail(r)
  PROVE  StepOK
  BY RowsUnchanged, ReplyStep DEF Fail

LEMMA EveryStep == SInv /\ SNext => StepOK
  BY LoginStep, OpenRefreshStep, RevokeOldStep, SignPairStep, StoreTokenStep,
     LogoutStep, TokenExpiresStep, RequestResetStep, KeyExpiresStep, TickStep,
     OpenResetStep, SetPasswordStep, RevokeAllStep, FailStep
     DEF SNext, SessionStep

-----------------------------------------------------------------------------
(* The history variables.                                                  *)

LEMMA InitEstablishes == SHInit => SInv
<1> SUFFICES ASSUME SHInit PROVE SInv
  OBVIOUS
<1>1. STypeOK
  BY SessionAssumption
     DEF SHInit, SInit, STypeOK, Times, NoKey, IdleSession, SessionRequest
<1>2. lineage \in [Tokens -> LineageRow] /\ RotationRevokesFirst
  BY DEF SHInit, Unborn, LineageRow, RotationRevokesFirst
<1>3. linked \in [Req -> BOOLEAN]
  BY DEF SHInit
<1>4. \A r \in Req : RequestInv(r)
  BY DEF SHInit, SInit, RequestInv, IdleSession
<1>5. QED
  BY <1>1, <1>2, <1>3, <1>4 DEF SInv

\* A token is stored by a request that has revoked the one it redeems, if
\* it redeems one.
LEMMA BornOK ==
  ASSUME SInv, NEW r \in Req, NEW t \in Tokens, Storing(r, t)
  PROVE  /\ Born(r, t) \in LineageRow
         /\ Born(r, t).from # NULL =>
              Born(r, t).from \in Tokens /\ token[Born(r, t).from] = "revoked"
<1>1. req[r] \in SessionRequest /\ HandlerOK(req[r]) /\ req[r].pc = "store"
  BY RequestsAreOK DEF Storing
<1>2. CASE req[r].old = NULL
  <2>1. req[r].pwd \in Nat
    BY <1>1 DEF SessionRequest
  <2>2. QED
    BY <1>2, <2>1 DEF Born, LineageRow
<1>3. CASE req[r].old # NULL
  <2>1. req[r].old \in Tokens /\ token[req[r].old] = "revoked"
    BY <1>1, <1>3 DEF SessionRequest, HandlerOK
  <2>2. lineage[req[r].old] \in LineageRow
    BY <2>1 DEF SInv
  <2>3. QED
    BY <1>3, <2>1, <2>2 DEF Born, LineageRow
<1>4. QED
  BY <1>2, <1>3

LEMMA LineageStep ==
  ASSUME SInv, SHNext, TokensKept
  PROVE  /\ lineage' \in [Tokens -> LineageRow]
         /\ RotationRevokesFirst'
<1> SUFFICES ASSUME NEW t \in Tokens
             PROVE  /\ lineage'[t] \in LineageRow
                    /\ lineage'[t].from # NULL => token'[lineage'[t].from] = "revoked"
  BY DEF SHNext, RotationRevokesFirst
<1>1. CASE token[t] = "none" /\ token'[t] # "none"
  <2>1. PICK r \in Req : r = CHOOSE s \in Req : Storing(s, t)
    BY <1>1 DEF TokensKept
  <2>2. Storing(r, t)
    BY <1>1, <2>1 DEF TokensKept
  <2>3. lineage'[t] = Born(r, t)
    BY <1>1, <2>1 DEF SHNext
  <2>4. QED
    BY <2>2, <2>3, BornOK DEF TokensKept
<1>2. CASE ~(token[t] = "none" /\ token'[t] # "none")
  <2>1. lineage'[t] = lineage[t]
    BY <1>2 DEF SHNext
  <2>2. lineage[t] \in LineageRow
    BY DEF SInv
  <2>3. lineage[t].from # NULL =>
          lineage[t].from \in Tokens /\ token[lineage[t].from] = "revoked"
    BY <2>2 DEF SInv, RotationRevokesFirst, LineageRow
  <2>4. QED
    BY <2>1, <2>2, <2>3 DEF TokensKept
<1>3. QED
  BY <1>1, <1>2

LEMMA LinkedStep ==
  ASSUME SInv, SHNext, StepOK
  PROVE  linked' \in [Req -> BOOLEAN] /\ \A r \in Req : RequestInv(r)'
<1>1. \A r \in Req : linked'[r] = (req'[r].key # NULL
                                    /\ (linked[r] \/ Current(req[r])'))
  BY DEF SHNext
<1>2. linked' \in [Req -> BOOLEAN]
  BY DEF SHNext, Current
<1>3. ASSUME NEW r \in Req, req'[r].pc = "setPassword"
      PROVE  linked'[r] /\ req'[r].key # NULL
  <2>1. req'[r].key # NULL
    BY <1>3 DEF StepOK, HandlerOK
  <2>2. linked[r] \/ Current(req[r])'
    BY <1>3 DEF StepOK, LinksKept, SInv, RequestInv
  <2>3. QED
    BY <1>1, <2>1, <2>2
<1>4. \A r \in Req : RequestInv(r)'
  BY <1>3 DEF StepOK, HandlerOK, RequestInv
<1>5. QED
  BY <1>2, <1>4

LEMMA InvariantStep == SInv /\ [SHNext]_hsvars => SInv'
<1> SUFFICES ASSUME SInv, [SHNext]_hsvars PROVE SInv'
  OBVIOUS
<1>1. CASE SHNext
  <2>1. StepOK
    BY <1>1, EveryStep DEF SHNext
  <2>2. QED
    BY <1>1, <2>1, LineageStep, LinkedStep DEF SInv, StepOK
<1>2. CASE UNCHANGED hsvars
  BY <1>2
     DEF hsvars, SInv, STypeOK, RotationRevokesFirst, RequestInv
<1>3. QED
  BY <1>1, <1>2

-----------------------------------------------------------------------------
(* The theorems.                                                           *)

\* A rotation in flight works on a revoked token until it is over, a reset
\* in flight was once linked, and tokens got by rotation have revoked
\* predecessors, whatever the other requests do.
THEOREM SessionInvariant == SHSpec => []SInv
<1>1. QED
  BY InitEstablishes, InvariantStep, PTL DEF SHSpec

\* Rows and requests keep their types.
THEOREM SessionTypes == SHSpec => []STypeOK
<1>1. SInv => STypeOK
  BY DEF SInv
<1>2. QED
  BY <1>1, SessionInvariant, PTL

\* Nothing is obtained by rotation from a token that is still usable, for
\* any number of users, requests in flight and failures.
THEOREM RotationIsSound == SHSpec => []RotationRevokesFirst
<1>1. SInv => RotationRevokesFirst
  BY DEF SInv
<1>2. QED
  BY <1>1, SessionInvariant, PTL

\* A revoked token stays revoked, though a login or a rotation may sign the
\* same string again.
THEOREM RevokedForGood == SHSpec => RevocationIsFinal
<1>1. SInv /\ [SHNext]_hsvars =>
        [\A t \in Tokens : token[t] = "revoked" => token'[t] = "revoked"]_hsvars
  BY EveryStep DEF SHNext, StepOK, TokensKept
<1>2. QED
  BY <1>1, SessionInvariant, PTL DEF SHSpec, RevocationIsFinal

\* Only the holder of a reset token that was current and in time while the
\* request ran sets a password.
THEOREM ResetsNeedTheLink == SHSpec => ResetsAreLinked
<1>1. SInv /\ [SHNext]_hsvars => [\A r \in Req : Sets(r) => linked[r]]_hsvars
  BY DEF SInv, RequestInv, Sets
<1>2. QED
  BY <1>1, SessionInvariant, PTL DEF SHSpec, ResetsAreLinked

-----------------------------------------------------------------------------
(* Calm states: the claims of the README about requests that neither       *)
(* overlap nor fail.                                                       *)

CalmOK ==
  /\ Alone
  /\ OneTokenWhenCalm
  /\ \A r \in Req : Undisturbed(r)
  /\ OldPasswordsAreLeaving

\* In this step no token becomes usable and no token is stored.
NoNewTokens ==
  /\ \A t \in Tokens : token'[t] = "usable" => token[t] = "usable"
  /\ lineage' = lineage

LEMMA NothingStored ==
  ASSUME SInv, SHNext, \A t \in Tokens : token[t] = "none" => token'[t] = "none"
  PROVE  lineage' = lineage
<1>1. lineage \in [Tokens -> LineageRow]
  BY DEF SInv
<1>2. \A t \in Tokens : lineage'[t] = lineage[t] /\ lineage' = [u \in Tokens |-> lineage'[u]]
  BY DEF SHNext
<1>3. QED
  BY <1>1, <1>2 DEF SHNext

LEMMA TokensUntouched ==
  ASSUME SInv, SHNext, UNCHANGED token
  PROVE  NoNewTokens
  BY NothingStored DEF NoNewTokens

\* A moving request is the only one in flight.
LEMMA OthersAreIdle ==
  ASSUME CalmInv, SHNext, calm', NEW r \in Req, NEW q \in SessionRequest,
         req' = [req EXCEPT ![r] = q],
         req[r].pc # "idle" \/ q.pc # "idle"
  PROVE  /\ req'[r] = q
         /\ \A s \in Req \ {r} : req[s].pc = "idle" /\ req'[s] = req[s]
<1>1. calm /\ Alone /\ Alone'
  BY DEF SHNext, CalmInv
<1>2. req \in [Req -> SessionRequest]
  BY DEF CalmInv, SInv, STypeOK
<1>3. QED
  BY <1>1, <1>2 DEF Alone

\* As long as no reset is between its two writes every usable token comes
\* from the present password.
LEMMA AllFresh ==
  ASSUME CalmInv, calm, \A s \in Req : req[s].pc # "revokeAll",
         NEW t \in Tokens, token[t] = "usable"
  PROVE  lineage[t].pwd = pwd[t.user]
  BY DEF CalmInv, OldPasswordsAreLeaving

LEMMA OneTokenStays ==
  ASSUME CalmInv, SHNext, calm', NoNewTokens
  PROVE  OneTokenWhenCalm'
  BY DEF CalmInv, OneTokenWhenCalm, OneTokenPerSession, NoNewTokens, SHNext

\* A step of no request.
LEMMA CalmOutside ==
  ASSUME CalmInv, SHNext, calm', UNCHANGED <<req, pwd>>, NoNewTokens
  PROVE  CalmOK'
<1>1. calm /\ Alone'
  BY DEF SHNext
<1>2. \A r \in Req : Undisturbed(r)'
  BY <1>1 DEF CalmInv, Undisturbed, NoNewTokens
<1>3. OldPasswordsAreLeaving'
  BY <1>1 DEF CalmInv, OldPasswordsAreLeaving, NoNewTokens
<1>4. QED
  BY <1>1, <1>2, <1>3, OneTokenStays DEF CalmOK

\* A step of the only request in flight, which leaves passwords alone.
LEMMA CalmMove ==
  ASSUME CalmInv, SHNext, calm', NoNewTokens, UNCHANGED pwd,
         NEW r \in Req, NEW q \in SessionRequest,
         req' = [req EXCEPT ![r] = q],
         req[r].pc # "idle" \/ q.pc # "idle",
         req[r].pc # "revokeAll",
         Undisturbed(r)'
  PROVE  CalmOK'
<1>1. calm /\ Alone'
  BY DEF SHNext
<1>2. /\ req'[r] = q
      /\ \A s \in Req \ {r} : req[s].pc = "idle" /\ req'[s] = req[s]
  BY OthersAreIdle
<1>3. \A s \in Req : Undisturbed(s)'
  BY <1>2 DEF Undisturbed
<1>4. \A s \in Req : req[s].pc # "revokeAll"
  BY <1>2
<1>5. OldPasswordsAreLeaving'
  BY <1>1, <1>4, AllFresh DEF OldPasswordsAreLeaving, NoNewTokens
<1>6. QED
  BY <1>1, <1>3, <1>5, OneTokenStays DEF CalmOK

LEMMA CalmLogin ==
  ASSUME CalmInv, SHNext, calm', NEW r \in Req, NEW u \in Users, Login(r, u)
  PROVE  CalmOK'
<1>1. PICK n \in Nat : n = pwd[u]
  BY DEF CalmInv, SInv, STypeOK
<1> DEFINE q == [IdleSession EXCEPT !.pc = "sign", !.user = u, !.pwd = n]
<1>2. /\ q \in SessionRequest /\ q.pc = "sign"
      /\ q.old = NULL /\ q.pwd = n /\ q.user = u
  BY DEF IdleSession, SessionRequest
<1>3. /\ req' = [req EXCEPT ![r] = q]
      /\ req[r].pc = "idle"
      /\ UNCHANGED <<token, pwd>>
  BY <1>1 DEF Login, IdleSession, rows
<1> HIDE DEF q
<1>4. req'[r] = q
  BY <1>2, <1>3, OthersAreIdle
<1>5. Undisturbed(r)'
  BY <1>1, <1>2, <1>3, <1>4 DEF Undisturbed
<1>6. NoNewTokens
  BY <1>3, TokensUntouched DEF CalmInv
<1>7. QED
  BY <1>2, <1>3, <1>5, <1>6, CalmMove

LEMMA CalmOpenRefresh ==
  ASSUME CalmInv, SHNext, calm', NEW r \in Req, NEW t \in Tokens, OpenRefresh(r, t)
  PROVE  CalmOK'
<1> DEFINE q == [IdleSession EXCEPT !.pc = "revoke", !.user = t.user, !.old = t]
<1>1. /\ q \in SessionRequest /\ q.pc = "revoke"
      /\ q.old = t /\ q.user = t.user
  BY DEF IdleSession, SessionRequest, Tokens
<1>2. /\ req' = [req EXCEPT ![r] = q]
      /\ req[r].pc = "idle"
      /\ token[t] = "usable"
      /\ UNCHANGED <<token, pwd>>
  BY DEF OpenRefresh, Redeemable, IdleSession, rows
<1> HIDE DEF q
<1>3. /\ req'[r] = q
      /\ \A s \in Req \ {r} : req[s].pc = "idle"
  BY <1>1, <1>2, OthersAreIdle
<1>4. NoNewTokens /\ calm
  BY <1>2, TokensUntouched DEF CalmInv, SHNext
<1>5. lineage[t].pwd = pwd[t.user]
  BY <1>2, <1>3, <1>4, AllFresh
<1>6. \A v \in Tokens : token[v] = "usable" /\ lineage[v].root = lineage[t].root => v = t
  BY <1>2, <1>4 DEF CalmInv, OneTokenWhenCalm, OneTokenPerSession
<1>7. Undisturbed(r)'
  BY <1>1, <1>2, <1>3, <1>4, <1>5, <1>6 DEF Undisturbed, NoNewTokens
<1>8. QED
  BY <1>1, <1>2, <1>4, <1>7, CalmMove

LEMMA CalmOpenReset ==
  ASSUME CalmInv, SHNext, calm', NEW r \in Req, NEW u \in Users, NEW k \in Keys,
         OpenReset(r, u, k)
  PROVE  CalmOK'
<1> DEFINE q == [IdleSession EXCEPT !.pc = "setPassword", !.user = u, !.key = k]
<1>1. q \in SessionRequest /\ q.pc = "setPassword"
  BY DEF IdleSession, SessionRequest
<1>2. /\ req' = [req EXCEPT ![r] = q]
      /\ req[r].pc = "idle"
      /\ UNCHANGED <<token, pwd>>
  BY DEF OpenReset, IdleSession, rows
<1> HIDE DEF q
<1>3. req'[r] = q
  BY <1>1, <1>2, OthersAreIdle
<1>4. Undisturbed(r)'
  BY <1>1, <1>3 DEF Undisturbed
<1>5. QED
  BY <1>1, <1>2, <1>4, TokensUntouched, CalmMove DEF CalmInv

LEMMA CalmRevokeOld ==
  ASSUME CalmInv, SHNext, calm', NEW r \in Req, RevokeOld(r)
  PROVE  CalmOK'
<1>1. /\ req[r] \in SessionRequest /\ req[r].pc = "revoke"
      /\ req[r].old \in Tokens
      /\ token \in [Tokens -> Statuses] /\ token[req[r].old] # "none"
      /\ calm /\ Undisturbed(r)
  BY RequestsAreOK
  DEF RevokeOld, CalmInv, SInv, STypeOK, Statuses, HandlerOK, SHNext
<1>2. PICK p \in SessionRequest : p = req[r]
  BY <1>1
<1> DEFINE q == [p EXCEPT !.pc = "sign"]
<1>3. /\ q \in SessionRequest /\ q.pc = "sign"
      /\ q.old = p.old /\ q.user = p.user
  BY <1>2 DEF SessionRequest
<1>4. /\ req' = [req EXCEPT ![r] = q]
      /\ token' = [token EXCEPT ![p.old] = "revoked"]
      /\ UNCHANGED pwd
  BY <1>2 DEF RevokeOld
<1> HIDE DEF q
<1>5. NoNewTokens
  BY <1>1, <1>2, <1>4, NothingStored DEF CalmInv, NoNewTokens
<1>6. req'[r] = q
  BY <1>1, <1>3, <1>4, OthersAreIdle
<1>7. p.old # NULL
  BY <1>1, <1>2, NoTokenAssumption
<1>8. Undisturbed(r)'
  BY <1>1, <1>2, <1>3, <1>4, <1>5, <1>6, <1>7 DEF Undisturbed, NoNewTokens
<1>9. QED
  BY <1>1, <1>3, <1>4, <1>5, <1>8, CalmMove

LEMMA CalmSignPair ==
  ASSUME CalmInv, SHNext, calm', NEW r \in Req, SignPair(r)
  PROVE  CalmOK'
<1>1. /\ req[r] \in SessionRequest /\ HandlerOK(req[r]) /\ req[r].pc = "sign"
      /\ clock \in Times /\ calm /\ Undisturbed(r)
  BY RequestsAreOK DEF SignPair, CalmInv, SInv, STypeOK, SHNext
<1>2. PICK p \in SessionRequest : p = req[r]
  BY <1>1
<1>3. PICK t \in Tokens : t = [user |-> p.user, iat |-> clock]
  BY <1>1, <1>2 DEF Tokens, HandlerOK
<1> DEFINE q == [p EXCEPT !.pc = "store", !.new = t]
<1>4. /\ q \in SessionRequest /\ q.pc = "store" /\ q.pwd = p.pwd
      /\ q.old = p.old /\ q.user = p.user /\ q.new = t
  BY <1>2 DEF SessionRequest
<1>5. req' = [req EXCEPT ![r] = q] /\ UNCHANGED <<token, pwd>>
  BY <1>2, <1>3 DEF SignPair, rows
<1> HIDE DEF q
<1>6. NoNewTokens
  BY <1>5, TokensUntouched DEF CalmInv
<1>7. req'[r] = q
  BY <1>1, <1>4, <1>5, OthersAreIdle
<1>8. Undisturbed(r)'
  BY <1>1, <1>2, <1>3, <1>4, <1>5, <1>6, <1>7 DEF Undisturbed, NoNewTokens
<1>9. QED
  BY <1>1, <1>4, <1>5, <1>6, <1>8, CalmMove

\* The new token is the only one of its login, and of the present password.
LEMMA CalmStoreToken ==
  ASSUME CalmInv, SHNext, calm', NEW r \in Req, StoreToken(r)
  PROVE  CalmOK'
<1> DEFINE new == req[r].new
<1>1. /\ req[r] \in SessionRequest /\ HandlerOK(req[r]) /\ req[r].pc = "store"
      /\ new \in Tokens
      /\ token \in [Tokens -> Statuses]
      /\ lineage \in [Tokens -> LineageRow]
      /\ calm /\ Alone' /\ Undisturbed(r)
  BY RequestsAreOK
  DEF StoreToken, CalmInv, SInv, STypeOK, Statuses, HandlerOK, SHNext
<1>2. /\ req' = [req EXCEPT ![r] = IdleSession] /\ UNCHANGED pwd
      /\ IdleSession \in SessionRequest /\ IdleSession.pc = "idle"
  BY IdleOK DEF StoreToken, Reply, IdleSession
<1>3. /\ req'[r] = IdleSession
      /\ \A s \in Req \ {r} : req[s].pc = "idle" /\ req'[s] = req[s]
  BY <1>1, <1>2, OthersAreIdle
<1>4. \A s \in Req : Undisturbed(s)'
  BY <1>2, <1>3 DEF Undisturbed
<1>5. CASE token[new] # "none"
  <2>1. UNCHANGED token
    BY <1>5 DEF StoreToken
  <2>2. QED
    BY <1>1, <1>2, <1>3, <1>4, <2>1, TokensUntouched, CalmMove DEF CalmInv
<1>6. CASE token[new] = "none"
  <2>1. /\ token' = [token EXCEPT ![new] = "usable"]
        /\ \A t \in Tokens : token'[t] = IF t = new THEN "usable" ELSE token[t]
    BY <1>1, <1>6 DEF StoreToken
  <2>2. Storing(r, new) /\ \A s \in Req : Storing(s, new) => s = r
    BY <1>1, <1>2, <1>3 DEF Storing
  <2>3. lineage'[new] = Born(r, new)
    <3>1. (CHOOSE s \in Req : Storing(s, new)) = r
      BY <2>2
    <3>2. QED
      BY <1>1, <1>6, <2>1, <3>1 DEF SHNext
  <2>4. \A t \in Tokens \ {new} : lineage'[t] = lineage[t]
    BY <2>1 DEF SHNext
  <2>5. ASSUME NEW t \in Tokens \ {new}, token[t] = "usable"
        PROVE  lineage[t].root # Born(r, new).root
    <3>1. CASE req[r].old = NULL
      BY <1>1, <1>6, <2>5, <3>1 DEF Born, CalmInv, RootsAreStored
    <3>2. CASE req[r].old # NULL
      <4>1. req[r].old \in Tokens /\ token[req[r].old] = "revoked"
        BY <1>1, <3>2 DEF SessionRequest, HandlerOK
      <4>2. Born(r, new).root = lineage[req[r].old].root
        BY <1>1, <3>2, <4>1 DEF Born, LineageRow
      <4>3. QED
        BY <1>1, <2>5, <3>2, <4>1, <4>2 DEF Undisturbed
    <3>3. QED
      BY <3>1, <3>2
  <2>6. OneTokenWhenCalm'
    BY <1>1, <2>1, <2>3, <2>4, <2>5 DEF CalmInv, OneTokenWhenCalm, OneTokenPerSession
  <2>7. Born(r, new).pwd = pwd[new.user]
    <3>1. CASE req[r].old = NULL
      BY <1>1, <3>1 DEF Born, Undisturbed
    <3>2. CASE req[r].old # NULL
      <4>1. req[r].old \in Tokens
        BY <1>1, <3>2 DEF SessionRequest
      <4>2. Born(r, new).pwd = lineage[req[r].old].pwd
        BY <1>1, <3>2, <4>1 DEF Born, LineageRow
      <4>3. QED
        BY <1>1, <3>2, <4>2 DEF Undisturbed
    <3>3. QED
      BY <3>1, <3>2
  <2>8. OldPasswordsAreLeaving'
    <3>1. \A s \in Req : req[s].pc # "revokeAll"
      BY <1>1, <1>3
    <3>2. QED
      BY <1>1, <1>2, <2>1, <2>3, <2>4, <2>7, <3>1, AllFresh DEF OldPasswordsAreLeaving
  <2>9. QED
    BY <1>1, <1>4, <2>6, <2>8 DEF CalmOK
<1>7. QED
  BY <1>5, <1>6

LEMMA CalmSetPassword ==
  ASSUME CalmInv, SHNext, calm', NEW r \in Req, SetPassword(r)
  PROVE  CalmOK'
<1>1. /\ req[r] \in SessionRequest /\ req[r].pc = "setPassword"
      /\ req[r].user \in Users
      /\ pwd \in [Users -> Nat]
      /\ calm /\ Alone'
  BY RequestsAreOK DEF SetPassword, CalmInv, SInv, STypeOK, HandlerOK, SHNext
<1>2. PICK p \in SessionRequest : p = req[r]
  BY <1>1
<1> DEFINE q == [p EXCEPT !.pc = "revokeAll"]
<1>3. q \in SessionRequest /\ q.pc = "revokeAll" /\ q.user = p.user
  BY <1>2 DEF SessionRequest
<1>4. /\ req' = [req EXCEPT ![r] = q]
      /\ pwd' = [pwd EXCEPT ![p.user] = @ + 1]
      /\ UNCHANGED token
  BY <1>2 DEF SetPassword
<1> HIDE DEF q
<1>5. /\ req'[r] = q
      /\ \A s \in Req \ {r} : req[s].pc = "idle" /\ req'[s] = req[s]
  BY <1>1, <1>3, <1>4, OthersAreIdle
<1>6. NoNewTokens
  BY <1>4, TokensUntouched DEF CalmInv
<1>7. \A s \in Req : Undisturbed(s)'
  BY <1>3, <1>5 DEF Undisturbed
<1>8. OldPasswordsAreLeaving'
  <2> SUFFICES ASSUME NEW t \in Tokens, token[t] = "usable", t.user # p.user
               PROVE  lineage[t].pwd = pwd'[t.user]
    BY <1>3, <1>4, <1>5, <1>6 DEF OldPasswordsAreLeaving, NoNewTokens
  <2>1. t.user \in Users
    BY DEF Tokens
  <2>2. lineage[t].pwd = pwd[t.user]
    BY <1>1, <1>5, AllFresh
  <2>3. QED
    BY <1>1, <1>2, <1>4, <2>1, <2>2
<1>9. QED
  BY <1>1, <1>6, <1>7, <1>8, OneTokenStays DEF CalmOK

\* What an old password obtained is gone.
LEMMA CalmRevokeAll ==
  ASSUME CalmInv, SHNext, calm', NEW r \in Req, RevokeAll(r)
  PROVE  CalmOK'
<1>1. /\ req[r] \in SessionRequest /\ req[r].pc = "revokeAll"
      /\ calm /\ Alone'
      /\ req' = [req EXCEPT ![r] = IdleSession] /\ UNCHANGED pwd
      /\ IdleSession \in SessionRequest /\ IdleSession.pc = "idle"
  BY RequestsAreOK, IdleOK DEF RevokeAll, Reply, CalmInv, SHNext, IdleSession
<1>2. /\ req'[r] = IdleSession
      /\ \A s \in Req \ {r} : req[s].pc = "idle" /\ req'[s] = req[s]
  BY <1>1, OthersAreIdle
<1>3. NoNewTokens
  BY NothingStored DEF RevokeAll, CalmInv, NoNewTokens
<1>4. \A s \in Req : Undisturbed(s)'
  BY <1>1, <1>2 DEF Undisturbed
<1>5. OldPasswordsAreLeaving'
  <2> SUFFICES ASSUME NEW t \in Tokens, token'[t] = "usable"
               PROVE  lineage[t].pwd = pwd[t.user]
    BY <1>1, <1>3 DEF OldPasswordsAreLeaving, NoNewTokens
  <2>1. token[t] = "usable" /\ t.user # req[r].user
    BY DEF RevokeAll
  <2>2. QED
    BY <1>1, <1>2, <2>1 DEF CalmInv, OldPasswordsAreLeaving
<1>6. QED
  BY <1>1, <1>3, <1>4, <1>5, OneTokenStays DEF CalmOK

\* A request that is cut short is not calm, unless it had done its last call.
LEMMA CalmFail ==
  ASSUME CalmInv, SHNext, calm', NEW r \in Req, Fail(r)
  PROVE  CalmOK'
<1>1. req'[r] = IdleSession
  BY DEF Fail, Reply, CalmInv, SInv, STypeOK
<1>2. StoreToken(r) \/ RevokeAll(r)
  BY <1>1 DEF SHNext, RunsToEnd, Fail
<1>3. QED
  BY <1>2, CalmStoreToken, CalmRevokeAll

LEMMA CalmStep ==
  ASSUME CalmInv, SHNext, calm'
  PROVE  CalmOK'
<1>1. ASSUME NEW r \in Req, SessionStep(r) PROVE CalmOK'
  BY <1>1, CalmLogin, CalmOpenRefresh, CalmRevokeOld, CalmSignPair,
     CalmStoreToken, CalmOpenReset, CalmSetPassword, CalmRevokeAll, CalmFail
  DEF SessionStep
<1>2. ASSUME NEW t \in Tokens, Logout(t) \/ TokenExpires(t) PROVE CalmOK'
  <2>1. token \in [Tokens -> Statuses]
    BY DEF CalmInv, SInv, STypeOK, Statuses
  <2>2. NoNewTokens
    BY <1>2, <2>1, NothingStored DEF Logout, TokenExpires, CalmInv, NoNewTokens
  <2>3. QED
    BY <1>2, <2>2, CalmOutside DEF Logout, TokenExpires
<1>3. ASSUME NEW u \in Users, (\E k \in Keys : RequestReset(u, k)) \/ KeyExpires(u)
      PROVE  CalmOK'
  BY <1>3, TokensUntouched, CalmOutside DEF RequestReset, KeyExpires, CalmInv
<1>4. CASE Tick
  BY <1>4, TokensUntouched, CalmOutside DEF Tick, rows, CalmInv
<1>5. QED
  BY <1>1, <1>2, <1>3, <1>4 DEF SHNext, SNext

\* Roots need no calm: a chain starts with a stored token and grows by tokens
\* that are exchanged for stored ones.
LEMMA RootsStep ==
  ASSUME CalmInv, SHNext
  PROVE  RootsAreStored'
<1>1. TokensKept
  BY EveryStep DEF CalmInv, SHNext, StepOK
<1>2. ASSUME NEW t \in Tokens, token'[t] # "none"
      PROVE  lineage'[t].root \in Tokens /\ token'[lineage'[t].root] # "none"
  <2>1. CASE token[t] # "none"
    <3>1. lineage'[t] = lineage[t]
      BY <2>1 DEF SHNext
    <3>2. QED
      BY <1>1, <2>1, <3>1 DEF CalmInv, RootsAreStored, TokensKept
  <2>2. CASE token[t] = "none"
    <3>1. PICK r \in Req : r = CHOOSE s \in Req : Storing(s, t)
      BY <1>1, <1>2, <2>2 DEF TokensKept
    <3>2. Storing(r, t) /\ lineage'[t] = Born(r, t)
      BY <1>1, <1>2, <2>2, <3>1 DEF TokensKept, SHNext
    <3>3. CASE req[r].old = NULL
      BY <1>2, <3>2, <3>3 DEF Born
    <3>4. CASE req[r].old # NULL
      <4>1. req[r].old \in Tokens /\ token[req[r].old] = "revoked"
        BY <3>2, <3>4, RequestsAreOK DEF Storing, CalmInv, HandlerOK, SessionRequest
      <4>2. Born(r, t).root = lineage[req[r].old].root
        BY <3>4, <4>1 DEF Born, CalmInv, SInv, LineageRow
      <4>3. QED
        BY <1>1, <3>2, <4>1, <4>2 DEF CalmInv, RootsAreStored, TokensKept
    <3>5. QED
      BY <3>3, <3>4
  <2>3. QED
    BY <2>1, <2>2
<1>3. QED
  BY <1>2 DEF RootsAreStored

LEMMA CalmInit == SHInit => CalmInv
<1> SUFFICES ASSUME SHInit PROVE CalmInv
  OBVIOUS
<1>1. /\ \A t \in Tokens : token[t] = "none"
      /\ \A r \in Req : req[r].pc = "idle"
  BY DEF SHInit, SInit, IdleSession
<1>2. SInv
  BY InitEstablishes
<1>3. QED
  BY <1>1, <1>2 DEF CalmInv, RootsAreStored, OneTokenWhenCalm, OneTokenPerSession, Alone, Undisturbed,
     OldPasswordsAreLeaving

LEMMA CalmInvariantStep == CalmInv /\ [SHNext]_hsvars => CalmInv'
<1> SUFFICES ASSUME CalmInv, [SHNext]_hsvars PROVE CalmInv'
  OBVIOUS
<1>1. SInv'
  BY InvariantStep DEF CalmInv
<1>2. CASE SHNext
  <2>1. CASE calm'
    BY <1>1, <1>2, <2>1, RootsStep, CalmStep DEF CalmInv, CalmOK
  <2>2. CASE ~calm'
    BY <1>1, <1>2, <2>2, RootsStep DEF CalmInv, OneTokenWhenCalm, OneTokenPerSession
  <2>3. QED
    BY <2>1, <2>2
<1>3. CASE UNCHANGED hsvars
  BY <1>1, <1>3 DEF hsvars, CalmInv, RootsAreStored, OneTokenWhenCalm, OneTokenPerSession, Alone,
     Undisturbed, OldPasswordsAreLeaving
<1>4. QED
  BY <1>2, <1>3

\* What a request that is alone has read stays true until it is over, and of
\* each login one token at most is usable, as long as no two requests have
\* overlapped and none has been cut short.
THEOREM CalmInvariant == SHSpec => []CalmInv
  BY CalmInit, CalmInvariantStep, PTL DEF SHSpec

\* README: a refresh token that is used is revoked and a new one is issued, so
\* that one login has at most one usable token.
THEOREM OneTokenPerLogin == SHSpec => []OneTokenWhenCalm
<1>1. CalmInv => OneTokenWhenCalm
  BY DEF CalmInv
<1>2. QED
  BY <1>1, CalmInvariant, PTL

\* resetPassword: no session of an old password is left when the reset is
\* over.
THEOREM ResetsEndSessions == SHSpec => []ResetEndsSessionsWhenCalm
<1>1. CalmInv => ResetEndsSessionsWhenCalm
  BY AllFresh DEF ResetEndsSessionsWhenCalm, NoSessionSurvivesReset
<1>2. QED
  BY <1>1, CalmInvariant, PTL
=============================================================================
