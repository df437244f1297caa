--------------------------- MODULE SessionHistory ---------------------------
(***************************************************************************)
(* Sessions with a record of where each refresh token comes from: the      *)
(* token it was exchanged for, the login at the start of that chain, and   *)
(* the password that login was checked against; of whether the reset token *)
(* of a request was good; and of whether requests overlapped or failed.    *)
(* The history variables guard nothing.                                    *)
(***************************************************************************)
EXTENDS Sessions

VARIABLES
  lineage,   \* per token: predecessor, first of the chain, password
  linked,    \* per request: its reset token was current and in time once
  calm       \* so far no two requests overlapped and none was cut short

hsvars == <<clock, token, pwd, key, issued, req, lineage, linked, calm>>

Unborn == [from |-> NULL, root |-> NULL, pwd |-> 0]

\* The reset token of request q is its user's, and in time.
Current(q) ==
  q.user \in Users /\ key[q.user].id = q.key /\ ~key[q.user].expired

\* Request r sets a password in this step.
Sets(r) == req[r].pc = "setPassword" /\ req'[r].pc = "revokeAll"

\* The request that stores token t in this step.
Storing(r, t) == req[r].pc = "store" /\ req[r].new = t /\ req'[r] # req[r]

Born(r, t) ==
  IF req[r].old = NULL
  THEN [from |-> NULL, root |-> t, pwd |-> req[r].pwd]
  ELSE [lineage[req[r].old] EXCEPT !.from = req[r].old]

\* At most one request is in flight.
Alone == \A r, s \in Req : req[r].pc # "idle" /\ req[s].pc # "idle" => r = s

\* A request that leaves in this step has done its last call.
RunsToEnd ==
  \A r \in Req :
    req[r].pc # "idle" /\ req'[r] = IdleSession => StoreToken(r) \/ RevokeAll(r)

SHInit ==
  /\ SInit
  /\ lineage = [t \in Tokens |-> Unborn]
  /\ linked = [r \in Req |-> FALSE]
  /\ calm = TRUE

SHNext ==
  /\ SNext
  /\ lineage' = [t \in Tokens |->
       IF token[t] = "none" /\ token'[t] # "none"
       THEN Born(CHOOSE r \in Req : Storing(r, t), t) ELSE lineage[t]]
  /\ linked' = [r \in Req |->
       req'[r].key # NULL /\ (linked[r] \/ Current(req[r])')]
  /\ calm' = (calm /\ Alone' /\ RunsToEnd)

SHSpec == SHInit /\ [][SHNext]_hsvars

-----------------------------------------------------------------------------
(* What holds however requests interleave and fail.                        *)

\* Rows and requests have their types.
STypeOK ==
  /\ clock \in Times
  /\ token \in [Tokens -> {"none", "usable", "revoked", "expired"}]
  /\ pwd \in [Users -> Nat]
  /\ key \in [Users -> [id : Keys \cup {NULL}, expired : BOOLEAN]]
  /\ issued \subseteq Keys
  /\ req \in [Req -> SessionRequest]

\* Revocation is final: no login, rotation or retry makes a revoked refresh
\* token usable again, although a token signed in the same second is the
\* very same string.
RevocationIsFinal ==
  [][\A t \in Tokens : token[t] = "revoked" => token'[t] = "revoked"]_hsvars

\* A token obtained by rotation has a revoked predecessor, so the chain of a
\* login has no usable token but at its ends ("when a refresh token is used,
\* it's immediately revoked").
RotationRevokesFirst ==
  \A t \in Tokens :
    lineage[t].from # NULL => token[lineage[t].from] = "revoked"

\* A password changes only on behalf of a request whose reset token was at
\* one moment of the request the user's current one and in time.
ResetsAreLinked ==
  [][\A r \in Req :
       Sets(r) => linked[r]]_hsvars

\* The inductive invariant: a rotation that has revoked its token works on a
\* revoked one until it is over; a reset in progress was once linked.
LineageRow == [from : Tokens \cup {NULL}, root : Tokens \cup {NULL}, pwd : Nat]

RequestInv(r) ==
  LET q == req[r]
  IN /\ q.pc \in {"sign", "store"} /\ q.old # NULL => token[q.old] = "revoked"
     /\ q.pc # "idle" => q.user \in Users
     /\ q.pc = "revoke" => q.old \in Tokens /\ token[q.old] # "none"
     /\ q.pc = "store" => q.new \in Tokens
     /\ q.pc = "setPassword" => linked[r] /\ q.key # NULL

SInv ==
  /\ STypeOK
  /\ lineage \in [Tokens -> LineageRow]
  /\ linked \in [Req -> BOOLEAN]
  /\ RotationRevokesFirst
  /\ \A r \in Req : RequestInv(r)

-----------------------------------------------------------------------------
(* What README and comments claim; most of it holds only as long as no two *)
(* requests overlap and none is cut short.                                 *)

\* README: a used refresh token is "immediately revoked and a new one is
\* issued", so that one login has at most one usable refresh token.
OneTokenPerSession ==
  \A t, u \in Tokens :
    token[t] = "usable" /\ token[u] = "usable" /\ lineage[t].root = lineage[u].root
      => t = u

\* As long as no two requests overlap and none is cut short, it has.
OneTokenWhenCalm == calm => OneTokenPerSession

\* README, same place: a rotation that comes as far as storing its new token
\* can store it, so that the session it has cut off goes on.
RotationIssues ==
  \A r \in Req :
    req[r].pc = "store" /\ req[r].old # NULL => token[req[r].new] = "none"

\* resetPassword: "so a stolen session can't survive a password reset".  With
\* no request in flight, every usable token comes from a login checked
\* against the present password.
NoSessionSurvivesReset ==
  (\A r \in Req : req[r].pc = "idle") =>
    \A t \in Tokens : token[t] = "usable" => lineage[t].pwd = pwd[t.user]

\* resetPassword: the reset token is cleared "so it cannot be reused
\* (single-use)".  A password is only set while its request's reset token is
\* still the user's current one.
ResetTokensAreSingleUse ==
  [][\A r \in Req :
       Sets(r) => key[req[r].user].id = req[r].key]_hsvars

\* No session survives as long as no two requests overlap and none is cut short.
ResetEndsSessionsWhenCalm == calm => NoSessionSurvivesReset

-----------------------------------------------------------------------------
(* Why these hold: the inductive invariant of calm states.                 *)

\* The chain of a token that was ever stored starts with one that was, too.
RootsAreStored ==
  \A t \in Tokens :
    token[t] # "none" =>
      lineage[t].root \in Tokens /\ token[lineage[t].root] # "none"

\* What a request that is not disturbed has read is still so: the password of
\* a login or of the chain a rotation prolongs, and that the chain has no
\* usable token but the one redeemed.
Undisturbed(r) ==
  LET q == req[r]
  IN /\ q.pc \in {"sign", "store"} /\ q.old = NULL => q.pwd = pwd[q.user]
     /\ q.pc \in {"revoke", "sign", "store"} /\ q.old # NULL =>
          /\ q.old.user = q.user
          /\ lineage[q.old].pwd = pwd[q.user]
          /\ \A t \in Tokens :
               token[t] = "usable" /\ lineage[t].root = lineage[q.old].root
                 => t = q.old
     /\ q.pc = "store" => q.new.user = q.user

\* A usable token that an old password obtained is about to be revoked.
OldPasswordsAreLeaving ==
  \A t \in Tokens :
    token[t] = "usable" =>
      \/ lineage[t].pwd = pwd[t.user]
      \/ \E r \in Req : req[r].pc = "revokeAll" /\ req[r].user = t.user

CalmInv ==
  /\ SInv
  /\ RootsAreStored
  /\ OneTokenWhenCalm
  /\ calm => /\ Alone
             /\ \A r \in Req : Undisturbed(r)
             /\ OldPasswordsAreLeaving
=============================================================================
