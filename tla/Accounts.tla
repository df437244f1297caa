------------------------------ MODULE Accounts ------------------------------
(***************************************************************************)
(* Accounts from signup to verified address: signup, the verification mail *)
(* that is sent without waiting for it, the link in it, and the checks of  *)
(* login.  Reset and rotation are in Sessions.  The seed script, which     *)
(* empties the tables and fills them while the service may be running, is  *)
(* here with what it does to users.                                        *)
(*                                                                         *)
(* An action is one database call with the code up to the next await.      *)
(* Users are who they are by their password: `by` is the person whose      *)
(* password an account has.  No operation of the service switches isActive.*)
(*                                                                         *)
(* A definition commented "Mutant" is used by no other: it is a plausible  *)
(* mistake in the definition that follows.                                 *)
(***************************************************************************)
EXTENDS Naturals

CONSTANTS
  Spellings,      \* what is typed as an e-mail address
  Canonical(_),   \* the spelling without outer blanks and in lower case
  Persons,
  Seeds,          \* the demo users of seed.js: [Spellings -> Persons \cup {NULL}]
  Links,          \* verification tokens (bound: one signup per link)
  Req,            \* slots for requests in flight (bound: how many overlap)
  MayFail,        \* whether calls may fail half-way through a request
  NULL

ASSUME AccountsAssumption ==
  /\ \A s \in Spellings : /\ Canonical(s) \in Spellings
                          /\ Canonical(Canonical(s)) = Canonical(s)
  /\ Seeds \in [Spellings -> Persons \cup {NULL}]
  /\ \A s \in Spellings : Seeds[s] # NULL => Canonical(s) = s
  /\ NULL \notin Spellings \cup Persons \cup Links
  /\ MayFail \in BOOLEAN

VARIABLES
  account,   \* users, by the e-mail address stored (unique)
  mail,      \* verification mails on their way or in a mailbox
  minted,    \* links generated so far: random, so never twice
  req,       \* requests in flight
  seeding,   \* users the seed script has yet to create
  answered,  \* history: who was given tokens, for which account, by what
  intime     \* history: requests whose account had a live link meanwhile

avars == <<account, mail, minted, req, seeding, answered, intime>>

NoAccount == [by |-> NULL, verified |-> FALSE, link |-> NULL, expired |-> FALSE]

IdleCall == [pc |-> "idle", op |-> "none", who |-> NULL, email |-> NULL,
             link |-> NULL]

AInit ==
  /\ account = [s \in Spellings |-> NoAccount]
  /\ mail = {}
  /\ minted = {}
  /\ req = [r \in Req |-> IdleCall]
  /\ seeding = {}
  /\ answered = {}
  /\ intime = {}

Exists(s) == account[s] # NoAccount

Done(r) == req' = [req EXCEPT ![r] = IdleCall]

-----------------------------------------------------------------------------
(* Signup: look for the address, hash the password, create the account,    *)
(* send the mail without waiting, store a token pair.                      *)

\* Mutant: the address is taken as it was typed.
NormalizedAsTyped(s) == s

Normalized(s) == Canonical(s)

\* A conflict found here ends the request and changes nothing: left out.
Signup(r, p, s, k) ==
  /\ req[r] = IdleCall
  /\ ~Exists(Normalized(s))
  /\ k \notin minted
  /\ minted' = minted \cup {k}
  /\ req' = [req EXCEPT ![r] = [pc |-> "create", op |-> "signup", who |-> p,
                                email |-> Normalized(s), link |-> k]]
  /\ UNCHANGED <<account, mail, answered, seeding>>

\* Mutant: emailVerificationExpiry is not set.
NewAccountWithoutExpiry(q) == [by |-> q.who, verified |-> FALSE, link |-> q.link, expired |-> NULL]

NewAccount(q) == [by |-> q.who, verified |-> FALSE, link |-> q.link, expired |-> FALSE]

SendMail(q) == mail' = mail \cup {[to |-> q.email, link |-> q.link]}

\* Mutants: upsert for create; the mail goes out before the account is stored.
CreateOrReplace(r) ==
  /\ req[r].pc = "create"
  /\ account' = [account EXCEPT ![req[r].email] = NewAccount(req[r])]
  /\ SendMail(req[r])
  /\ req' = [req EXCEPT ![r].pc = "pair"]
  /\ UNCHANGED <<minted, answered, seeding>>
CreateAfterMail(r) ==
  /\ req[r].pc = "create"
  /\ SendMail(req[r])
  /\ IF Exists(req[r].email)
     THEN Done(r) /\ UNCHANGED account
     ELSE /\ account' = [account EXCEPT ![req[r].email] = NewAccount(req[r])]
          /\ req' = [req EXCEPT ![r].pc = "pair"]
  /\ UNCHANGED <<minted, answered, seeding>>

\* The unique index on users.email refuses a second row (P2002), and the
\* request ends there; the first row's mail is under way from here on.
Create(r) ==
  /\ req[r].pc = "create"
  /\ IF Exists(req[r].email)
     THEN Done(r) /\ UNCHANGED <<account, mail>>
     ELSE /\ account' = [account EXCEPT ![req[r].email] = NewAccount(req[r])]
          /\ SendMail(req[r])
          /\ req' = [req EXCEPT ![r].pc = "pair"]
  /\ UNCHANGED <<minted, answered, seeding>>

\* generateTokenPair, for signup and login alike.
Pair(r) ==
  /\ req[r].pc = "pair"
  /\ answered' = answered \cup {[who |-> req[r].who, email |-> req[r].email,
                                 op |-> req[r].op]}
  /\ Done(r)
  /\ UNCHANGED <<account, mail, minted, seeding>>

-----------------------------------------------------------------------------
(* Login: one read of the account decides.                                 *)

LoginAccepts(row, p) == row.by = p /\ row.verified

\* A login that is refused changes nothing and is left out.
Login(r, p, s) ==
  /\ req[r] = IdleCall
  /\ LoginAccepts(account[Normalized(s)], p)
  /\ req' = [req EXCEPT ![r] = [pc |-> "pair", op |-> "login", who |-> p,
                                email |-> Normalized(s), link |-> NULL]]
  /\ UNCHANGED <<account, mail, minted, answered, seeding>>

-----------------------------------------------------------------------------
(* verifyEmail: find the account of a link, check, mark it verified.       *)

\* Mutant: emailVerificationExpiry is not looked at.
OpensAnyTime(s, k) == account[s].link = k /\ ~account[s].verified

\* A link that is found on a verified account would be answered kindly, and
\* one that has expired or is unknown is refused: nothing changes.
Opens(s, k) ==
  account[s].link = k /\ ~account[s].expired /\ ~account[s].verified

OpenLink(r, s, m) ==
  /\ req[r] = IdleCall
  /\ m \in mail
  /\ Opens(s, m.link)
  /\ req' = [req EXCEPT ![r] = [pc |-> "verify", op |-> "verify", who |-> NULL,
                                email |-> s, link |-> m.link]]
  /\ UNCHANGED <<account, mail, minted, answered, seeding>>

\* Mutant: the link goes, and that is all.
VerifyNothing(r) ==
  /\ req[r].pc = "verify"
  /\ account' = [account EXCEPT ![req[r].email].link = NULL]
  /\ Done(r)
  /\ UNCHANGED <<mail, minted, answered, seeding>>

\* By the user's id: whether or not the account has been verified since.
Verify(r) ==
  /\ req[r].pc = "verify"
  /\ account' = [account EXCEPT ![req[r].email] =
                   [by |-> @.by, verified |-> TRUE, link |-> NULL, expired |-> FALSE]]
  /\ Done(r)
  /\ UNCHANGED <<mail, minted, answered, seeding>>

-----------------------------------------------------------------------------
(* Time, lost mail and failure.                                            *)

LinkExpires(s) ==
  /\ account[s].link # NULL /\ ~account[s].expired
  /\ account' = [account EXCEPT ![s].expired = TRUE]
  /\ UNCHANGED <<mail, minted, answered, req, seeding>>

\* Sending fails, the process ends before it is sent, or it is never read.
LoseMail(m) ==
  /\ m \in mail
  /\ mail' = mail \ {m}
  /\ UNCHANGED <<account, minted, answered, req, seeding>>

Fail(r) ==
  /\ MayFail
  /\ req[r].pc # "idle"
  /\ Done(r)
  /\ UNCHANGED <<account, mail, minted, answered, seeding>>

-----------------------------------------------------------------------------
(* seed.js: all rows are deleted, then the demo users created.             *)

\* The deletion of the users.  Their refresh tokens and links go with them, so
\* that no token and no mail leads anywhere; a request that was about to write
\* to one of their rows fails (P2003, P2025), one about to create its own does
\* not notice.
SeedEmpties ==
  /\ account' = [s \in Spellings |-> NoAccount]
  /\ mail' = {}
  /\ answered' = {}
  /\ req' = [r \in Req |-> IF req[r].pc = "create" THEN req[r] ELSE IdleCall]
  /\ seeding' = {s \in Spellings : Seeds[s] # NULL}
  /\ UNCHANGED minted

\* The creations run at once, so in any order: an account with a password and
\* the defaults of the schema, unless a signup was faster (P2002).
SeedUser(s) ==
  /\ s \in seeding
  /\ seeding' = seeding \ {s}
  /\ account' = IF Exists(s) THEN account
                ELSE [account EXCEPT ![s] = [NoAccount EXCEPT !.by = Seeds[s]]]
  /\ UNCHANGED <<mail, minted, answered, req>>

\* A call of the script failed, and it exits.
SeedStops ==
  /\ seeding # {}
  /\ seeding' = {}
  /\ UNCHANGED <<account, mail, minted, answered, req>>

Call(r) ==
  \/ \E p \in Persons, s \in Spellings, k \in Links : Signup(r, p, s, k)
  \/ \E p \in Persons, s \in Spellings : Login(r, p, s)
  \/ Create(r)
  \/ Pair(r)
  \/ \E s \in Spellings, m \in mail : OpenLink(r, s, m)
  \/ Verify(r)
  \/ Fail(r)

Step ==
  \/ \E r \in Req : Call(r)
  \/ \E s \in Spellings : LinkExpires(s)
  \/ \E m \in mail : LoseMail(m)
  \/ SeedEmpties
  \/ \E s \in Spellings : SeedUser(s)
  \/ SeedStops

\* The link of verification request q opens its account.
LiveLink(q) == q.op = "verify" /\ account[q.email].link = q.link /\ ~account[q.email].expired

\* History: which verifications have met a good link so far.
Remember ==
  intime' = {r \in Req : req'[r].op = "verify" /\ (r \in intime \/ LiveLink(req[r])')}

ANext == Step /\ Remember

ASpec == AInit /\ [][ANext]_avars

\* Requests come to an end; calls do not fail for ever; and whoever has the
\* mail tries its link until it has done its work.
FairVerification(s) ==
  /\ SF_avars((\E r \in Req, m \in mail : OpenLink(r, s, m)) /\ Remember)
  /\ SF_avars((\E r \in Req : req[r].email = s /\ Verify(r)) /\ Remember)

FairASpec ==
  /\ ASpec
  /\ \A r \in Req : WF_avars((Create(r) \/ Pair(r) \/ Verify(r)) /\ Remember)
  /\ \A s \in {Canonical(t) : t \in Spellings} : FairVerification(s)

-----------------------------------------------------------------------------

ARequest ==
  [pc : {"idle", "create", "pair", "verify"}, op : {"none", "signup", "login", "verify"},
   who : Persons \cup {NULL}, email : Spellings \cup {NULL}, link : Links \cup {NULL}]

Letter == [to : Spellings, link : Links]

\* Rows, mails and requests have their types.
ATypeOK ==
  /\ account \in [Spellings -> [by : Persons \cup {NULL}, verified : BOOLEAN,
                                link : Links \cup {NULL}, expired : BOOLEAN]]
  /\ mail \subseteq Letter
  /\ minted \subseteq Links
  /\ answered \subseteq [who : Persons, email : Spellings, op : {"signup", "login"}]
  /\ req \in [Req -> ARequest]
  /\ seeding \subseteq {s \in Spellings : Seeds[s] # NULL}
  /\ intime \subseteq Req

\* However signups race and fail, an address has one account, in whatever
\* spellings it was typed (signup, the unique index on users.email).
OneAccountPerAddress ==
  \A s, t \in Spellings :
    Exists(s) /\ Exists(t) /\ Canonical(s) = Canonical(t) => s = t

\* Tokens for an account are given to nobody but the person whose password
\* it has: of two signups racing for an address the loser gets none, and the
\* winner's password stays.
TokensGoToTheOwner ==
  \A a \in answered : account[a.email].by = a.who

\* While the users are left in the table a mailed link is never a dead one: it
\* leads to the account of the address it was sent to, though it may have run
\* out, or that account is verified already.
MailedLinksLead ==
  \A m \in mail : account[m.to].link = m.link \/ account[m.to].verified

\* What a signup, a login and a verification have found stays true until they
\* end: the spelling is the canonical one, the password is that of whoever is
\* about to get tokens, the account is there and its link was good.
CallOK(r) ==
  LET q == req[r]
  IN /\ q.pc = "create" =>
          /\ q.op = "signup" /\ q.who \in Persons /\ q.link \in Links
          /\ q.email \in Spellings /\ Canonical(q.email) = q.email
     /\ q.pc = "pair" =>
          /\ q.who \in Persons /\ q.op \in {"signup", "login"}
          /\ q.email \in Spellings /\ account[q.email].by = q.who
     /\ q.pc = "verify" =>
          /\ q.op = "verify" /\ r \in intime
          /\ q.email \in Spellings /\ Exists(q.email)

\* What keeps an address, its password and its links together while signups,
\* logins and verifications race and fail.
AInv ==
  /\ ATypeOK /\ TokensGoToTheOwner /\ MailedLinksLead
  /\ \A s \in Spellings : Exists(s) => Canonical(s) = s
  /\ \A r \in Req : CallOK(r)

\* An account is verified only by a request during which its link was good at
\* one moment, however long the request took, and stays verified until the
\* seed script empties the table.
VerificationIsEarned ==
  [][\A s \in Spellings :
       IF account[s].verified
       THEN account'[s].verified \/ ~ \E t \in Spellings : Exists(t)'
       ELSE account'[s].verified => \E r \in intime : req[r].email = s]_avars

\* Every account that signup created is verified in the end, though the token
\* pair could not be stored and requests fail, unless its mail is lost, its
\* link expires (nothing sends another) or the seed script deletes it.
AccountsAreVerified ==
  \A s \in Spellings, k \in Links :
    account[s].link = k ~>
      \/ account[s].verified
      \/ account[s].expired
      \/ ~ \E m \in mail : m.link = k
=============================================================================
