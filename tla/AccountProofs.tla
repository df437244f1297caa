---------------------------- MODULE AccountProofs ----------------------------
(***************************************************************************)
(* Proofs about Accounts for every set of addresses, persons, links and    *)
(* request slots, and every way of spelling an address.                    *)
(***************************************************************************)
EXTENDS Accounts, TLAPS

Rows == [by : Persons \cup {NULL}, verified : BOOLEAN,
         link : Links \cup {NULL}, expired : BOOLEAN]

LEMMA TypesOfAInv ==
  ASSUME AInv
  PROVE  /\ account \in [Spellings -> Rows]
         /\ mail \subseteq Letter
         /\ minted \subseteq Links
         /\ answered \subseteq [who : Persons, email : Spellings, op : {"signup", "login"}]
         /\ req \in [Req -> ARequest]
         /\ seeding \subseteq {s \in Spellings : Seeds[s] # NULL}
         /\ intime \subseteq Req
  BY DEF AInv, ATypeOK, Rows

\* What no step does but the one that empties the table: take an account away,
\* change its password, or let a verified one lapse; and only canonical
\* spellings come to be.
AccountsKept ==
  /\ account' \in [Spellings -> Rows]
  /\ \A s \in Spellings :
       /\ Exists(s) => Exists(s)' /\ account'[s].by = account[s].by
       /\ account[s].verified => account'[s].verified
       /\ Exists(s) /\ account'[s].link # account[s].link => account'[s].verified
       /\ Exists(s)' => Canonical(s) = s

LEMMA AccountsUnchanged ==
  ASSUME AInv, UNCHANGED account
  PROVE  AccountsKept
  BY TypesOfAInv DEF AccountsKept, Exists, AInv

\* A request that stays where it is stays in time.
IntimeKept ==
  intime' = {r \in Req : req'[r].op = "verify" /\ (r \in intime \/ LiveLink(req[r])')}

LEMMA OthersCallOK ==
  ASSUME AInv, AccountsKept, IntimeKept, NEW r \in Req, req'[r] = req[r]
  PROVE  CallOK(r)'
<1>1. CallOK(r) /\ req[r] \in ARequest
  BY TypesOfAInv DEF AInv
<1>2. CASE req[r].pc = "pair"
  <2>1. Exists(req[r].email)
    BY <1>1, <1>2, AccountsAssumption DEF CallOK, Exists, NoAccount
  <2>2. QED
    BY <1>1, <1>2, <2>1 DEF CallOK, AccountsKept
<1>3. CASE req[r].pc = "verify"
  <2>1. r \in intime'
    BY <1>1, <1>3 DEF CallOK, IntimeKept
  <2>2. QED
    BY <1>1, <1>3, <2>1 DEF CallOK, AccountsKept
<1>4. CASE req[r].pc \in {"create", "idle"}
  <2>1. req[r].pc = "create" =>
          /\ req[r].op = "signup" /\ req[r].who \in Persons /\ req[r].link \in Links
          /\ req[r].email \in Spellings /\ Canonical(req[r].email) = req[r].email
    BY <1>1 DEF CallOK
  <2>2. PICK q : q = req[r] /\ q = req'[r]
    OBVIOUS
  <2>3. QED
    BY <1>4, <2>1, <2>2 DEF CallOK
<1>5. QED
  BY <1>1, <1>2, <1>3, <1>4 DEF ARequest

LEMMA TokensAndLinksStay ==
  ASSUME AInv, AccountsKept,
         answered' \subseteq [who : Persons, email : Spellings, op : {"signup", "login"}],
         mail' \subseteq Letter,
         \A a \in answered' \ answered : account'[a.email].by = a.who,
         \A m \in mail' \ mail : account'[m.to].link = m.link
  PROVE  TokensGoToTheOwner' /\ MailedLinksLead'
<1>1. ASSUME NEW a \in answered PROVE account'[a.email].by = a.who
  <2>1. a.email \in Spellings /\ a.who \in Persons /\ account[a.email].by = a.who
    BY TypesOfAInv DEF AInv, TokensGoToTheOwner
  <2>2. Exists(a.email)
    BY <2>1, AccountsAssumption DEF Exists, NoAccount
  <2>3. QED
    BY <2>1, <2>2 DEF AccountsKept
<1>2. ASSUME NEW m \in mail
      PROVE  account'[m.to].link = m.link \/ account'[m.to].verified
  <2>1. /\ m.to \in Spellings /\ m.link \in Links
        /\ account[m.to].link = m.link \/ account[m.to].verified
    BY TypesOfAInv DEF AInv, MailedLinksLead, Letter
  <2>2. Exists(m.to)
    BY <2>1, AccountsAssumption DEF Exists, NoAccount
  <2>3. QED
    BY <2>1, <2>2 DEF AccountsKept
<1>3. QED
  BY <1>1, <1>2 DEF TokensGoToTheOwner, MailedLinksLead

-----------------------------------------------------------------------------
(* Two kinds of step: one request moves, or none does.                     *)

\* Tokens are given to the owner, and mails are sent with the account's link;
\* the seed script has no more to do than before.
Answers ==
  /\ seeding' \subseteq seeding
  /\ minted' \subseteq Links
  /\ answered' \subseteq [who : Persons, email : Spellings, op : {"signup", "login"}]
  /\ mail' \subseteq Letter
  /\ \A a \in answered' \ answered : account'[a.email].by = a.who
  /\ \A m \in mail' \ mail : account'[m.to].link = m.link

LEMMA NoAnswer ==
  ASSUME AInv, UNCHANGED <<minted, mail, answered>>, seeding' \subseteq seeding
  PROVE  Answers
  BY TypesOfAInv DEF Answers

LEMMA IntimeType ==
  ASSUME IntimeKept
  PROVE  intime' \subseteq Req
  BY DEF IntimeKept

LEMMA OneCall ==
  ASSUME AInv, AccountsKept, IntimeKept, Answers,
         NEW r \in Req, NEW q \in ARequest,
         req' = [req EXCEPT ![r] = q],
         CallOK(r)'
  PROVE  AInv'
<1>1. \A s \in Req \ {r} : req'[s] = req[s]
  BY TypesOfAInv
<1>2. req' \in [Req -> ARequest]
  BY TypesOfAInv
<1>3. \A s \in Req : CallOK(s)'
  BY <1>1, OthersCallOK
<1>4. TokensGoToTheOwner' /\ MailedLinksLead'
  BY TokensAndLinksStay DEF Answers
<1>5. ATypeOK'
  BY <1>2, IntimeType, TypesOfAInv DEF ATypeOK, Answers, AccountsKept, Rows
<1>6. QED
  BY <1>3, <1>4, <1>5 DEF AInv, AccountsKept

LEMMA NoCall ==
  ASSUME AInv, AccountsKept, IntimeKept, Answers, UNCHANGED req
  PROVE  AInv'
<1>1. \A s \in Req : CallOK(s)'
  BY OthersCallOK
<1>2. TokensGoToTheOwner' /\ MailedLinksLead'
  BY TokensAndLinksStay DEF Answers
<1>3. ATypeOK'
  BY TypesOfAInv, IntimeType DEF ATypeOK, Answers, AccountsKept, Rows
<1>4. QED
  BY <1>1, <1>2, <1>3 DEF AInv, AccountsKept

LEMMA DoneStep ==
  ASSUME AInv, AccountsKept, IntimeKept, Answers, NEW r \in Req, Done(r)
  PROVE  AInv'
<1>1. IdleCall \in ARequest
  BY DEF IdleCall, ARequest
<1>2. req'[r] = IdleCall
  BY TypesOfAInv DEF Done
<1>3. CallOK(r)'
  BY <1>2 DEF CallOK, IdleCall
<1>4. QED
  BY <1>1, <1>3, OneCall DEF Done

-----------------------------------------------------------------------------
(* Signup and login.                                                       *)

LEMMA SignupStep ==
  ASSUME AInv, IntimeKept, NEW r \in Req, NEW p \in Persons, NEW s \in Spellings,
         NEW k \in Links, Signup(r, p, s, k)
  PROVE  AInv'
<1>1. PICK e \in Spellings : e = Normalized(s) /\ Canonical(e) = e
  BY AccountsAssumption DEF Normalized
<1> DEFINE q == [pc |-> "create", op |-> "signup", who |-> p, email |-> e, link |-> k]
<1>2. q \in ARequest
  BY DEF ARequest
<1>3. req' = [req EXCEPT ![r] = q]
  BY <1>1 DEF Signup
<1>4. req'[r] = q
  BY <1>3, TypesOfAInv
<1>5. CallOK(r)'
  BY <1>1, <1>4 DEF CallOK
<1>6. AccountsKept
  BY AccountsUnchanged DEF Signup
<1>7. Answers
  BY TypesOfAInv DEF Answers, Signup
<1> HIDE DEF q
<1>8. QED
  BY <1>2, <1>3, <1>5, <1>6, <1>7, OneCall

LEMMA LoginStep ==
  ASSUME AInv, IntimeKept, NEW r \in Req, NEW p \in Persons, NEW s \in Spellings,
         Login(r, p, s)
  PROVE  AInv'
<1>1. PICK e \in Spellings : e = Normalized(s)
  BY AccountsAssumption DEF Normalized
<1> DEFINE q == [pc |-> "pair", op |-> "login", who |-> p, email |-> e, link |-> NULL]
<1>2. q \in ARequest
  BY DEF ARequest
<1>3. req' = [req EXCEPT ![r] = q] /\ account[e].by = p /\ UNCHANGED <<account, mail, minted, answered, seeding>>
  BY <1>1 DEF Login, LoginAccepts
<1>4. req'[r] = q
  BY <1>3, TypesOfAInv
<1>5. CallOK(r)'
  BY <1>3, <1>4 DEF CallOK
<1>6. AccountsKept /\ Answers
  BY <1>3, AccountsUnchanged, NoAnswer
<1> HIDE DEF q
<1>7. QED
  BY <1>2, <1>3, <1>5, <1>6, OneCall

\* The loser of a race ends; the winner's row, mail and next call agree.
LEMMA CreateStep ==
  ASSUME AInv, IntimeKept, NEW r \in Req, Create(r)
  PROVE  AInv'
<1>1. PICK e \in Spellings, p \in Persons, k \in Links :
        /\ req[r].email = e /\ req[r].who = p /\ req[r].link = k
        /\ Canonical(e) = e
  BY DEF AInv, CallOK, Create
<1>2. CASE Exists(e)
  <2>1. Done(r) /\ UNCHANGED <<account, mail, minted, answered, seeding>>
    BY <1>1, <1>2 DEF Create
  <2>2. QED
    BY <2>1, AccountsUnchanged, NoAnswer, DoneStep
<1>3. CASE ~Exists(e)
  <2> DEFINE row == [by |-> p, verified |-> FALSE, link |-> k, expired |-> FALSE]
             q == [req[r] EXCEPT !.pc = "pair"]
  <2>1. /\ account' = [account EXCEPT ![e] = row]
        /\ mail' = mail \cup {[to |-> e, link |-> k]}
        /\ req' = [req EXCEPT ![r] = q]
        /\ UNCHANGED <<minted, answered, seeding>>
    BY <1>1, <1>3 DEF Create, NewAccount, SendMail
  <2>2. row \in Rows /\ row # NoAccount
    BY AccountsAssumption DEF Rows, NoAccount
  <2>3. account[e] = NoAccount
    BY <1>3 DEF Exists
  <2>4. /\ q \in ARequest /\ q.pc = "pair" /\ q.who = p /\ q.email = e
        /\ q.op = req[r].op
    BY <1>1, TypesOfAInv DEF ARequest
  <2>5. account'[e] = row /\ \A s \in Spellings \ {e} : account'[s] = account[s]
    BY <2>1, TypesOfAInv
  <2>6. AccountsKept
    <3>1. account' \in [Spellings -> Rows]
      BY <2>1, <2>2, TypesOfAInv
    <3>2. \A s \in Spellings : Exists(s) => s # e
      BY <2>3 DEF Exists
    <3>3. ~account[e].verified
      BY <2>3 DEF NoAccount
    <3>4. \A s \in Spellings \ {e} : Exists(s) => Canonical(s) = s
      BY DEF AInv
    <3>5. QED
      BY <1>1, <2>5, <3>1, <3>2, <3>3, <3>4 DEF AccountsKept, Exists
  <2>7. Answers
    BY <2>1, <2>5, TypesOfAInv DEF Answers, Letter
  <2>8. req[r].op = "signup"
    BY DEF AInv, CallOK, Create
  <2>9. CallOK(r)'
    BY <2>1, <2>4, <2>5, <2>8, TypesOfAInv DEF CallOK
  <2> HIDE DEF q, row
  <2>10. QED
    BY <2>1, <2>4, <2>6, <2>7, <2>9, OneCall
<1>4. QED
  BY <1>2, <1>3

LEMMA PairStep ==
  ASSUME AInv, IntimeKept, NEW r \in Req, Pair(r)
  PROVE  AInv'
<1> DEFINE a == [who |-> req[r].who, email |-> req[r].email, op |-> req[r].op]
<1>1. /\ a \in [who : Persons, email : Spellings, op : {"signup", "login"}]
      /\ account[a.email].by = a.who
  BY DEF AInv, CallOK, Pair
<1>2. answered' = answered \cup {a} /\ Done(r) /\ UNCHANGED <<account, mail, minted, seeding>>
  BY DEF Pair
<1> HIDE DEF a
<1>3. Answers
  BY <1>1, <1>2, TypesOfAInv DEF Answers
<1>4. QED
  BY <1>2, <1>3, AccountsUnchanged, DoneStep

-----------------------------------------------------------------------------
(* Verification.                                                           *)

LEMMA OpenLinkStep ==
  ASSUME AInv, IntimeKept, NEW r \in Req, NEW s \in Spellings, NEW m \in mail,
         OpenLink(r, s, m)
  PROVE  AInv'
<1>1. PICK k \in Links : k = m.link
  BY TypesOfAInv DEF Letter
<1> DEFINE q == [pc |-> "verify", op |-> "verify", who |-> NULL, email |-> s, link |-> k]
<1>2. q \in ARequest
  BY DEF ARequest
<1>3. /\ req' = [req EXCEPT ![r] = q]
      /\ account[s].link = k /\ ~account[s].expired
      /\ UNCHANGED <<account, mail, minted, answered, seeding>>
  BY <1>1 DEF OpenLink, Opens
<1>4. req'[r] = q
  BY <1>3, TypesOfAInv
<1>5. LiveLink(req[r])'
  BY <1>3, <1>4 DEF LiveLink
<1>6. r \in intime'
  BY <1>4, <1>5 DEF IntimeKept
<1>7. Exists(s)
  BY <1>3, AccountsAssumption DEF Exists, NoAccount
<1>8. CallOK(r)'
  BY <1>3, <1>4, <1>6, <1>7 DEF CallOK, Exists
<1>9. AccountsKept /\ Answers
  BY <1>3, AccountsUnchanged, NoAnswer
<1> HIDE DEF q
<1>10. QED
  BY <1>2, <1>3, <1>8, <1>9, OneCall

LEMMA VerifyStep ==
  ASSUME AInv, IntimeKept, NEW r \in Req, Verify(r)
  PROVE  AInv'
<1>1. PICK e \in Spellings : e = req[r].email /\ Exists(e)
  BY DEF AInv, CallOK, Verify
<1> DEFINE row == [by |-> account[e].by, verified |-> TRUE, link |-> NULL, expired |-> FALSE]
<1>2. row \in Rows /\ row # NoAccount /\ row.by = account[e].by /\ row.verified
  BY TypesOfAInv DEF Rows, NoAccount
<1>3. account' = [account EXCEPT ![e] = row] /\ Done(r) /\ UNCHANGED <<mail, minted, answered, seeding>>
  BY <1>1 DEF Verify
<1> HIDE DEF row
<1>4. account' \in [Spellings -> Rows]
  BY <1>2, <1>3, TypesOfAInv
<1>5. account'[e] = row /\ \A s \in Spellings \ {e} : account'[s] = account[s]
  BY <1>3, TypesOfAInv
<1>6. \A s \in Spellings : Exists(s) => Canonical(s) = s
  BY DEF AInv
<1>7. AccountsKept
  BY <1>1, <1>2, <1>4, <1>5, <1>6 DEF AccountsKept, Exists
<1>8. QED
  BY <1>3, <1>7, NoAnswer, DoneStep

-----------------------------------------------------------------------------
(* Time, lost mail, failure, the seed script.                              *)

LEMMA LinkExpiresStep ==
  ASSUME AInv, IntimeKept, NEW s \in Spellings, LinkExpires(s)
  PROVE  AInv'
<1> DEFINE row == [account[s] EXCEPT !.expired = TRUE]
<1>1. /\ row \in Rows /\ row # NoAccount /\ row.by = account[s].by
      /\ row.verified = account[s].verified /\ row.link = account[s].link
  BY TypesOfAInv DEF Rows, NoAccount
<1>2. account' = [account EXCEPT ![s] = row] /\ UNCHANGED <<mail, minted, answered, req, seeding>>
  BY DEF LinkExpires
<1>3. Exists(s)
  BY DEF LinkExpires, Exists, NoAccount
<1> HIDE DEF row
<1>4. account' \in [Spellings -> Rows]
  BY <1>1, <1>2, TypesOfAInv
<1>5. account'[s] = row /\ \A x \in Spellings \ {s} : account'[x] = account[x]
  BY <1>2, TypesOfAInv
<1>6. \A x \in Spellings : Exists(x) => Canonical(x) = x
  BY DEF AInv
<1>7. AccountsKept
  BY <1>1, <1>3, <1>4, <1>5, <1>6 DEF AccountsKept, Exists
<1>8. QED
  BY <1>2, <1>7, NoAnswer, NoCall

\* With the users everything goes that led to one of them.
LEMMA SeedEmptiesStep ==
  ASSUME AInv, IntimeKept, SeedEmpties
  PROVE  AInv'
<1>1. /\ account' = [s \in Spellings |-> NoAccount] /\ mail' = {} /\ answered' = {}
      /\ seeding' = {s \in Spellings : Seeds[s] # NULL} /\ minted' = minted
  BY DEF SeedEmpties
<1>2. req' = [r \in Req |-> IF req[r].pc = "create" THEN req[r] ELSE IdleCall]
  BY DEF SeedEmpties
<1>3. IdleCall \in ARequest
  BY DEF IdleCall, ARequest
<1>4. req' \in [Req -> ARequest]
  BY <1>2, <1>3, TypesOfAInv
<1>5. NoAccount \in Rows
  BY DEF NoAccount, Rows
<1>6. ATypeOK'
  BY <1>1, <1>4, <1>5, TypesOfAInv, IntimeType DEF ATypeOK, Rows
<1>7. ASSUME NEW r \in Req PROVE CallOK(r)'
  <2>1. CASE req[r].pc = "create"
    <3>1. PICK q : q = req[r] /\ q = req'[r]
      BY <1>2, <2>1
    <3>2. CallOK(r)
      BY DEF AInv
    <3>3. QED
      BY <2>1, <3>1, <3>2 DEF CallOK
  <2>2. CASE req[r].pc # "create"
    <3>1. req'[r] = IdleCall
      BY <1>2, <2>2
    <3>2. QED
      BY <3>1 DEF CallOK, IdleCall
  <2>3. QED
    BY <2>1, <2>2
<1>8. QED
  BY <1>1, <1>6, <1>7 DEF AInv, TokensGoToTheOwner, MailedLinksLead, Exists

\* A demo user is created under a canonical address, and only where there is
\* nobody.
LEMMA SeedUserStep ==
  ASSUME AInv, IntimeKept, NEW s \in Spellings, SeedUser(s)
  PROVE  AInv'
<1> DEFINE row == [NoAccount EXCEPT !.by = Seeds[s]]
<1>1. seeding' = seeding \ {s} /\ UNCHANGED <<mail, minted, answered, req>>
  BY DEF SeedUser
<1>2. Answers
  BY <1>1, NoAnswer
<1>3. CASE Exists(s)
  <2>1. UNCHANGED account
    BY <1>3 DEF SeedUser
  <2>2. QED
    BY <1>1, <1>2, <2>1, AccountsUnchanged, NoCall
<1>4. CASE ~Exists(s)
  <2>1. account' = [account EXCEPT ![s] = row]
    BY <1>4 DEF SeedUser
  <2>2. row \in Rows
    BY AccountsAssumption DEF NoAccount, Rows
  <2>3. Canonical(s) = s
    BY TypesOfAInv, AccountsAssumption DEF SeedUser
  <2>4. account[s] = NoAccount /\ ~NoAccount.verified
    BY <1>4 DEF Exists, NoAccount
  <2> HIDE DEF row
  <2>5. account' \in [Spellings -> Rows]
    BY <2>1, <2>2, TypesOfAInv
  <2>6. \A x \in Spellings \ {s} : account'[x] = account[x]
    BY <2>1, TypesOfAInv
  <2>7. \A x \in Spellings : Exists(x) => x # s /\ Canonical(x) = x
    BY <1>4 DEF AInv
  <2>8. AccountsKept
    BY <2>3, <2>4, <2>5, <2>6, <2>7 DEF AccountsKept, Exists
  <2>9. QED
    BY <1>1, <1>2, <2>8, NoCall
<1>5. QED
  BY <1>3, <1>4

LEMMA SeedStopsStep ==
  ASSUME AInv, IntimeKept, SeedStops
  PROVE  AInv'
<1>1. Answers
  BY NoAnswer DEF SeedStops
<1>2. QED
  BY <1>1, AccountsUnchanged, NoCall DEF SeedStops

-----------------------------------------------------------------------------

LEMMA AInitInv == AInit => AInv
<1> SUFFICES ASSUME AInit PROVE AInv
  OBVIOUS
<1>1. \A r \in Req : CallOK(r)
  BY DEF AInit, CallOK, IdleCall
<1>2. ATypeOK
  BY DEF AInit, ATypeOK, NoAccount, IdleCall, ARequest
<1>3. QED
  BY <1>1, <1>2 DEF AInit, AInv, TokensGoToTheOwner, MailedLinksLead, Exists

LEMMA ANextInv ==
  ASSUME AInv, [ANext]_avars
  PROVE  AInv'
<1>1. CASE UNCHANGED avars
  BY <1>1 DEF avars, AInv, ATypeOK, TokensGoToTheOwner, MailedLinksLead, Exists, CallOK
<1>2. CASE ANext
  <2>1. IntimeKept /\ Step
    BY <1>2 DEF ANext, Remember, IntimeKept
  <2>2. ASSUME NEW r \in Req, NEW p \in Persons, NEW s \in Spellings
        PROVE  /\ \A k \in Links : Signup(r, p, s, k) => AInv'
               /\ Login(r, p, s) => AInv'
    BY <2>1, SignupStep, LoginStep
  <2>3. ASSUME NEW r \in Req
        PROVE  /\ Create(r) => AInv'
               /\ Pair(r) => AInv'
               /\ Verify(r) => AInv'
    BY <2>1, CreateStep, PairStep, VerifyStep
  <2>4. ASSUME NEW r \in Req, NEW s \in Spellings, NEW m \in mail, OpenLink(r, s, m)
        PROVE  AInv'
    BY <2>1, <2>4, OpenLinkStep
  <2>5. ASSUME NEW r \in Req, Fail(r) PROVE AInv'
    BY <2>1, <2>5, AccountsUnchanged, NoAnswer, DoneStep DEF Fail
  <2>6. ASSUME NEW s \in Spellings, LinkExpires(s) PROVE AInv'
    BY <2>1, <2>6, LinkExpiresStep
  <2>7. ASSUME NEW m \in mail, LoseMail(m) PROVE AInv'
    <3>1. Answers
      BY <2>7, TypesOfAInv DEF Answers, LoseMail
    <3>2. QED
      BY <2>1, <2>7, <3>1, AccountsUnchanged, NoCall DEF LoseMail
  <2>8. SeedEmpties \/ SeedStops \/ (\E s \in Spellings : SeedUser(s)) => AInv'
    BY <2>1, SeedEmptiesStep, SeedUserStep, SeedStopsStep
  <2>9. QED
    BY <2>1, <2>2, <2>3, <2>4, <2>5, <2>6, <2>7, <2>8 DEF Step, Call
<1>3. QED
  BY <1>1, <1>2

\* What keeps an address, its password and its links together holds in every
\* state, however signups, logins and verifications race and fail.
THEOREM AInvariant == ASpec => []AInv
<1>1. AInit => AInv
  BY AInitInv
<1>2. AInv /\ [ANext]_avars => AInv'
  BY ANextInv
<1>3. QED
  BY <1>1, <1>2, PTL DEF ASpec

\* However signups race, an address has one account, in whatever spellings it
\* was typed (signup, the unique index on users.email).
THEOREM AddressesAreUnique == ASpec => []OneAccountPerAddress
<1>1. AInv => OneAccountPerAddress
  BY DEF AInv, OneAccountPerAddress
<1>2. QED
  BY <1>1, AInvariant, PTL

\* Nobody is given tokens for an account whose password is somebody else's.
THEOREM TokensAreTheOwners == ASpec => []TokensGoToTheOwner
<1>1. AInv => TokensGoToTheOwner
  BY DEF AInv
<1>2. QED
  BY <1>1, AInvariant, PTL

\* A link that has been mailed leads to its account or has done its work
\* (signup, verifyEmail).
THEOREM LinksLead == ASpec => []MailedLinksLead
<1>1. AInv => MailedLinksLead
  BY DEF AInv
<1>2. QED
  BY <1>1, AInvariant, PTL

\* An account becomes verified only by a request whose link was good at one
\* moment of it, and stays verified while the users are left in the table.
THEOREM VerifiedByLink == ASpec => VerificationIsEarned
<1> DEFINE Earned(s) ==
      IF account[s].verified
      THEN account'[s].verified \/ ~ \E t \in Spellings : Exists(t)'
      ELSE account'[s].verified => \E r \in intime : req[r].email = s
<1>1. ASSUME AInv, [ANext]_avars, NEW s \in Spellings
      PROVE  Earned(s)
  <2>1. CASE account'[s].verified = account[s].verified
    BY <2>1
  <2>2. ASSUME NEW r \in Req, Create(r)
        PROVE  Earned(s)
    <3>1. CASE UNCHANGED account
      BY <3>1
    <3>2. CASE ~UNCHANGED account
      <4>1. /\ account' = [account EXCEPT ![req[r].email] = NewAccount(req[r])]
            /\ account[req[r].email] = NoAccount
        BY <2>2, <3>2 DEF Create, Exists
      <4>2. ~NewAccount(req[r]).verified /\ ~NoAccount.verified
        BY DEF NewAccount, NoAccount
      <4>3. QED
        BY <1>1, <4>1, <4>2, TypesOfAInv
    <3>3. QED
      BY <3>1, <3>2
  <2>3. ASSUME NEW r \in Req, Verify(r)
        PROVE  Earned(s)
    <3>1. r \in intime
      BY <1>1, <2>3 DEF AInv, CallOK, Verify
    <3>2. account' = [account EXCEPT ![req[r].email] =
                        [by |-> @.by, verified |-> TRUE, link |-> NULL, expired |-> FALSE]]
      BY <2>3 DEF Verify
    <3>3. CASE s = req[r].email
      BY <1>1, <3>1, <3>2, <3>3, TypesOfAInv
    <3>4. CASE s # req[r].email
      BY <1>1, <3>2, <3>4, TypesOfAInv
    <3>5. QED
      BY <3>3, <3>4
  <2>4. ASSUME NEW x \in Spellings, LinkExpires(x)
        PROVE  account'[s].verified = account[s].verified
    <3>1. account' = [account EXCEPT ![x].expired = TRUE]
      BY <2>4 DEF LinkExpires
    <3>2. QED
      BY <1>1, <3>1, TypesOfAInv DEF Rows
  <2>5. CASE SeedEmpties
    <3>1. \A t \in Spellings : account'[t] = NoAccount
      BY <2>5 DEF SeedEmpties
    <3>2. ~NoAccount.verified
      BY DEF NoAccount
    <3>3. QED
      BY <3>1, <3>2 DEF Exists
  <2>8. ASSUME NEW x \in Spellings, SeedUser(x)
        PROVE  account'[s].verified = account[s].verified
    <3>1. CASE UNCHANGED account
      BY <3>1
    <3>2. CASE ~UNCHANGED account
      <4>1. /\ account' = [account EXCEPT ![x] = [NoAccount EXCEPT !.by = Seeds[x]]]
            /\ account[x] = NoAccount
        BY <2>8, <3>2 DEF SeedUser, Exists
      <4>2. [NoAccount EXCEPT !.by = Seeds[x]].verified = NoAccount.verified
        BY DEF NoAccount
      <4>3. QED
        BY <1>1, <4>1, <4>2, TypesOfAInv
    <3>3. QED
      BY <3>1, <3>2
  <2>6. CASE UNCHANGED account
    BY <2>6
  <2>7. QED
    BY <1>1, <2>1, <2>2, <2>3, <2>4, <2>5, <2>6, <2>8
    DEF ANext, Step, Call, SeedStops, Signup, Login, Pair, OpenLink, LoseMail, Fail, avars
<1>2. AInv /\ [ANext]_avars => [\A s \in Spellings : Earned(s)]_avars
  BY <1>1
<1>3. QED
  BY <1>2, AInvariant, PTL DEF ASpec, VerificationIsEarned
=============================================================================
