\* Signups, logins and verifications that overlap, fail and lose their mail:
\* whoever gets an account is verified in the end.
SPECIFICATION FairASpec
CONSTANTS
  Spellings = {"ann@x", "Ann@x", "bob@x"}
  Canonical <- CanonicalSpelling
  Persons = {"Ann", "Bob"}
  Seeds <- DemoUsers
  Links = {k1, k2}
  Req = {r1, r2}
  MayFail = TRUE
  NULL = NULL
INVARIANTS AInv OneAccountPerAddress TokensGoToTheOwner MailedLinksLead
PROPERTIES VerificationIsEarned AccountsAreVerified
