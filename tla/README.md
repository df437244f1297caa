# A formal model of the SaaS workspace API

TLA+ modules, TLC configurations and TLAPS proofs kept beside
`src/saas-workspace-api`, an Express API over a PostgreSQL database (Prisma)
for organizations with members, invitations, projects and JWT sessions.

The server is one Node.js process, or several behind one database. Two requests
never run at the same instant in one process, but each `await` on a database
call lets every other request run, and most operations are *read, decide,
write* with no transaction around them. That is where this code can go wrong,
and what the models are built to show: **an action is one database call with
the code up to the next one**; what a request read earlier stays in its slot of
`req` while the rows change.

## Inventory

Paths are below `src/saas-workspace-api/`.

| Component | State | Operations | What is hard | What makes it correct | Status |
|---|---|---|---|---|---|
| Organizations, memberships, invitations (`src/services/organization.service.js`, its controller and routes) | `organizations`, `organization_members`, `invitations` | create, update, delete an organization; change a role, remove a member; invite, accept; the hourly cleanup; the rows `prisma/seed.js` leaves | stale roles and statuses across `await`; supersede-and-create in two calls; acceptance races with cleanup and re-invitation | one owner, who never changes; nobody joins uninvited (the seeded members apart); effects only for permitted callers; expired invitations retire | modelled, proved |
| RBAC (`src/middleware/rbac.js`, `src/services/role.service.js`) | none of its own | `requireOrgMembership`, `requireRole`, the published matrix | the gate's answer is old when it is used; two role tables in two files | what the routes let through is what the matrix publishes | modelled |
| Sessions (`src/services/auth.service.js`) | `refresh_tokens`, `users.passwordHash`, reset token | login, refresh, logout, request and perform a reset | one token redeemed twice; rotation against reset; two-call reset; tokens equal within a second | revocation is final; one usable token per login; a reset ends the sessions | modelled, proved |
| Accounts (same file, `prisma/seed.js`) | `users`, verification link, mail on its way | signup, login's checks, verify e-mail, seed | two signups of one address; failure after the row exists; lost mail; a link checked at one moment and used at another | an address has one account, its tokens go to its owner, it is verified by its own mail and in the end | modelled, proved |
| Access tokens (`src/middleware/authenticate.js`, `src/utils/inMemoryBlacklist.js`, `src/config/redis.js`, `src/utils/jwt.js`) | Redis keys, or a Map per server | authenticate; logout; clean up | restart, several servers, lifetime of the entry against that of the token, requests under way | a logged-out token stays refused until it expires | modelled, proved |
| Projects (`src/services/project.service.js`, its controller and routes) | `projects` | create, read, update, delete behind the gate | stale membership, concurrent deletion, deletion of the organization | effects only for permitted callers, in the organization of the route | modelled, proved |
| Pages of the project list (same file, `src/utils/response.js`) | where a client is in the list | `skip`, `take`, `totalPages` | rows come and go between pages and between items and total | a walk misses no project that was there throughout | modelled, proved |
| Rate limiting (`src/middleware/rateLimiter.js`) | counters per address and per account | count, refuse, take back a success, new window | requests in flight at the limit and at the end of a window | failed logins per window are bounded; failures only are held against a caller | modelled, proved |
| Server life cycle (`src/server.js`) | server, connections, cleanup timer | start, shut down, forced exit | a signal during start-up, two signals, timer against close | a signalled server ends, and nobody is left waiting if it ends well | modelled, proved |
| E-mail transport (`src/utils/email.js`) | the cached transporter | get or create, send | mail not waited for | a lost mail harms nothing else | partly |
| Slugs (`src/utils/slug.js`) | none | name to slug | | a collision fails the creation as a whole | not modelled |
| Activity log (`src/services/activity.service.js`) | `activity_logs` | one insert | nothing: no code calls it | | not modelled |
| Configuration, logging, validation, error format, API docs | none | pure I/O | | an error ends a request with no further write (`Abort`, `Fail`) | not modelled |

Interactions: a route runs `authenticate`, then for organizations the gate
(`requireOrgMembership`, `requireRole`), then a controller and one service
function; components meet only in rows. An acceptance reads an invitation that
an inviter writes; the gate reads a membership that role changes and removals
write; the reset revokes tokens that login and rotation insert. The service never
deletes or deactivates a user (`isActive` of a user is only read) and never
changes an `email`, so a user stands for the address too. The seed script does
delete users, with everything else (`prisma/seed.js:24-29`): of accounts that is
modelled while requests are under way, of organizations only what it leaves
(see Not modelled).

## Modules

| Module | What it is |
|---|---|
| `Rbac` | the roles, `requireRole`'s arguments per route, the published capability table |
| `Organization` | rows and requests of the organization service, and the gate |
| `Ownership` | abstract contract: found, join, regrade, expel, close |
| `OrganizationSafety` | type invariant, safety invariants, the inductive invariant `IInv`, where each operation can be (`OnRoutes`), the refinement mapping to `Ownership` |
| `OrganizationHistory` | adds `seen`, what was true at some moment of each request, the permissions stated with it, and `seeded`, the members the seed script put there; their inductive invariant `HInv` |
| `OrganizationClaims` | what comments and the repository's README claim of invitations and admins, whatever overlaps (`OneWayIn`, `DeadTokensAdmitNobody`, `AdminsSpareAdmins`: overlaps break them); fairness and liveness |
| `OrganizationApart` | adds `crowded`, about whom two requests have overlapped; the same claims of everybody else, and their inductive invariant `ApartInv` |
| `OrganizationProofs` | TLAPS proofs about `OrganizationSafety` |
| `OrganizationHistoryProofs` | TLAPS proofs about `OrganizationHistory` and `OrganizationApart` |
| `Sessions` | refresh tokens, passwords and reset tokens |
| `SessionHistory` | adds the lineage of each token, whether a request's reset token was good, and `calm`: no two requests have overlapped and none has failed; the properties, `SInv`, and `CalmInv` for calm states |
| `SessionProofs` | TLAPS proofs about `SessionHistory` |
| `Accounts` | accounts, verification mails and links, signup and login up to the token pair |
| `AccessTokens` | authenticate and logout on several servers, Redis or a Map in each, durations |
| `Projects` | composes project rows and requests with `Ownership`, the contract `Organization` implements |
| `ProjectPages` | a client's walk through the pages of the list |
| `LoginLimits` | the two limiters before login |
| `ServerLife` | one server process from start to exit |
| `AccountProofs`, `AccessTokenProofs`, `ProjectProofs`, `ProjectPageProofs` | TLAPS proofs about the module named |
| `ServerProofs` | TLAPS proofs about `ServerLife` and `LoginLimits`, what one process keeps in memory |
| `MCOrganization`, `MCOrganizationHistory`, `MCOrganizationApart`, `MCSessions`, `MCAccounts`, `MCAccessTokens`, `MCProjects`, `MCProjectPages`, `MCLoginLimits`, `MCServerLife` | values, symmetry sets and views for TLC |

How they fit together: `Organization` implements `Ownership` (checked and
proved), and `Projects` runs on `Ownership` in its place, so what holds of
projects there holds with the organization service underneath. The other
components share no state a guard reads but users, which never change after
verification: `Login` of `Sessions` starts where `LoginAccepts` of `Accounts`
ends, `RevokeRefresh` of `AccessTokens` is `Logout` of `Sessions`, and the
cleanup that `ServerLife` starts and stops is an action of `Organization`.

### Correspondence: Organization

| Code | Model |
|---|---|
| `createOrganization`, one transaction | `CreateOrganization` (one action) |
| `requireOrgMembership`, first and second read; `requireRole` | `OpenGated`, then `LoadMembership` with `Admissible` |
| `updateOrganization` | `UpdateOrganization`; the settings are reduced to their last author |
| `deleteOrganization` | `ReadOwner`, `SoftDelete` |
| `updateMemberRole`, `removeMember` | `ReadTarget` (`MayChangeRole`, `MayRemove`), then `UpdateMemberRole` or `RemoveMember` |
| `inviteUser` | `CheckInvitee`, `FindPending`, `Supersede`, `CreateInvitation` |
| `acceptInvitation` | `OpenAccept` (`Acceptable`), then `MarkExpired` or the transaction `Admit` |
| `cleanupExpiredInvitations`, one `updateMany` | `CleanupExpiredInvitations` |
| `expiresAt` passing | `InvitationLapses` |
| `prisma/seed.js`: the organization and its three memberships | `SeedRows`, in `Init` for an organization of `Demo` |
| a call that fails, or the process dying | `Abort` |

What is left out, and why that is sound: reads that return rows to the client
and change nothing; requests that their first read already refuses (they would
be stuttering steps); the user row of the acceptance, which is immutable where
it is read; the unique slug, whose collision makes a creation fail as a whole.
`requestingMembership.role === 'ADMIN' && newRole === 'OWNER'` is kept in
`MayChangeRole` although the validator never lets `OWNER` through.

### Correspondence: Sessions

| Code | Model |
|---|---|
| `login` up to `bcrypt.compare` | `Login` (password and hash agree when the hash is read) |
| `refreshTokens`: look-up, revocation | `OpenRefresh` (`Redeemable`), `RevokeOld` |
| `generateTokenPair`: signing, insert | `SignPair`, `StoreToken` |
| `logout`, the refresh token | `Logout` |
| `requestPasswordReset` | `RequestReset`; the random token is an element of `Keys` used once |
| `resetPassword`: look-up, new hash, revocation | `OpenReset` (`KeyOpens`), `SetPassword`, `RevokeAll` |
| the clock; `expiresAt`, `passwordResetExpiry` passing | `Tick`; `TokenExpires`, `KeyExpires` |
| a call that fails, or the process dying | `Fail` |

`signRefreshToken` signs `{sub, iat, exp}` with `iat` in whole seconds and a
constant lifetime, so a token is modelled as the pair of user and second, and
the unique index on `refresh_tokens.token` makes a second insert of the same
pair fail. `pwd` counts the passwords a user has had. The `bcrypt` delays need no
action: any other request may run between the read and the write anyway. Signing
is an action of its own, after the revocation, because the clock moves between
calls. Rows never expire in a fixed number of ticks: they may expire at any
moment, which includes every real lifetime.

### Correspondence: Accounts

| Code | Model |
|---|---|
| `trim().toLowerCase()` of the address | `Normalized`; `Canonical` is a constant that is idempotent |
| `signup`: look-up, hash, link | `Signup`; a link is an element of `Links` used once |
| `prisma.user.create` with its unique index; the mail not waited for | `Create`, `SendMail` |
| `generateTokenPair` of signup and login | `Pair`, remembered in `answered` |
| `login` up to the pair | `Login`, `LoginAccepts` |
| `verifyEmail`: look-up and checks, update by id | `OpenLink` (`Opens`), `Verify` |
| mail not delivered or not read; `emailVerificationExpiry` passing | `LoseMail`; `LinkExpires` |
| `prisma/seed.js`: `user.deleteMany`; each of its `user.create`; a call that fails | `SeedEmpties`; `SeedUser`; `SeedStops` |

A person is a password: `account[s].by` is whose password the account has. That
`by` never changes here is because a reset, which is in `Sessions`, changes it
for the same person. The seed script may run at any moment and again and again:
its deletion leaves every link and mail without an account, a request about to create
its row does not notice, and its creations meet signups on the unique index.

### Correspondence: AccessTokens

| Code | Model |
|---|---|
| `verifyAccessToken` | `Arrive` (`Valid`); a refused token changes nothing |
| `redis.exists`, `inMemoryBlacklist.has` with its deletion | `Refuse`, `Pass` (`MayBeListed`, `MayBeUnlisted`) |
| loading the user; any other handler | `Serve` |
| `logout`: `redis.set` or `inMemoryBlacklist.add`; the refresh token | `StartLogout`, `ListInRedis`, `RevokeRefresh` |
| the interval of `inMemoryBlacklist.js` | `Cleanup` |
| `parseDurationToMs`; `expiresIn` as the JWT library reads it | `ParseDuration`; `JwtLifetime` |
| a server that ends and starts again | `Restart` |

Times are seconds; within the second an entry runs out it may be found or not.
Redis itself is taken to keep what it was given.

### Correspondence: Projects and ProjectPages

| Code | Model |
|---|---|
| `requireOrgMembership`, `requireRole` on the project routes | `OpenProject` (`Available`), `LoadMembership` (`Admissible`) |
| `createProject` | `CreateProject` |
| `findFirst` by id and organization in `getProjectById`, `updateProject`, `deleteProject` | `FindProject` (`FoundIn`) |
| `project.update`, `project.delete` by id | `UpdateProject`, `DeleteProject` |
| everything the organization service does | `OwnNext` |
| organizations, members and projects that are there when the service starts (`prisma/seed.js`, an earlier run) | `OwnInit`, `PInit` |
| `listProjects`: `findMany`, `count`; `paginationMeta` | `FindMany` (`Skip`, `Sorted`, `ItemsOf`), `Count` (`TotalPages`) |
| creation; deletion or a change of status, seen from the list | `Create`, `Leave` |

`membership.role === 'MEMBER'` in the service cannot hold behind `requireRole`.
`findMany` and `count` are two statements of a READ COMMITTED transaction, so
each sees what is committed when it runs. `orderBy: createdAt` leaves the order
of equal stamps to the database, which may choose another one on each page.

### Correspondence: LoginLimits and ServerLife

| Code | Model |
|---|---|
| `authLimiter` before a handler of `/auth` | `Arrive` |
| `loginAccountLimiter`, keyed by `loginAccountKey` | `AskAccount` |
| `skipSuccessfulRequests` when a good answer has been sent; no good answer, or nobody there to receive it | `Succeed` (`TakeBack`); `AnswerInVain` |
| `windowMs` over; the in-memory store lost | `WindowEnds`; `Restart` |
| `start()`: Redis, database, listen, first cleanup and timer | `ConnectRedis`, `Listen`, `StartFails` |
| `runCleanup` | `TimerFires`, `CleanupEnds` |
| `shutdown(signal)` | `Signal`, `Closed`, `DisconnectDatabase`, `DisconnectRedis`, `DisconnectFails` |
| the ten seconds; `unhandledRejection` or a kill | `ForceExit`; `Crash` |
| connections of `node:http` | `Connect`, `NextRequest`, `Answer`, `HangUp` |

The counters and the connections belong to packages outside the repository and
are modelled from how they are used (express-rate-limit 7: count on arrival,
refuse above the limit, take back on `finish`; node: `close` stops accepting,
drops idle connections and calls back after the last). `lent`, `tried` and
`refused` of `LoginLimits`, `known` and `late` of `AccessTokens`, `intime` and
`answered` of `Accounts` and `seen` of `Projects` are history: no guard reads them.

## Runs

Slots in `Req` bound how many requests overlap, not how many are served: a slot
is reused. Two slots show every race between two requests; a property of this
code that takes three overlapping ones would be missed by TLC, but not by the
proofs, which hold for any number.

| Run | Instance | Shows |
|---|---|---|
| `org_safety` | 1 organization, 3 users, 2 invitations, 2 slots, all operations | `SingleOwner`, `HInv` (with `IInv`, `TypeOK` and `MembersWereInvited`), and that the service implements `Ownership`; effects are permitted by a role held during the request (`EffectsArePermitted`), admins manage only members (`AdminsManageMembers`), nothing starts in a deleted organization (`NoEffectAfterDeletion`), joiners held a live invitation (`JoinersWereInvited`) |
| `org_apart` | 1 organization, 3 users, 2 invitations, 2 slots; role changes, removals, invitations, acceptances; one user at most is crowded (`OneCrowd`) | of everybody about whom no two requests have overlapped: one live token at most and none for a member (`OneWayInApart`), no way in by a superseded or used token (`DeadTokensAdmitNobodyApart`), no admin regraded or removed by an admin (`AdminsSpareAdminsApart`) |
| `org_retire` | 1 organization, 2 users, 1 invitation, 2 slots, all operations, fair, no symmetry | an invitation that has run out stops pending for good (`ExpiredInvitationsRetire`), with two requests that read it earlier still writing |
| `ses_safety` | 1 user, 2 slots, 2 reset tokens, seconds 0 to 2, failures | `CalmInv` (with `SInv` and `STypeOK`), `RotationRevokesFirst`, `RevocationIsFinal`, `ResetsAreLinked`; one usable token per login and no session after a reset, as long as it is calm |
| `acc_signup` | 3 spellings of 2 addresses, 2 persons, 2 links, 2 slots, failures, the seed script at any time, fair | `AInv` (with `ATypeOK`); one account per address, tokens to their owner, no mail with a dead link, verification earned and reached |
| `acs_logout` | 1 user, 2 servers, 2 slots, tokens of seconds 0 and 1 that live one second, seconds 0 to 2, Redis on or off, failures and restarts, fair | `XInv` (with `XTypeOK`); an answered logout is heeded; entries outlive their tokens; the Map is cleaned |
| `prj_roles` | 2 organizations, 2 users, 2 projects, 2 slots | `PInv` (with `PTypeOK`); effects are permitted, and only in the organization of the route |
| `prj_pages` | 4 projects, 4 stamps, pages of 2 | `PagesInv` (with `PagesTypeOK`); walks are complete and, without creations, exact |
| `lim_login` | 2 addresses with a limit of 2, 1 account with a limit of 3, 2 slots, counters up to 4 | `LimInv` (with `LimTypeOK`); failures per window are bounded by the limit and what straddles the window; without overlap the first refusal is due to failures |
| `srv_shutdown` | 2 connections, 2 signals, fair | `LInv` (with `LTypeOK`); a success exit leaves nobody waiting; a closing server ends |

The others are expected to end in a violation; each shows one finding below.

Bounds. Three users are an owner and two others, who can be admin and member,
caller and target, inviter and invitee at once. Two invitations are an old and
a new one, or a pending and a used one; `org_retire`, which runs without
symmetry, has an inviter, an invitee and one invitation, which one request
supersedes while another accepts it: no write to an invitation depends on
another one. Organizations share nothing but the
users, so one suffices; two in `prj_roles` are there because a route may name a
project of the other. Users of `Sessions` share nothing at all, so one suffices,
and likewise in `AccessTokens`, where two tokens of one user are told apart by
their second. Three seconds give two tokens signed in one second and one later.
Two addresses, one of them in two spellings, are all that signups can collide in.
Two servers are the one that answered a logout and another. Four projects on
pages of two make walks with a full last page, a half-full one, and one that
becomes either on the way. Limits of two and three with two slots let a counter
reach its limit by failures, by requests in flight, and by both, and an account
be exhausted from two addresses; `OneCrowd` lets requests overlap about one user
as they like, and asks the claims of the other two; `MaxHits` is one above the larger limit, so that
requests are also refused twice.

`SYMMETRY` permutes users, invitations, reset tokens, projects, addresses and
slots, which no definition tells apart; it is off in runs with a liveness
property. The `VIEW` of `org_safety` and `org_apart` drops what no guard and no property of the
run tells apart: the author of the settings, and the role of an invitation that
no longer pends (of which `RowsAreLinked` asks only that it is one the validator
lets through), in `org_safety` its expiry too. `CHECK_DEADLOCK FALSE` stands where the system or its
bounds end: in `Organization` with every organization deleted and every
invitation id used up, in `ServerLife` after the exit.

Fairness.

- `FairSpec` (`Organization`) asks weak fairness of `CleanupExpiredInvitations` and of
  nothing else: `server.js` starts it with `setInterval`, and each run is a single
  statement. Clients need not send anything and requests need not finish.
- `FairXSpec` (`AccessTokens`) asks it of `Cleanup`, the timer of
  `inMemoryBlacklist.js`, on each server.
- `FairASpec` (`Accounts`) says that requests come to an end, and, strongly, that
  whoever has a mail tries its link again and again and that the call which
  verifies does not fail for ever. This is about the user and the database, not
  the scheduler: with it `AccountsAreVerified` says that no behaviour of the *code*
  (a lost race, a signup that failed after its row was created) keeps an
  account from being verified.
- `FairLSpec` (`ServerLife`) asks it of connecting, of listening, and of the forced
  exit, which is a timer. Nothing is assumed of clients, handlers or `close`.

## Findings

Each is a run with one property, violated by what the code does.

| Run | What happens |
|---|---|
| `org_dead_token` | an invitation superseded during its acceptance admits its user all the same |
| `srv_early_signal` | a signal that arrives while `start()` connects finds no server to close; it is swallowed, and the server starts |

### Disagreements

The models have more behaviours that a comment or the documentation speaks
against. Some are a property of the modules that the code does not keep; to see
one, give TLC the configuration named with that property in the place of its
own.

| Property | Configuration | What the code does |
|---|---|---|
| `OneWayIn` (`OrganizationClaims`) | `org_dead_token.cfg` | two invitations of one address at once find nothing that pends and leave two live tokens ("rather than ... leaving two live tokens", `organization.service.js:284`) |
| `AdminsSpareAdmins` (same) | `org_dead_token.cfg` with `Demo = {o1}`, three users and the operations `updateRole`, `removeMember` | a member promoted to admin is removed or regraded by an admin whose request had read the old role ("ADMINs cannot remove or change the role of other ADMINs or OWNERs", `src/README.md:358`) |
| `RotationIssues` (`SessionHistory`) | `ses_safety.cfg` with one slot and `MayFail = FALSE` | one request at a time: a token refreshed in the second of its issue is revoked, and its successor, the same string, is refused by the unique index (`src/README.md:93`: a used token is revoked "and a new one is issued") |
| `OneTokenPerSession` (same) | `ses_safety.cfg` with one reset token and `MayFail = FALSE` | a refresh token redeemed twice at once, in different seconds, yields two usable ones ("immediately revoked", `src/README.md:93`) |
| `NoSessionSurvivesReset` (same) | the same; or with one slot and `MayFail = TRUE` | a login or rotation that overlaps a reset stores its token after the revocation; a reset that fails between its two writes leaves the sessions ("so a stolen session can't survive a password reset", `auth.service.js:296`) |
| `ResetTokensAreSingleUse` (same) | `ses_safety.cfg` with one reset token and `MayFail = FALSE` | a reset token opened twice at once sets the password twice ("so it cannot be reused (single-use)", `auth.service.js:290`) |

The others:

- `Abort` between `Supersede` and `CreateInvitation` leaves an address without
  any invitation ("a fresh one is issued", `organization.service.js:283`).
- `MayChangeRole` lets an admin appoint an admin, and the invitation an admin
  issues may be to that role; the roles table of the README names the OWNER.
- `Supersede` is what the code does with a pending invitation; the route's
  documentation (`organization.routes.js:256`) announces 409.
- `SeedUser` creates its users without `isEmailVerified`, whose default is false, so that
  `LoginAccepts` refuses all "Seed Credentials" of the README.
- A verification mail that is lost, or whose link runs out, is the last: nothing
  issues another, and `LoginAccepts` refuses the account for good
  (`auth.service.js:78`). `AccountsAreVerified` has its arrival in time as a premise.
- `Verify` clears the link, so `verifyEmail` never gets to answer "Email is already
  verified" but says that the link is invalid.
- `ListInRedis` and `StartLogout` list a token for its full lifetime; the README
  (`src/README.md:92`) says the entry matches what remains of it. `ParseDuration` reads
  anything but a number and one of s, m, h, d as seven days, which is shorter
  than the token for weeks: `EntriesOutliveTokens` is stated of durations the code
  understands.
- `RevokeRefresh` comes after the access token is listed: a logout that fails
  between the two cannot be tried again with that token, and the refresh token
  stays usable.
- Of requests that overlap, successes count until they are answered, so that a
  success may be refused, and its refusal counts as a failure ("Only count failed
  auth attempts", `rateLimiter.js:47`). The README's limit for `/auth` (10 per 15
  minutes) is not the code's default (5 per 5 minutes).
- `WalksAreFaithful` needs `ordered`: projects with the same `createdAt` may change places
  between pages and be missed, as may those that move up when one is deleted.

What the interleavings do *not* break is the content of the passing runs: the
owner cannot be demoted or removed by any race, and a race cannot un-revoke a
token.

## Proofs

Every theorem holds for every value of the constants that satisfies the named
assumption of its module, so for any number of users, rows, servers and
overlapping requests:

| Assumption | Says |
|---|---|
| `NullAssumption`, `OpsAssumption`, `DemoAssumption` (`Organization`) | the null value is no organization, user or invitation; `Ops` names operations that are modelled; `Demo` are organizations |
| `NoTokenAssumption`, `SessionAssumption` (`Sessions`) | the same of users, reset tokens and pairs of user and second; the clock's bound is a number, `MayFail` a Boolean |
| `AccountsAssumption` | the same of spellings, persons and links; a canonical address is its own canonical form; seeds are written canonically, as in `seed.js` |
| `AccessAssumption` | the lifetime is a positive number of one of the JWT library's units; the bounds of the clock and of issuing are numbers |
| `ProjectsAssumption` | the null value is no organization, user or project |
| `PagesAssumption` (`ProjectPages`) | stamps are positive numbers, and so is the page size (`paginationSchema`) |
| `LimitsAssumption` | addresses and accounts are different keys; limits are positive, the counters' bound is a number; the slots are finitely many, since requests are counted |

**Organization.** `SingleOwner` is not inductive: `UpdateMemberRole` and
`RemoveMember` write a membership on the strength of a role read some steps
ago, so the invariant has to say why that read is still good. `IInv` adds
`RequestsOK`: a request about to write or delete a membership has a target that
is not the organization's owner. That survives every step because owners never
change (`OwnersKept` in the proof) and because a target whose role was not
`OWNER` when read is not the owner, by `SingleOwner` itself. In the same way an
invitation in a request's hand keeps its organization and address
(`InvitationsKept`), whatever its status has become. The proof has a lemma per action; actions that only
read share `ReadStep`, those that write share one lemma per table.
`Implementation` shows that each step is a step of `Ownership` or leaves its
variables alone. `OwnershipIsForLife` is read off the contract and carried over by
that refinement, and `RetirementIsFinal` (an invitation that was accepted or has
expired never pends again) is the safety half of `ExpiredInvitationsRetire`.

**What requests decided on.** `EffectsArePermitted` and its like compare a write with
what was true at an earlier moment of the same request, which `seen` remembers.
`HInv` says where on its way a request is (`OnRoutes`: which calls an operation
makes) and what `seen` holds there (`DecidedOn`): active after the first read,
permitted after the gate, and, before a regrade or a removal, a caller who owned
the organization or a target who was a plain member. The rows are not
mentioned: they may have changed, and `seen` only grows while a request runs.
What it decided on is true in the state of the read, so each read establishes
its part from the rows, and each write uses it. `MembersWereInvited`, a part of
`HInv`, says where members come from: whoever is below the owner was there
from the start (`seeded`, which a removal takes somebody out of) or has an
invitation of his that was used or superseded, and such an invitation stays so
(`RetirementIsFinal`). The theorem holds for any `Demo`, so for the seeded members too; the runs start
with `Demo` empty and found the organization, which reaches the same roles by
invitations; `org_apart.cfg` also holds with `Demo = {o1}` (5.5 million states, more than
twice as long).

**Requests apart.** What `OneWayIn`, `DeadTokensAdmitNobody` and `AdminsSpareAdmins` say
is broken by two requests about the same user (`org_dead_token`, Disagreements),
and by nothing else: each is proved of every user and organization about whom
no two requests have overlapped (`crowded`), with any number of requests about
others in flight, and aborts, lapsing and the cleanup job between any two calls.
Nothing is assumed of `Req`. `ApartInv` has two layers. `KnowsItsRows` is what every
request keeps although the rows move: whose invitation it holds, that the one it
marks has run out, the role the gate let through. `StillSo` is what a request
keeps if it is alone with its user: the invitee is no member, what pends for him
is what `FindPending` found and nothing after `Supersede`, the invitation to be
admitted on pends or has run out meanwhile, the target of an admin is a plain
member. The proof splits each step by whom it is about. A step that is not about
the user leaves his rows `Untouched`, but for an invitation that is marked for
its age, and by that `OneWay` and every `StillSo` survive (`OthersLeaveAlone`,
`TimerLeavesAlone`, `OneWaySurvives`, `ReadsSurvive`); a step that is about him is the only
request that is, so it reads what `OneWay` says (`ReadsAreTrue`) or writes on the
strength of its own `StillSo` (`WritesKeepOneWay`). If two are about him afterwards he
is in `crowded` from then on, and nothing is claimed of him.

**Sessions.** `SInv` says of a request past `RevokeOld` that the token it redeems
*is* revoked, which stays true because nothing un-revokes (`TokensKept`). With
that, a newly stored token is born from a revoked one (`BornOK`), so
`RotationRevokesFirst` follows. A reset about to set a password was linked to
its user when it read (`LinksKept`).

`OneTokenWhenCalm` and `ResetEndsSessionsWhenCalm` are not inductive on their own: a
rotation has a moment when the old token is revoked and the new one not stored,
and a reset one when the password is new and the sessions are not. `CalmInv` says
what holds in between: in calm states one request at most is in flight
(`Alone`), no token of the chain it prolongs is usable but the one it redeems, the
password it checked is the user's (`Undisturbed`), and a usable token of an older
password belongs to a user whose reset is about to revoke it
(`OldPasswordsAreLeaving`). That chains do not run together needs `RootsAreStored`: a
login starts a chain with a token that was never stored, so it is nobody's root.

**Accounts.** `AInv` carries what a call found over the `await`s that follow.
Every row is under the canonical spelling (`Normalized` ran before `create`), so
two rows cannot be one address. A request about to hand out tokens (`pair`) is of
whoever's password the row has, since no step changes `by` of a row that
exists. A request about to verify saw a good link of a row that exists, and a
mail is sent by the step that stores its link, which only `Verify` clears.

**Access tokens.** `LogoutIsHeeded` needs to know why a look-up still finds what
a logout wrote. `XInv` says that every server said to know of a logout remembers
the token while it can be used (`Remembered`): an entry made at a time the token
was presented runs out after the token does (`Durations` compares the two
readings of a lifetime), `Cleanup` and `has` drop entries that have run out only,
and a restart that empties the Map of a server without Redis ends what that
server is said to know.
A logout between its two writes remembers its own entry (`RequestOK`).

**Projects.** The organizations below take any step of `Ownership`; the proof
uses of it that rows keep their types and that projects and requests are left
alone, since roles and memberships may change under a request anyway. `PInv`
says what the gate and the look-up leave for the write: `seen` holds the permission, and the project is in the request's
organization or has been deleted since (`WriteOK`). Nothing is said about the
caller's role at the write: it may have gone.

**Pages.** A list sorted by `createdAt` without ties has each project at its `Rank`,
the number of listed ones that are not older (`SortedByRank`), so that a page
holds the ranks from `Skip(page)` + 1 to `page * Limit`. `PagesInv` says, as long
as the list was `ordered` (nobody left it, no two stamps alike), that who was there at the start and has a rank
within what was `Asked` has been met: a creation only moves projects down, and what
it moves over the edge of a page is asked for again. At the end the total counted
after the last page is at most what was asked for, and no rank is beyond the
total. Without creations no rank moves, so a project met lies within what was
asked for before and is not on the next page.

**Login limits.** `LimInv` is an inequality per key: failed attempts of this
window and requests on their way are at most the counter and what was taken
back from it by requests it did not count. Each action moves both sides
alike; the end of a window takes the requests on their way out of the sum, and
a success among them that is taken back from the next window is what `lent` of
that window is charged with. For `RefusedForFailures` `LimInv` has the other side
too: the counter is at most those attempts, the requests on their way and those
it refused. When nothing overlaps and nothing was refused yet, the counter *is* the
number of failures, so that the first refusal means the limit is reached.

**Server life.** `LInv`: whoever closes the server found it up, and in the same
step stopped the timer and armed the exit; the code is set by the exit alone. A
cleanup that is under way then is not waited for and may meet a database that is
being disconnected; `runCleanup` logs its failure, and the next server's job
finds what it left.
`ClosingIsForGood` is the safety half of `ClosingServersEnd`: no step takes a closing
server back or disarms its exit.

| Theorem | Module |
|---|---|
| `Inductive`, `TypeCorrect`, `OneOwner`, `Implementation`, `OwnershipIsForLife`, `RetirementIsFinal` | `OrganizationProofs` |
| `HistoryInvariant`, `MembershipByInvitation`, `ServiceEffectsArePermitted`, `AdminsOnlyManageMembers`, `DeletedOrganizationsRest`, `JoinersHeldInvitations`; of whom no two overlapping requests were about, `OneTokenPerAddress`, `DeadTokensAreRefused`, `AdminsLeaveAdminsAlone` | `OrganizationHistoryProofs` |
| `SessionInvariant`, `SessionTypes`, `RotationIsSound`, `RevokedForGood`, `ResetsNeedTheLink`, `CalmInvariant`, `OneTokenPerLogin`, `ResetsEndSessions` | `SessionProofs` |
| `AInvariant`, `AddressesAreUnique`, `TokensAreTheOwners`, `LinksLead`, `VerifiedByLink` | `AccountProofs` |
| `XInvariant`, `LogoutsAreHeeded`, `EntriesLastLongEnough` | `AccessTokenProofs` |
| `PInvariant`, `ProjectWritersArePermitted`, `ProjectsAreKeptHome` | `ProjectProofs` |
| `PagesInvariant`, `WalksMissNothing` | `ProjectPageProofs` |
| `LimInvariant`, `GuessingIsBounded`, `RefusalsAreForFailures`, `LInvariant`, `WaitingClientsHoldTheEnd`, `ClosingIsForGood` | `ServerProofs` |

Only model-checked: liveness (`AccountsAreVerified`, `RunOutEntriesGo`,
`ClosingServersEnd`, `ExpiredInvitationsRetire`), which is out of the prover's reach.
Every other property of a passing run is a theorem.

A definition commented "Mutant" is a plausible mistake in the definition after
it. Putting it in that definition's place violates a property of a passing run;
`PROJECT.json` lists the pairs.

## Not modelled

- The seed script against organizations in use: that it deletes organizations,
  memberships, invitations and projects under requests in flight, and that it
  may stop half-way through creating its own. What it leaves when it is done is an
  initial state of `Organization` and of `Projects`. The script is meant for a
  development database ("dev only").

- The transporter `email.js` makes on first use: with `EMAIL_HOST` it is made without an
  `await` and so once; without, each mail that finds none makes a test account of
  its own, and all mails are sent.
- `apiLimiter`: a counter in front of the others that answers or passes on.
- Slugs, validation (but for the roles it lets through), configuration, logging,
  error formats, API documentation: no state, and nothing the properties could
  tell apart. The activity log has no caller.
- Reading operations of organizations and `getMe`: they change nothing, and what they
  show is what the rows are at one moment.

## Plan

1. A contract for sessions, as `Ownership` is one for organizations: what one login
   grants (nothing yet, one usable token, nothing any more), with `Sessions` shown to
   implement it while it is calm, by TLC and then by proof.
2. The seed script as actions of `Organization`: its deletions under requests in
   flight, and its creations call by call.
3. The same for access tokens: a contract of two states per token, answered to or logged
   out, that `AccessTokens` implements on servers that share a list.
