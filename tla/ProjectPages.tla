---------------------------- MODULE ProjectPages ----------------------------
(***************************************************************************)
(* A client walks through the pages of an organization's projects, newest  *)
(* first, while projects are created and deleted or change to a status the *)
(* walk does not ask for.  findMany and count are two statements of one    *)
(* transaction, and each sees what is committed when it runs.              *)
(*                                                                         *)
(* A definition commented "Mutant" is used by no other: it is a plausible  *)
(* mistake in the definition that follows.                                 *)
(***************************************************************************)
EXTENDS Naturals, FiniteSets

CONSTANTS
  ProjectIds,  \* bound: one creation per id
  Stamps,      \* values of createdAt
  Limit        \* the limit the client asks for

ASSUME PagesAssumption ==
  /\ Stamps \subseteq Nat \ {0}
  /\ Limit \in Nat \ {0}

VARIABLES
  createdAt,  \* of the projects the query selects, 0 for others
  gone,       \* deleted projects, and those that changed status
  page,       \* the page asked for, 0 before the walk and after it
  pc,         \* what comes next: "items", "count", or "done"
  got,        \* the projects the client has been given
  steady,     \* history: the projects listed when the walk began
  ordered,    \* history: since then no two had one createdAt and none left
  added,      \* history: since then one was created
  twice       \* history: since then one was given twice

pages == <<createdAt, gone, page, pc, got, steady, ordered, added, twice>>

Listed == {p \in ProjectIds : createdAt[p] # 0}

Tied == \E p, q \in Listed : p # q /\ createdAt[p] = createdAt[q]

PagesInit ==
  /\ createdAt = [p \in ProjectIds |-> 0]
  /\ gone = {}
  /\ page = 0
  /\ pc = "done"
  /\ got = {}
  /\ steady = {}
  /\ ordered = TRUE
  /\ added = FALSE
  /\ twice = FALSE

-----------------------------------------------------------------------------
(* listProjects.                                                           *)

Skip(n) == (n - 1) * Limit

\* Mutant: no orderBy, so every query may have an order of its own.
SortedAnyhow ==
  {f \in [Listed -> 1 .. Cardinality(Listed)] : \A p, q \in Listed : p # q => f[p] # f[q]}

\* The rows in the order asked for: newest first, and in any order within a
\* millisecond.
Sorted ==
  {f \in [Listed -> 1 .. Cardinality(Listed)] :
     \A p, q \in Listed : p # q => /\ f[p] # f[q]
                                   /\ createdAt[p] > createdAt[q] => f[p] < f[q]}

ItemsOf(n, f) == {p \in Listed : Skip(n) < f[p] /\ f[p] <= Skip(n) + Limit}

\* Mutant: rounded down.
TotalPagesDown(total) == total \div Limit

\* paginationMeta: rounded up.
TotalPages(total) == (total + Limit - 1) \div Limit

StartWalk ==
  /\ page = 0
  /\ page' = 1
  /\ pc' = "items"
  /\ got' = {}
  /\ steady' = Listed
  /\ ordered' = ~Tied
  /\ added' = FALSE
  /\ twice' = FALSE
  /\ UNCHANGED <<createdAt, gone>>

FindMany ==
  /\ pc = "items"
  /\ \E f \in Sorted :
       /\ got' = got \cup ItemsOf(page, f)
       /\ twice' = (twice \/ ItemsOf(page, f) \cap got # {})
  /\ pc' = "count"
  /\ UNCHANGED <<createdAt, gone, page, steady, ordered, added>>

\* The client goes on to the next page if there is one.
Count ==
  /\ pc = "count"
  /\ IF page < TotalPages(Cardinality(Listed))
     THEN page' = page + 1 /\ pc' = "items"
     ELSE page' = 0 /\ pc' = "done"
  /\ UNCHANGED <<createdAt, gone, got, steady, ordered, added, twice>>

-----------------------------------------------------------------------------
(* The rest of the service, meanwhile.                                     *)

\* Requests that overlap are committed in any order, so a row may come up
\* with a createdAt before that of others.
Create(p, stamp) ==
  /\ createdAt[p] = 0 /\ p \notin gone
  /\ createdAt' = [createdAt EXCEPT ![p] = stamp]
  /\ ordered' = (ordered /\ ~Tied')
  /\ added' = TRUE
  /\ UNCHANGED <<gone, page, pc, got, steady, twice>>

Leave(p) ==
  /\ createdAt[p] # 0
  /\ createdAt' = [createdAt EXCEPT ![p] = 0]
  /\ gone' = gone \cup {p}
  /\ ordered' = FALSE
  /\ UNCHANGED <<page, pc, got, steady, added, twice>>

PagesNext ==
  \/ StartWalk
  \/ FindMany
  \/ Count
  \/ \E p \in ProjectIds : Leave(p) \/ \E stamp \in Stamps : Create(p, stamp)

PagesSpec == PagesInit /\ [][PagesNext]_pages

-----------------------------------------------------------------------------

\* The client's place and the rows have their types.
PagesTypeOK ==
  /\ createdAt \in [ProjectIds -> Stamps \cup {0}]
  /\ gone \subseteq ProjectIds
  /\ page \in Nat
  /\ pc \in {"items", "count", "done"}
  /\ (page = 0) = (pc = "done")
  /\ got \subseteq ProjectIds
  /\ steady \subseteq ProjectIds

\* How far down the list a project is when no two have one createdAt, and how
\* far the client has asked for it.
Rank(p) == Cardinality({q \in Listed : createdAt[q] >= createdAt[p]})

Asked == IF pc = "items" THEN Skip(page) ELSE page * Limit

\* Why walks are faithful: as long as none leaves, projects only move down the
\* list, so those that were there at the start and are within what was asked
\* for have been met; and as long as none comes either, none moves.
PagesInv ==
  /\ PagesTypeOK
  /\ IsFiniteSet(Listed)
  /\ ordered =>
       /\ ~Tied
       /\ steady \subseteq Listed
       /\ pc = "done" => steady \subseteq got
       /\ pc # "done" => \A p \in steady : Rank(p) <= Asked => p \in got
       /\ ~added => ~twice
       /\ ~added /\ pc # "done" => \A p \in got : p \in Listed /\ Rank(p) <= Asked

\* A walk that is over has met every project that was there when it began, if
\* meanwhile none left the list and no two had one createdAt, however many
\* were created between its pages or between the items and the total of one;
\* and as long as none was created either, it has met none twice.
WalksAreFaithful ==
  ordered => /\ pc = "done" => steady \subseteq got
             /\ ~added => ~twice
=============================================================================
