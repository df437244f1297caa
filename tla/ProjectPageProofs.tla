-------------------------- MODULE ProjectPageProofs --------------------------
(***************************************************************************)
(* Proofs about ProjectPages for every page size and every set of projects *)
(* and of times of creation.                                               *)
(***************************************************************************)
EXTENDS ProjectPages, FiniteSetTheorems, TLAPS

LEMMA RowTypes ==
  ASSUME PagesTypeOK
  PROVE  /\ createdAt \in [ProjectIds -> Stamps \cup {0}]
         /\ \A p \in ProjectIds : createdAt[p] \in Nat
         /\ Listed \subseteq ProjectIds
<1>1. createdAt \in [ProjectIds -> Stamps \cup {0}]
  BY DEF PagesTypeOK
<1>2. \A s \in Stamps \cup {0} : s \in Nat
  BY PagesAssumption
<1>3. \A p \in ProjectIds : createdAt[p] \in Stamps \cup {0}
  BY <1>1
<1>4. QED
  BY <1>1, <1>2, <1>3 DEF Listed

-----------------------------------------------------------------------------
(* Ranks: a set that shrinks or grows with its rows.                       *)

\* The rows down to p.
DownTo(p) == {q \in Listed : createdAt[q] >= createdAt[p]}

LEMMA RanksArePlaces ==
  ASSUME PagesTypeOK, IsFiniteSet(Listed), NEW p \in Listed
  PROVE  /\ IsFiniteSet(DownTo(p)) /\ p \in DownTo(p)
         /\ Rank(p) = Cardinality(DownTo(p)) /\ Rank(p) \in Nat
         /\ Rank(p) >= 1 /\ Rank(p) <= Cardinality(Listed)
<1>1. DownTo(p) \subseteq Listed /\ Rank(p) = Cardinality(DownTo(p))
  BY DEF DownTo, Rank
<1>2. p \in DownTo(p)
  BY RowTypes DEF DownTo
<1>3. /\ IsFiniteSet(DownTo(p)) /\ Cardinality(DownTo(p)) \in Nat
      /\ Cardinality(DownTo(p)) <= Cardinality(Listed)
  BY <1>1, FS_Subset, FS_CardinalityType
<1>4. Cardinality(DownTo(p)) # 0
  BY <1>2, <1>3, FS_EmptySet
<1>5. QED
  BY <1>1, <1>2, <1>3, <1>4

\* Where no two rows have one createdAt there is one order, and each row is at
\* its rank in it.
LEMMA SortedByRank ==
  ASSUME PagesTypeOK, IsFiniteSet(Listed), ~Tied, NEW f \in Sorted, NEW p \in Listed
  PROVE  f[p] = Rank(p)
<1> DEFINE n == Cardinality(Listed)
<1>1. n \in Nat /\ f \in [Listed -> 1 .. n]
  BY FS_CardinalityType DEF Sorted
<1>2. \A q, s \in Listed : q # s =>
        f[q] # f[s] /\ (createdAt[q] > createdAt[s] => f[q] < f[s])
  BY DEF Sorted
<1>3. \A q, s \in Listed : createdAt[q] \in Nat /\ (q # s => createdAt[q] # createdAt[s])
  BY RowTypes DEF Tied
<1>4. \A q \in Listed : f[q] \in Nat /\ f[q] >= 1 /\ f[q] <= n
  BY <1>1
<1>5. \A q \in Listed : q \in DownTo(p) <=> f[q] <= f[p]
  BY <1>2, <1>3, <1>4 DEF DownTo
<1> HIDE DEF n
<1>6. \A k \in 1 .. n : \E q \in Listed : f[q] = k
  <2>1. f \in Injection(Listed, 1 .. n)
    BY <1>1, <1>2 DEF Injection, IsInjective
  <2>2. IsFiniteSet(1 .. n) /\ Cardinality(1 .. n) = n
    BY <1>1, FS_Interval
  <2>3. f \in Surjection(Listed, 1 .. n)
    BY <2>1, <2>2, FS_Injection DEF n
  <2>4. QED
    BY <2>3 DEF Surjection
<1> DEFINE g == [q \in DownTo(p) |-> f[q]]
<1>7. g \in Bijection(DownTo(p), 1 .. f[p])
  <2>1. DownTo(p) \subseteq Listed
    BY DEF DownTo
  <2>2. g \in [DownTo(p) -> 1 .. f[p]]
    BY <1>4, <1>5, <2>1
  <2>3. \A q, s \in DownTo(p) : g[q] = g[s] => q = s
    BY <1>2, <2>1
  <2>4. \A k \in 1 .. f[p] : \E q \in DownTo(p) : g[q] = k
    <3>1. SUFFICES ASSUME NEW k \in 1 .. f[p] PROVE \E q \in DownTo(p) : g[q] = k
      OBVIOUS
    <3>2. k \in 1 .. n /\ k <= f[p]
      BY <1>1, <1>4
    <3>3. PICK q \in Listed : f[q] = k
      BY <1>6, <3>2
    <3>4. q \in DownTo(p)
      BY <1>5, <3>2, <3>3
    <3>5. QED
      BY <3>3, <3>4
  <2>5. QED
    BY <2>2, <2>3, <2>4 DEF Bijection, Injection, IsInjective, Surjection
<1>8. ExistsBijection(DownTo(p), 1 .. f[p])
  BY <1>7 DEF ExistsBijection
<1>9. IsFiniteSet(DownTo(p)) /\ Rank(p) = Cardinality(DownTo(p))
  BY RanksArePlaces
<1>10. Cardinality(1 .. f[p]) = Cardinality(DownTo(p))
  BY <1>8, <1>9, FS_Bijection
<1>11. Cardinality(1 .. f[p]) = f[p]
  BY <1>4, FS_Interval
<1>12. QED
  BY <1>9, <1>10, <1>11

\* A row that comes moves no other up.
LEMMA RanksOnlyRise ==
  ASSUME PagesTypeOK, IsFiniteSet(Listed), PagesTypeOK', IsFiniteSet(Listed'),
         \A p \in Listed : createdAt'[p] = createdAt[p] /\ p \in Listed',
         NEW p \in Listed
  PROVE  Rank(p)' >= Rank(p) /\ Rank(p) \in Nat /\ Rank(p)' \in Nat
<1>1. DownTo(p) \subseteq DownTo(p)'
  BY DEF DownTo
<1>2. DownTo(p)' \subseteq Listed'
  BY DEF DownTo
<1>3. IsFiniteSet(DownTo(p)') /\ Cardinality(DownTo(p)') \in Nat
  BY <1>2, FS_Subset, FS_CardinalityType
<1>4. Cardinality(DownTo(p)) <= Cardinality(DownTo(p)') /\ Cardinality(DownTo(p)) \in Nat
  BY <1>1, <1>3, FS_Subset, FS_CardinalityType
<1>5. Rank(p) = Cardinality(DownTo(p)) /\ Rank(p)' = Cardinality(DownTo(p)')
  BY DEF Rank, DownTo
<1>6. QED
  BY <1>3, <1>4, <1>5

-----------------------------------------------------------------------------
(* Pages.                                                                  *)

\* Rounding up leaves no row beyond the last page.
LEMMA PagesSuffice ==
  ASSUME NEW n \in Nat, NEW total \in Nat, ~(n < TotalPages(total))
  PROVE  total <= n * Limit
<1>1. Limit \in Nat /\ Limit > 0
  BY PagesAssumption
<1>2. PICK t \in Nat : t = total + Limit - 1
  BY <1>1
<1>3. t \div Limit \in Nat /\ t < (t \div Limit + 1) * Limit
  BY <1>1
<1>4. n >= t \div Limit
  BY <1>2, <1>3 DEF TotalPages
<1>5. (n + 1) * Limit >= (t \div Limit + 1) * Limit
  BY <1>1, <1>3, <1>4
<1>6. (n + 1) * Limit = n * Limit + Limit
  BY <1>1
<1>7. n * Limit \in Nat
  BY <1>1
<1>8. QED
  BY <1>1, <1>2, <1>3, <1>5, <1>6, <1>7

LEMMA SkipOfTheNext ==
  ASSUME NEW n \in Nat
  PROVE  /\ Skip(n + 1) = n * Limit /\ n * Limit \in Nat
         /\ n # 0 => Skip(n) \in Nat /\ Skip(n) + Limit = n * Limit
  BY PagesAssumption DEF Skip

-----------------------------------------------------------------------------
(* The steps.                                                              *)

LEMMA PagesInitInv == PagesInit => PagesInv
<1> SUFFICES ASSUME PagesInit PROVE PagesInv
  OBVIOUS
<1>1. Listed = {} /\ ~Tied
  BY DEF PagesInit, Listed, Tied
<1>2. PagesTypeOK
  BY DEF PagesInit, PagesTypeOK
<1>3. QED
  BY <1>1, <1>2, FS_EmptySet DEF PagesInit, PagesInv

\* What a step of the walk leaves as it is.
LEMMA RowsStay ==
  ASSUME UNCHANGED createdAt
  PROVE  Listed' = Listed /\ Tied' = Tied /\ \A p : Rank(p)' = Rank(p)
  BY DEF Listed, Tied, Rank

LEMMA StartWalkStep ==
  ASSUME PagesInv, StartWalk
  PROVE  PagesInv'
<1>1. Listed' = Listed /\ Tied' = Tied /\ \A p : Rank(p)' = Rank(p)
  BY RowsStay DEF StartWalk
<1>2. PagesTypeOK /\ IsFiniteSet(Listed)
  BY DEF PagesInv
<1>3. PagesTypeOK'
  BY <1>2, RowTypes DEF PagesTypeOK, StartWalk
<1>4. Asked' = 0
  BY PagesAssumption DEF StartWalk, Asked, Skip
<1>5. \A p \in Listed : ~(Rank(p)' <= Asked')
  BY <1>1, <1>2, <1>4, RanksArePlaces
<1>6. /\ pc' = "items" /\ got' = {} /\ steady' = Listed /\ ordered' = ~Tied
      /\ ~twice'
  BY DEF StartWalk
<1>7. QED
  BY <1>1, <1>2, <1>3, <1>5, <1>6 DEF PagesInv

LEMMA FindManyStep ==
  ASSUME PagesInv, FindMany
  PROVE  PagesInv'
<1>1. Listed' = Listed /\ Tied' = Tied /\ \A p : Rank(p)' = Rank(p)
  BY RowsStay DEF FindMany
<1>2. PagesTypeOK /\ IsFiniteSet(Listed) /\ Listed \subseteq ProjectIds
  BY RowTypes DEF PagesInv
<1>3. PICK f \in Sorted :
        /\ got' = got \cup ItemsOf(page, f)
        /\ twice' = (twice \/ ItemsOf(page, f) \cap got # {})
  BY DEF FindMany
<1>4. /\ pc = "items" /\ pc' = "count"
      /\ UNCHANGED <<createdAt, gone, page, steady, ordered, added>>
  BY DEF FindMany
<1>5. ItemsOf(page, f) \subseteq Listed
  BY DEF ItemsOf
<1>6. PagesTypeOK'
  BY <1>2, <1>3, <1>4, <1>5 DEF PagesTypeOK
<1>7. page \in Nat /\ page # 0
  BY <1>2, <1>4 DEF PagesTypeOK
<1>8. /\ Asked = Skip(page) /\ Asked \in Nat
      /\ Asked' = Skip(page) + Limit /\ Limit \in Nat
  BY <1>4, <1>7, SkipOfTheNext, PagesAssumption DEF Asked
<1>9. ASSUME ordered
      PROVE  /\ ~Tied' /\ steady' \subseteq Listed'
             /\ \A p \in steady' : Rank(p)' <= Asked' => p \in got'
             /\ ~added' => ~twice'
             /\ ~added' => \A p \in got' : p \in Listed' /\ Rank(p)' <= Asked'
  <2>1. /\ ~Tied /\ steady \subseteq Listed
        /\ \A p \in steady : Rank(p) <= Asked => p \in got
        /\ ~added => ~twice
        /\ ~added => \A p \in got : p \in Listed /\ Rank(p) <= Asked
    BY <1>4, <1>9 DEF PagesInv
  <2>2. \A p \in Listed : f[p] = Rank(p) /\ Rank(p) \in Nat
    BY <1>2, <2>1, SortedByRank, RanksArePlaces
  <2>3. \A p \in Listed :
          p \in ItemsOf(page, f) <=> Asked < Rank(p) /\ Rank(p) <= Asked'
    BY <1>8, <2>2 DEF ItemsOf
  <2>4. \A p \in steady : Rank(p) <= Asked' => p \in got'
    BY <1>3, <1>8, <2>1, <2>2, <2>3
  <2>5. ~added => ItemsOf(page, f) \cap got = {}
    BY <1>5, <1>8, <2>1, <2>2, <2>3
  <2>6. ~added => \A p \in got' : p \in Listed /\ Rank(p) <= Asked'
    BY <1>3, <1>5, <1>8, <2>1, <2>2, <2>3
  <2>7. QED
    BY <1>1, <1>3, <1>4, <2>1, <2>4, <2>5, <2>6
<1>10. QED
  BY <1>1, <1>2, <1>4, <1>6, <1>9 DEF PagesInv

LEMMA CountStep ==
  ASSUME PagesInv, Count
  PROVE  PagesInv'
<1>1. Listed' = Listed /\ Tied' = Tied /\ \A p : Rank(p)' = Rank(p)
  BY RowsStay DEF Count
<1>2. PagesTypeOK /\ IsFiniteSet(Listed)
  BY DEF PagesInv
<1>3. /\ pc = "count" /\ page \in Nat /\ page # 0 /\ Asked = page * Limit
      /\ UNCHANGED <<createdAt, gone, got, steady, ordered, added, twice>>
  BY <1>2 DEF Count, PagesTypeOK, Asked
<1>4. CASE page < TotalPages(Cardinality(Listed))
  <2>1. page' = page + 1 /\ pc' = "items"
    BY <1>4 DEF Count
  <2>2. Asked' = Asked
    BY <1>3, <2>1, SkipOfTheNext DEF Asked
  <2>3. PagesTypeOK'
    BY <1>2, <1>3, <2>1 DEF PagesTypeOK
  <2>4. QED
    BY <1>1, <1>2, <1>3, <2>1, <2>2, <2>3 DEF PagesInv
<1>5. CASE ~(page < TotalPages(Cardinality(Listed)))
  <2>1. page' = 0 /\ pc' = "done"
    BY <1>5 DEF Count
  <2>2. Cardinality(Listed) \in Nat /\ page * Limit \in Nat
    BY <1>2, <1>3, FS_CardinalityType, SkipOfTheNext
  <2>3. Cardinality(Listed) <= Asked
    BY <1>3, <1>5, <2>2, PagesSuffice
  <2>4. \A p \in Listed : Rank(p) <= Asked
    BY <1>2, <1>3, <2>2, <2>3, RanksArePlaces
  <2>5. ordered => steady \subseteq got
    BY <1>3, <2>4 DEF PagesInv
  <2>6. PagesTypeOK'
    BY <1>2, <1>3, <2>1 DEF PagesTypeOK
  <2>7. QED
    BY <1>1, <1>2, <1>3, <2>1, <2>5, <2>6 DEF PagesInv
<1>6. QED
  BY <1>4, <1>5

LEMMA CreateStep ==
  ASSUME PagesInv, NEW p \in ProjectIds, NEW stamp \in Stamps, Create(p, stamp)
  PROVE  PagesInv'
<1>1. PagesTypeOK /\ IsFiniteSet(Listed)
  BY DEF PagesInv
<1>2. /\ UNCHANGED <<gone, page, pc, got, steady, twice>>
      /\ added' = TRUE /\ ordered' = (ordered /\ ~Tied') /\ p \notin Listed
  BY DEF Create, Listed
<1>3. \A q \in ProjectIds : createdAt'[q] = IF q = p THEN stamp ELSE createdAt[q]
  BY <1>1, RowTypes DEF Create
<1>4. PagesTypeOK'
  BY <1>1, <1>2, RowTypes DEF PagesTypeOK, Create
<1>5. Listed' = Listed \cup {p}
  BY <1>3, PagesAssumption DEF Listed
<1>6. IsFiniteSet(Listed')
  BY <1>1, <1>5, FS_AddElement
<1>7. \A q \in Listed : createdAt'[q] = createdAt[q] /\ q \in Listed'
  BY <1>1, <1>2, <1>3, <1>5, RowTypes
<1>8. Asked' = Asked /\ (pc # "done" => Asked \in Nat)
  BY <1>1, <1>2, SkipOfTheNext DEF Asked, Skip, PagesTypeOK
<1>9. ASSUME ordered'
      PROVE  /\ ~Tied' /\ steady' \subseteq Listed'
             /\ pc' = "done" => steady' \subseteq got'
             /\ pc' # "done" => \A q \in steady' : Rank(q)' <= Asked' => q \in got'
  <2>1. /\ ~Tied' /\ steady \subseteq Listed
        /\ pc = "done" => steady \subseteq got
        /\ pc # "done" => \A q \in steady : Rank(q) <= Asked => q \in got
    BY <1>2, <1>9 DEF PagesInv
  <2>2. \A q \in Listed : Rank(q)' >= Rank(q) /\ Rank(q) \in Nat /\ Rank(q)' \in Nat
    BY <1>1, <1>4, <1>6, <1>7, RanksOnlyRise
  <2>3. QED
    BY <1>2, <1>5, <1>8, <2>1, <2>2
<1>10. QED
  BY <1>2, <1>4, <1>6, <1>9 DEF PagesInv

LEMMA LeaveStep ==
  ASSUME PagesInv, NEW p \in ProjectIds, Leave(p)
  PROVE  PagesInv'
<1>1. PagesTypeOK /\ IsFiniteSet(Listed)
  BY DEF PagesInv
<1>2. PagesTypeOK'
  BY <1>1 DEF PagesTypeOK, Leave
<1>3. Listed' \subseteq Listed
  BY <1>1, RowTypes DEF Leave, Listed
<1>4. IsFiniteSet(Listed')
  BY <1>1, <1>3, FS_Subset
<1>5. ~ordered'
  BY DEF Leave
<1>6. QED
  BY <1>2, <1>4, <1>5 DEF PagesInv

LEMMA PagesNextInv ==
  ASSUME PagesInv, [PagesNext]_pages
  PROVE  PagesInv'
<1>1. CASE UNCHANGED pages
  <2>1. Listed' = Listed /\ Tied' = Tied /\ \A p : Rank(p)' = Rank(p)
    BY <1>1, RowsStay DEF pages
  <2>2. QED
    BY <1>1, <2>1 DEF pages, PagesInv, PagesTypeOK, Asked
<1>2. ASSUME NEW p \in ProjectIds, NEW stamp \in Stamps, Create(p, stamp)
      PROVE  PagesInv'
  BY <1>2, CreateStep
<1>3. QED
  BY <1>1, <1>2, StartWalkStep, FindManyStep, CountStep, LeaveStep DEF PagesNext

-----------------------------------------------------------------------------

\* What has been asked for has been given, however projects come and go under
\* the walk.
THEOREM PagesInvariant == PagesSpec => []PagesInv
<1>1. PagesInit => PagesInv
  BY PagesInitInv
<1>2. PagesInv /\ [PagesNext]_pages => PagesInv'
  BY PagesNextInv
<1>3. QED
  BY <1>1, <1>2, PTL DEF PagesSpec

\* A walk misses nothing that was there from its start to its end, and, if
\* nothing was created, meets nothing twice (listProjects, paginationMeta).
THEOREM WalksMissNothing == PagesSpec => []WalksAreFaithful
<1>1. PagesInv => WalksAreFaithful
  BY DEF PagesInv, WalksAreFaithful
<1>2. QED
  BY <1>1, PagesInvariant, PTL
=============================================================================
