--------------------------- MODULE ListingProofs ---------------------------
(* Proofs about the paged lists: what a page holds, and what a client sees  *)
(* who reads page after page, for tables, pages and readings of any size.   *)
EXTENDS Listing, FiniteSetTheorems, TLAPS

----------------------------------------------------------------------------
(* Offsets.                                                                 *)

LEMMA SmallMod ==
    ASSUME NEW n \in Nat, NEW m \in Nat \ {0}, n < m
    PROVE  n % m = n
OBVIOUS

\* The offset is right as far as it fits, and at first negative beyond.
LEMMA WrappedExact ==
    /\ \A n \in 0..MaxInt : Wrapped(n) = n
    /\ \A n \in (MaxInt + 1)..(2 * MaxInt) : Wrapped(n) < 0
<1> DEFINE M == 2 * (MaxInt + 1)
<1>1. MaxInt \in Nat /\ M \in Nat \ {0}
    BY ListingAssumption
<1>2. ASSUME NEW n \in 0..(2 * MaxInt) PROVE n % M = n
  <2>1. n \in Nat /\ n < M
    BY <1>1
  <2> HIDE DEF M
  <2> QED BY <1>1, <2>1, SmallMod
<1> QED BY <1>1, <1>2 DEF Wrapped

\* The places before those of a page.
Start(page, size) == (page - 1) * size

LEMMA StartNext ==
    ASSUME NEW page \in Nat \ {0}, NEW size \in Nat \ {0}
    PROVE  /\ Start(page, size) \in Nat
           /\ Start(page + 1, size) = Start(page, size) + size
           /\ Start(page + 1, size) = page * size
<1>1. page - 1 \in Nat /\ page = (page - 1) + 1
    OBVIOUS
<1>2. \A p \in Nat : p * size \in Nat /\ (p + 1) * size = p * size + size
    OBVIOUS
<1> QED BY <1>1, <1>2 DEF Start

----------------------------------------------------------------------------
(* What a page holds.                                                       *)

LEMMA DisjointCount ==
    ASSUME NEW U, NEW S, IsFiniteSet(U), IsFiniteSet(S), U \cap S = {}
    PROVE  /\ Cardinality(U \cup S) = Cardinality(U) + Cardinality(S)
           /\ Cardinality(U) \in Nat /\ Cardinality(S) \in Nat
<1>1. Cardinality(U \cap S) = 0
    BY FS_EmptySet
<1>2. Cardinality(U \cup S) = Cardinality(U) + Cardinality(S) - Cardinality(U \cap S)
    BY FS_Union
<1>3. Cardinality(U) \in Nat /\ Cardinality(S) \in Nat
    BY FS_CardinalityType
<1> QED BY <1>1, <1>2, <1>3

\* A page is a slice: so many rows before it, so many in it, or the end.
LEMMA PageCounts ==
    ASSUME NEW T, IsFiniteSet(T), NEW size \in Nat \ {0}, NEW off \in Nat,
           NEW S \in Pages(T, size, off)
    PROVE  /\ S \subseteq T /\ Cardinality(S) \in Nat /\ Cardinality(T) \in Nat
           /\ Cardinality(S) <= size
           /\ Cardinality(S) = size => Cardinality(T) >= off + size
           /\ Cardinality(S) < size => Cardinality(T) <= off + Cardinality(S)
           /\ Cardinality(T) <= off => Cardinality(S) = 0
           /\ Cardinality(T) >= off => Cardinality(S) <= Cardinality(T) - off
<1>1. S \subseteq T
    BY DEF Pages
<1>2. PICK U \in SUBSET (T \ S) :
          /\ Cardinality(U) = off \/ (U = T /\ Cardinality(T) < off)
          /\ Cardinality(S) = size \/ (U \cup S = T /\ Cardinality(S) < size)
    BY DEF Pages
<1>3. IsFiniteSet(U) /\ IsFiniteSet(S) /\ U \cap S = {} /\ U \cup S \subseteq T
    BY <1>1, <1>2, FS_Subset
<1> DEFINE cU == Cardinality(U)  cS == Cardinality(S)
           cT == Cardinality(T)  cUS == Cardinality(U \cup S)
<1>4. cUS = cU + cS /\ cU \in Nat /\ cS \in Nat
    BY <1>3, DisjointCount
<1>5. cT \in Nat /\ cUS <= cT
    BY <1>3, FS_Subset, FS_CardinalityType
<1>6. cU = off \/ (cU = cT /\ cT < off /\ cS = 0)
  <2>1. U = T => S = {}
    BY <1>1, <1>2
  <2> QED BY <1>2, <2>1, FS_EmptySet
<1>7. cS = size \/ (cUS = cT /\ cS < size)
    BY <1>2
<1> HIDE DEF cU, cS, cT, cUS
<1>8. /\ cS <= size
      /\ cS = size => cT >= off + size
      /\ cS < size => cT <= off + cS
      /\ cT <= off => cS = 0
      /\ cT >= off => cS <= cT - off
    BY <1>4, <1>5, <1>6, <1>7
<1> QED BY <1>1, <1>4, <1>5, <1>8 DEF cS, cT

\* The rows of T that come before r.
Ahead(T, r) == {x \in T : Before(x, r)}
Rank(T, r) == Cardinality(Ahead(T, r))

\* A row has one place when it is before or behind every other.
Placed(T, r) == ~Before(r, r) /\ \A x \in T \ {r} : Before(x, r) \/ Before(r, x)

LEMMA RankBounds ==
    ASSUME NEW T, IsFiniteSet(T), NEW r \in T, ~Before(r, r)
    PROVE  Rank(T, r) \in Nat /\ Rank(T, r) < Cardinality(T)
<1>1. Ahead(T, r) \in SUBSET T /\ Ahead(T, r) # T
    BY DEF Ahead
<1>2. Cardinality(Ahead(T, r)) \in Nat /\ Cardinality(T) \in Nat
    BY <1>1, FS_Subset, FS_CardinalityType
<1> QED BY <1>1, <1>2, FS_Subset DEF Rank

\* The front of the order holds a row exactly if it is longer than its rank.
LEMMA FrontHolds ==
    ASSUME NEW T, IsFiniteSet(T), NEW r \in T, Placed(T, r),
           NEW U \in SUBSET T, \A x \in T \ U, y \in U : ~Before(x, y)
    PROVE  /\ Cardinality(U) \in Nat
           /\ r \in U <=> Rank(T, r) < Cardinality(U)
<1>1. IsFiniteSet(U) /\ Cardinality(U) \in Nat
    BY FS_Subset, FS_CardinalityType
<1>2. Ahead(T, r) \in SUBSET T /\ r \notin Ahead(T, r)
    BY DEF Ahead, Placed
<1>3. IsFiniteSet(Ahead(T, r)) /\ Rank(T, r) \in Nat
    BY <1>2, FS_Subset, FS_CardinalityType DEF Rank
<1>4. ASSUME r \in U PROVE Rank(T, r) < Cardinality(U)
  <2>1. Ahead(T, r) \in SUBSET U /\ Ahead(T, r) # U
      BY <1>2, <1>4 DEF Ahead
  <2> QED BY <1>1, <1>3, <2>1, FS_Subset DEF Rank
<1>5. ASSUME r \notin U PROVE Cardinality(U) <= Rank(T, r)
  <2>1. U \in SUBSET Ahead(T, r)
      BY <1>5 DEF Ahead, Placed
  <2> QED BY <1>3, <2>1, FS_Subset DEF Rank
<1> QED BY <1>1, <1>3, <1>4, <1>5

\* A row that has one place is on the page of that place and on no other.
LEMMA PagePlace ==
    ASSUME NEW T, IsFiniteSet(T), NEW size \in Nat \ {0}, NEW off \in Nat,
           NEW S \in Pages(T, size, off), NEW r \in T, Placed(T, r)
    PROVE  /\ Rank(T, r) \in Nat
           /\ r \in S <=> off <= Rank(T, r) /\ Rank(T, r) < off + size
<1>1. PICK U \in SUBSET (T \ S) :
          /\ \A x \in T \ U, y \in U : ~Before(x, y)
          /\ \A x \in T \ (U \cup S), y \in U \cup S : ~Before(x, y)
          /\ Cardinality(U) = off \/ (U = T /\ Cardinality(T) < off)
          /\ Cardinality(S) = size \/ (U \cup S = T /\ Cardinality(S) < size)
    BY DEF Pages
<1>2. S \in SUBSET T /\ U \in SUBSET T /\ U \cap S = {} /\ U \cup S \in SUBSET T
    BY <1>1 DEF Pages
<1>3. Cardinality(U \cup S) = Cardinality(U) + Cardinality(S)
  <2>1. IsFiniteSet(U) /\ IsFiniteSet(S)
      BY <1>2, FS_Subset
  <2> QED BY <1>2, <2>1, DisjointCount
<1>4. /\ Cardinality(U) \in Nat
      /\ r \in U <=> Rank(T, r) < Cardinality(U)
    BY <1>1, <1>2, FrontHolds
<1>5. /\ Cardinality(U \cup S) \in Nat
      /\ r \in U \cup S <=> Rank(T, r) < Cardinality(U \cup S)
    BY <1>1, <1>2, FrontHolds
<1>6. Rank(T, r) \in Nat /\ Rank(T, r) < Cardinality(T)
    BY RankBounds DEF Placed
<1>7. Cardinality(S) \in Nat /\ Cardinality(T) \in Nat
  <2>1. IsFiniteSet(S)
      BY <1>2, FS_Subset
  <2> QED BY <2>1, FS_CardinalityType
<1>8. r \in S <=> r \in U \cup S /\ r \notin U
    BY <1>2
<1> DEFINE cU == Cardinality(U)  cS == Cardinality(S)  k == Rank(T, r)
           cT == Cardinality(T)  cUS == Cardinality(U \cup S)
<1>9. /\ cU = off \/ (cU = cT /\ cT < off)
      /\ cS = size \/ (cUS = cT /\ cS < size)
      /\ r \in S <=> k < cUS /\ ~(k < cU)
    BY <1>1, <1>4, <1>5, <1>8
<1>10. /\ cU \in Nat /\ cS \in Nat /\ cT \in Nat /\ k \in Nat
       /\ cUS = cU + cS /\ k < cT
    BY <1>3, <1>4, <1>6, <1>7
<1> HIDE DEF cU, cS, cT, cUS, k
<1>11. k < cUS /\ ~(k < cU) <=> off <= k /\ k < off + size
    BY <1>9, <1>10
<1> QED BY <1>6, <1>9, <1>11 DEF k

----------------------------------------------------------------------------
(* What holds while a client reads.                                         *)

\* A reading, with the types of its parts.
Walks == [at : {"count", "data", "done"}, upTo : {"page", "short", "total"},
          page : Nat \ {0}, size : 1..MaxInt, total : 0..MaxId, first : SUBSET Rows,
          got : 0..MaxId, seen : SUBSET Nat, twice : SUBSET Nat,
          changes : SUBSET {"grown", "shrunk", "failed"}]

WalkOK == walk = [at |-> "idle"] \/ walk \in Walks

\* An id is given once.
IdsGiven == /\ \A x \in rows : x.id < nextId
            /\ \A x, y \in rows : x.id = y.id => x = y

Reading == walk.at \in {"count", "data"}
Onward  == walk.upTo \in {"short", "total"}

\* A reader who goes on asks for one page too far at most: the offset that does
\* not fit in an int32_t is negative, and the database refuses it.
OffsetFits == Reading /\ Onward => Start(walk.page, walk.size) <= 2 * MaxInt

\* While nobody changes the list, it is the list the reader began with, ...
StillTheFirst == Reading /\ walk.changes = {} => Shown = walk.first

\* ... the total covers it, ...
TotalCovers == walk.at = "data" /\ walk.changes = {} =>
                   Cardinality(walk.first) <= walk.total

\* ... and the reader has the rows of the places before the page, each once.
SeenUpToPage ==
    Reading /\ Onward /\ walk.changes = {} =>
        \A r \in walk.first \ Unsure :
            /\ r.id \in walk.seen <=> Rank(walk.first, r) < Start(walk.page, walk.size)
            /\ r.id \notin walk.twice

\* While applications are only created, those the reader began with are there,
\* and those at the places before the page have come.
SeenOrBehind ==
    Reading /\ walk.upTo = "short" /\ list = "apps" /\ walk.changes \subseteq {"grown"} =>
        \A r \in walk.first :
            /\ r \in Shown
            /\ Rank(Shown, r) < Start(walk.page, walk.size) => r.id \in walk.seen

ListingInv == /\ TypeOK /\ WalkOK /\ IdsGiven /\ OffsetFits
              /\ StillTheFirst /\ TotalCovers /\ SeenUpToPage /\ SeenOrBehind
              /\ PageHoldsItsRows /\ NothingSkippedById /\ QuietWalkIsExact

----------------------------------------------------------------------------
(* The parts the steps share.                                               *)

\* There are no more rows than ids.
LEMMA FewRows ==
    ASSUME NEW R \in SUBSET Rows, \A x, y \in R : x.id = y.id => x = y,
           NEW T \in SUBSET R
    PROVE  IsFiniteSet(T) /\ Cardinality(T) \in 0..MaxId
<1> DEFINE f == [r \in R |-> r.id]
<1>1. f \in Injection(R, 1..MaxId)
    BY DEF Rows, Injection, IsInjective
<1>2. IsFiniteSet(1..MaxId) /\ Cardinality(1..MaxId) = MaxId
    BY FS_Interval, ListingAssumption
<1>3. IsFiniteSet(R) /\ Cardinality(R) <= MaxId
    BY <1>1, <1>2, FS_Injection
<1>4. IsFiniteSet(T) /\ Cardinality(T) <= Cardinality(R)
    BY <1>3, FS_Subset
<1>5. Cardinality(T) \in Nat /\ Cardinality(R) \in Nat
    BY <1>3, <1>4, FS_CardinalityType
<1> QED BY <1>3, <1>4, <1>5, ListingAssumption

\* A change of the table is noted in the reading, which else stays.
LEMMA ChangedWalk ==
    ASSUME WalkOK, NEW how \in {"grown", "shrunk"}, Changed(how)
    PROVE  /\ WalkOK'
           /\ ~Reading => walk' = walk
           /\ Reading => /\ walk'.at = walk.at /\ walk'.upTo = walk.upTo
                         /\ walk'.page = walk.page /\ walk'.size = walk.size
                         /\ walk'.total = walk.total /\ walk'.first = walk.first
                         /\ walk'.got = walk.got /\ walk'.seen = walk.seen
                         /\ walk'.twice = walk.twice
                         /\ walk'.changes = walk.changes \cup {how}
                         /\ walk'.changes # {}
<1>1. CASE walk = [at |-> "idle"]
    BY <1>1 DEF WalkOK, Changed, Reading
<1>2. CASE walk \in Walks /\ walk.at = "done"
    BY <1>2 DEF WalkOK, Changed, Reading
<1>3. CASE walk \in Walks /\ walk.at # "done"
  <2>1. walk' = [walk EXCEPT !.changes = @ \cup {how}]
      BY <1>3 DEF Changed, Walks
  <2>2. walk' \in Walks
      BY <1>3, <2>1 DEF Walks
  <2>3. /\ walk'.at = walk.at /\ walk'.upTo = walk.upTo
        /\ walk'.page = walk.page /\ walk'.size = walk.size
        /\ walk'.total = walk.total /\ walk'.first = walk.first
        /\ walk'.got = walk.got /\ walk'.seen = walk.seen /\ walk'.twice = walk.twice
      BY <1>3, <2>1 DEF Walks
  <2>4. walk'.changes = walk.changes \cup {how}
      BY <1>3, <2>1 DEF Walks
  <2>5. Reading
      BY <1>3 DEF Walks, Reading
  <2> QED BY <2>2, <2>3, <2>4, <2>5 DEF WalkOK
<1> QED BY <1>1, <1>2, <1>3 DEF WalkOK

\* What a change of the table that nobody hides from the reading leaves of the
\* invariant: all but the rows themselves and, as long as the table only grows,
\* that nothing is skipped.
LEMMA ChangeKeeps ==
    ASSUME ListingInv, NEW how \in {"grown", "shrunk"}, Changed(how), list' = list
    PROVE  /\ WalkOK' /\ OffsetFits' /\ StillTheFirst' /\ TotalCovers' /\ SeenUpToPage'
           /\ PageHoldsItsRows' /\ NothingSkippedById' /\ QuietWalkIsExact'
<1>1. WalkOK /\ OffsetFits
    BY DEF ListingInv
<1>2. WalkOK'
    BY <1>1, ChangedWalk
<1>3. CASE Reading
  <2>1. /\ walk'.at = walk.at /\ walk'.upTo = walk.upTo /\ walk'.page = walk.page
        /\ walk'.size = walk.size /\ walk'.changes # {}
      BY <1>1, <1>3, ChangedWalk
  <2>2. walk'.at # "done"
      BY <1>3, <2>1 DEF Reading
  <2>3. OffsetFits'
      BY <1>1, <2>1 DEF OffsetFits, Reading, Onward
  <2>4. StillTheFirst' /\ TotalCovers' /\ SeenUpToPage'
      BY <2>1 DEF StillTheFirst, TotalCovers, SeenUpToPage
  <2>5. PageHoldsItsRows' /\ NothingSkippedById' /\ QuietWalkIsExact'
      BY <2>2 DEF PageHoldsItsRows, NothingSkippedById, QuietWalkIsExact, Done
  <2> QED BY <1>2, <2>3, <2>4, <2>5
<1>4. CASE ~Reading
  <2>1. walk' = walk /\ ~Reading'
      BY <1>1, <1>4, ChangedWalk DEF Reading
  <2>2. OffsetFits' /\ StillTheFirst' /\ SeenUpToPage'
      BY <2>1 DEF OffsetFits, StillTheFirst, SeenUpToPage
  <2>3. TotalCovers'
      BY <2>1 DEF TotalCovers, Reading
  <2>4. PageHoldsItsRows' /\ NothingSkippedById'
      BY <2>1 DEF ListingInv, PageHoldsItsRows, NothingSkippedById, Done
  <2>5. QuietWalkIsExact'
      BY <2>1 DEF ListingInv, QuietWalkIsExact, Done, Unsure, Tied
  <2> QED BY <1>2, <2>2, <2>3, <2>4, <2>5
<1> QED BY <1>3, <1>4

\* The types of a reading, as TypeOK says them.
LEMMA WalkTypes ==
    ASSUME NEW w, w = [at |-> "idle"] \/ w \in Walks
    PROVE  /\ w.at \in {"idle", "count", "data", "done"}
           /\ w.at # "idle" =>
                 /\ w \in Walks
                 /\ w.page \in Nat \ {0} /\ w.size \in Nat \ {0}
                 /\ w.total \in 0..MaxId /\ w.got \in 0..MaxId
                 /\ w.first \subseteq Rows
<1>1. CASE w = [at |-> "idle"]
    BY <1>1
<1>2. CASE w \in Walks
  <2>1. w.size \in Nat \ {0}
      BY <1>2, ListingAssumption DEF Walks
  <2> QED BY <1>2, <2>1 DEF Walks
<1> QED BY <1>1, <1>2

\* With rows added, no row comes to an earlier place.
LEMMA RankGrows ==
    ASSUME NEW T, IsFiniteSet(T), NEW R \in SUBSET T, NEW r
    PROVE  Rank(R, r) \in Nat /\ Rank(T, r) \in Nat /\ Rank(R, r) <= Rank(T, r)
<1>1. Ahead(T, r) \in SUBSET T /\ Ahead(R, r) \in SUBSET Ahead(T, r)
    BY DEF Ahead
<1>2. IsFiniteSet(Ahead(T, r))
    BY <1>1, FS_Subset
<1>3. IsFiniteSet(Ahead(R, r))
    BY <1>1, <1>2, FS_Subset
<1> QED BY <1>1, <1>2, <1>3, FS_Subset, FS_CardinalityType DEF Rank

----------------------------------------------------------------------------
(* The changes of the table.                                                *)

LEMMA InsertStep == ListingInv /\ Insert => ListingInv'
<1> SUFFICES ASSUME ListingInv, Insert PROVE ListingInv'
    OBVIOUS
<1> DEFINE new == [id |-> nextId, created |-> now, live |-> TRUE]
<1>1. TypeOK /\ WalkOK /\ IdsGiven /\ MaxId \in Nat
    BY ListingAssumption DEF ListingInv
<1>2. nextId <= MaxId /\ rows' = rows \cup {new} /\ nextId' = nextId + 1 /\ list' = list /\ now' = now
    BY DEF Insert
<1>3. Changed("grown")
    BY DEF Insert
<1>4. /\ WalkOK' /\ OffsetFits' /\ StillTheFirst' /\ TotalCovers' /\ SeenUpToPage'
      /\ PageHoldsItsRows' /\ NothingSkippedById' /\ QuietWalkIsExact'
    BY <1>2, <1>3, ChangeKeeps
<1>5. new \in Rows /\ rows' \subseteq Rows /\ nextId' \in 1..(MaxId + 1)
  <2>1. nextId \in 1..MaxId /\ now \in 0..MaxTime /\ rows \subseteq Rows
      BY <1>1, <1>2 DEF TypeOK
  <2>2. new \in Rows
      BY <2>1 DEF Rows
  <2>3. nextId' \in 1..(MaxId + 1)
      BY <1>1, <1>2, <2>1
  <2> HIDE DEF new
  <2> QED BY <1>2, <2>1, <2>2, <2>3
<1>6. IdsGiven'
  <2>1. \A x \in rows : x.id \in Nat /\ x.id < nextId
      BY <1>1 DEF TypeOK, Rows, IdsGiven
  <2>2. nextId \in Nat /\ new.id = nextId
      BY <1>1 DEF TypeOK
  <2>3. \A x \in rows' : x \in rows \/ x = new
      BY <1>2
  <2> HIDE DEF new
  <2>4. \A x \in rows' : x.id < nextId'
      BY <1>2, <2>1, <2>2, <2>3
  <2>5. \A x, y \in rows' : x.id = y.id => x = y
      BY <1>1, <2>1, <2>2, <2>3 DEF IdsGiven
  <2> QED BY <2>4, <2>5 DEF IdsGiven
<1>7. TypeOK'
  <2>1. walk'.at # "idle" => walk'.at = walk.at /\ walk'.seen = walk.seen
      BY <1>1, <1>3, ChangedWalk
  <2>2. walk'.at # "idle" => walk'.seen \subseteq 1..(nextId' - 1)
      BY <1>1, <1>2, <2>1 DEF TypeOK
  <2>3. list' \in Lists /\ now' \in 0..MaxTime
      BY <1>1, <1>2 DEF TypeOK
  <2> QED BY <1>4, <1>5, <2>2, <2>3, WalkTypes DEF TypeOK, WalkOK
<1>8. SeenOrBehind'
  <2> SUFFICES ASSUME Reading', walk'.upTo = "short", list' = "apps",
                      walk'.changes \subseteq {"grown"}, NEW r \in walk'.first
               PROVE  /\ r \in Shown'
                      /\ Rank(Shown, r)' < Start(walk'.page, walk'.size) => r.id \in walk'.seen
      BY DEF SeenOrBehind
  <2>1. Reading
      BY <1>1, <1>3, ChangedWalk DEF Reading
  <2>2. /\ walk'.upTo = walk.upTo /\ walk'.page = walk.page /\ walk'.size = walk.size
        /\ walk'.first = walk.first /\ walk'.seen = walk.seen
        /\ walk.changes \subseteq walk'.changes
      BY <1>1, <1>3, <2>1, ChangedWalk
  <2>3. /\ r \in Shown
        /\ Rank(Shown, r) < Start(walk.page, walk.size) => r.id \in walk.seen
      BY <1>2, <2>1, <2>2 DEF ListingInv, SeenOrBehind
  <2>4. Shown \in SUBSET Shown' /\ Shown' \in SUBSET rows'
      BY <1>2 DEF Shown
  <2>5. IsFiniteSet(Shown')
      BY <1>5, <1>6, <2>4, FewRows DEF IdsGiven
  <2>6. Rank(Shown, r)' = Rank(Shown', r)
      BY <1>2 DEF Rank, Ahead, Before
  <2>7. Rank(Shown, r) \in Nat /\ Rank(Shown', r) \in Nat /\ Rank(Shown, r) <= Rank(Shown', r)
      BY <2>4, <2>5, RankGrows
  <2>8. Start(walk.page, walk.size) \in Nat
    <3>1. walk \in Walks
        BY <1>1, <2>1 DEF WalkOK, Reading
    <3>2. walk.page \in Nat \ {0} /\ walk.size \in Nat \ {0}
        BY <3>1, ListingAssumption DEF Walks
    <3> QED BY <3>2, StartNext
  <2> QED BY <2>2, <2>3, <2>4, <2>6, <2>7, <2>8
<1> QED BY <1>4, <1>6, <1>7, <1>8 DEF ListingInv

\* The rows of the table go, or their role does: the reading notes it.
LEMMA ShrinkStep ==
    ASSUME ListingInv, Changed("shrunk"), list' = list, nextId' = nextId, now' = now,
           rows' \subseteq Rows, IdsGiven'
    PROVE  ListingInv'
<1>1. TypeOK /\ WalkOK
    BY DEF ListingInv
<1>2. /\ WalkOK' /\ OffsetFits' /\ StillTheFirst' /\ TotalCovers' /\ SeenUpToPage'
      /\ PageHoldsItsRows' /\ NothingSkippedById' /\ QuietWalkIsExact'
    BY ChangeKeeps
<1>3. TypeOK'
  <2>1. walk'.at # "idle" => walk'.at = walk.at /\ walk'.seen = walk.seen
      BY <1>1, ChangedWalk
  <2>2. walk'.at # "idle" => walk'.seen \subseteq 1..(nextId' - 1)
      BY <1>1, <2>1 DEF TypeOK
  <2>3. list' \in Lists /\ now' \in 0..MaxTime /\ nextId' \in 1..(MaxId + 1)
      BY <1>1 DEF TypeOK
  <2> QED BY <1>2, <2>2, <2>3, WalkTypes DEF TypeOK, WalkOK
<1>4. SeenOrBehind'
  <2>1. CASE Reading
    <3>1. "shrunk" \in walk'.changes
        BY <1>1, <2>1, ChangedWalk
    <3> QED BY <3>1 DEF SeenOrBehind
  <2>2. CASE ~Reading
    <3>1. ~Reading'
        BY <1>1, <2>2, ChangedWalk DEF Reading
    <3> QED BY <3>1 DEF SeenOrBehind
  <2> QED BY <2>1, <2>2
<1> QED BY <1>2, <1>3, <1>4 DEF ListingInv

LEMMA DeleteStep == ListingInv /\ Delete => ListingInv'
<1> SUFFICES ASSUME ListingInv, Delete PROVE ListingInv'
    OBVIOUS
<1>1. Changed("shrunk") /\ list' = list /\ nextId' = nextId /\ now' = now /\ rows' \subseteq rows
    BY DEF Delete
<1>2. rows \subseteq Rows /\ IdsGiven
    BY DEF ListingInv, TypeOK
<1>3. rows' \subseteq Rows /\ IdsGiven'
    BY <1>1, <1>2 DEF IdsGiven
<1> QED BY <1>1, <1>3, ShrinkStep

LEMMA DeleteRoleStep == ListingInv /\ DeleteRole => ListingInv'
<1> SUFFICES ASSUME ListingInv, DeleteRole PROVE ListingInv'
    OBVIOUS
<1>1. Changed("shrunk") /\ list' = list /\ nextId' = nextId /\ now' = now
    BY DEF DeleteRole
<1>2. rows \subseteq Rows /\ IdsGiven
    BY DEF ListingInv, TypeOK
<1>3. PICK S \in SUBSET rows : rows' = (rows \ S) \cup {[r EXCEPT !.live = FALSE] : r \in S}
    BY DEF DeleteRole, Shown
<1>4. \A r \in S : /\ [r EXCEPT !.live = FALSE] \in Rows
                   /\ [r EXCEPT !.live = FALSE].id = r.id
    BY <1>2 DEF Rows
<1>5. rows' \subseteq Rows
    BY <1>2, <1>3, <1>4
<1>6. IdsGiven'
  <2>1. \A x \in rows' : \/ x \in rows \ S
                         \/ \E r \in S : x = [r EXCEPT !.live = FALSE] /\ x.id = r.id
      BY <1>3, <1>4
  <2>2. \A x \in rows' : x.id < nextId
      BY <1>2, <2>1 DEF IdsGiven
  <2>3. ASSUME NEW x \in rows', NEW y \in rows', x.id = y.id PROVE x = y
    <3>1. PICK q \in rows : /\ q.id = x.id
                            /\ q \in S => x = [q EXCEPT !.live = FALSE]
                            /\ q \notin S => x = q
        BY <2>1
    <3>2. PICK p \in rows : /\ p.id = y.id
                            /\ p \in S => y = [p EXCEPT !.live = FALSE]
                            /\ p \notin S => y = p
        BY <2>1
    <3>3. p = q
        BY <1>2, <2>3, <3>1, <3>2 DEF IdsGiven
    <3> QED BY <3>1, <3>2, <3>3
  <2> QED BY <1>1, <2>2, <2>3 DEF IdsGiven
<1> QED BY <1>1, <1>5, <1>6, ShrinkStep

LEMMA TickStep == ListingInv /\ Tick => ListingInv'
<1> SUFFICES ASSUME ListingInv, Tick PROVE ListingInv'
    OBVIOUS
<1>1. UNCHANGED <<list, rows, nextId, walk>> /\ now < MaxTime /\ now' = now + 1
    BY DEF Tick
<1>2. TypeOK'
  <2>1. now' \in 0..MaxTime
      BY <1>1, ListingAssumption DEF ListingInv, TypeOK
  <2> QED BY <1>1, <2>1 DEF ListingInv, TypeOK
<1>3. WalkOK' /\ IdsGiven' /\ OffsetFits'
    BY <1>1 DEF ListingInv, WalkOK, IdsGiven, OffsetFits, Reading, Onward
<1>4. StillTheFirst' /\ TotalCovers'
    BY <1>1 DEF ListingInv, StillTheFirst, TotalCovers, Reading, Shown
<1>5. SeenUpToPage'
    BY <1>1 DEF ListingInv, SeenUpToPage, Reading, Onward, Unsure, Tied, Rank, Ahead, Before
<1>6. SeenOrBehind'
    BY <1>1 DEF ListingInv, SeenOrBehind, Reading, Shown, Rank, Ahead, Before
<1>7. PageHoldsItsRows' /\ NothingSkippedById' /\ QuietWalkIsExact'
    BY <1>1 DEF ListingInv, PageHoldsItsRows, NothingSkippedById, QuietWalkIsExact,
                Done, Unsure, Tied
<1> QED BY <1>2, <1>3, <1>4, <1>5, <1>6, <1>7 DEF ListingInv

----------------------------------------------------------------------------
(* The reading.                                                             *)

LEMMA AskStep ==
    ASSUME NEW upTo \in {"page", "short", "total"}, NEW page \in 0..MaxPage,
           NEW size \in Sizes, upTo # "page" => page = 0
    PROVE  ListingInv /\ Ask(upTo, page, size) => ListingInv'
<1> SUFFICES ASSUME ListingInv, Ask(upTo, page, size) PROVE ListingInv'
    OBVIOUS
<1> DEFINE p == PageOf(page)  z == SizeOf(size)
<1>1. UNCHANGED <<list, rows, nextId, now>>
    BY DEF Ask
<1>2. walk' = [at |-> "count", upTo |-> upTo, page |-> p, size |-> z, total |-> 0,
               first |-> Shown, got |-> 0, seen |-> {}, twice |-> {}, changes |-> {}]
    BY DEF Ask
<1>3. /\ p \in Nat \ {0} /\ z \in 1..MaxInt
      /\ upTo # "page" => p = 1
    BY ListingAssumption DEF PageOf, SizeOf, DefaultSize
<1> HIDE DEF p, z
<1>4. Shown \in SUBSET Rows
    BY DEF ListingInv, TypeOK, Shown
<1>5. walk' \in Walks
    BY <1>2, <1>3, <1>4, ListingAssumption DEF Walks
<1>6. WalkOK' /\ IdsGiven' /\ TypeOK'
  <2>1. walk'.seen = {}
      BY <1>2
  <2> QED BY <1>1, <1>5, <2>1, WalkTypes DEF ListingInv, TypeOK, WalkOK, IdsGiven
<1>7. upTo # "page" => Start(p, z) = 0
    BY <1>3 DEF Start
<1>8. OffsetFits'
    BY <1>2, <1>7, ListingAssumption DEF OffsetFits, Onward
<1>9. StillTheFirst' /\ TotalCovers'
    BY <1>1, <1>2 DEF StillTheFirst, TotalCovers, Shown
<1>10. \A r \in Shown : Rank(Shown, r) \in Nat
  <2>1. IsFiniteSet(Shown)
      BY FewRows DEF ListingInv, TypeOK, IdsGiven, Shown
  <2> QED BY <2>1, RankGrows
<1>11. SeenUpToPage'
  <2>1. \A r : Rank(walk.first, r)' = Rank(Shown, r)
      BY <1>1, <1>2 DEF Rank, Ahead, Before
  <2> QED BY <1>2, <1>7, <1>10, <2>1 DEF SeenUpToPage, Onward, Unsure, Tied
<1>12. SeenOrBehind'
  <2>1. \A r : Rank(Shown, r)' = Rank(Shown, r)
      BY <1>1 DEF Rank, Ahead, Before, Shown
  <2>2. Shown' = Shown
      BY <1>1 DEF Shown
  <2> QED BY <1>2, <1>7, <1>10, <2>1, <2>2 DEF SeenOrBehind
<1>13. PageHoldsItsRows' /\ NothingSkippedById' /\ QuietWalkIsExact'
    BY <1>2 DEF PageHoldsItsRows, NothingSkippedById, QuietWalkIsExact, Done
<1> QED BY <1>6, <1>8, <1>9, <1>11, <1>12, <1>13 DEF ListingInv

LEMMA FailStep == ListingInv /\ Fail => ListingInv'
<1> SUFFICES ASSUME ListingInv, Fail PROVE ListingInv'
    OBVIOUS
<1>1. UNCHANGED <<list, rows, nextId, now>> /\ walk.at \in {"count", "data"}
    BY DEF Fail
<1>2. walk \in Walks
    BY <1>1 DEF ListingInv, WalkOK
<1>3. walk' = [walk EXCEPT !.at = "done", !.got = 0, !.changes = @ \cup {"failed"}]
    BY DEF Fail
<1>4. walk' \in Walks /\ walk'.at = "done" /\ walk'.seen = walk.seen /\ "failed" \in walk'.changes
  <2>1. walk.changes \cup {"failed"} \in SUBSET {"grown", "shrunk", "failed"} /\ 0 \in 0..MaxId
      BY <1>2, ListingAssumption DEF Walks
  <2>2. walk' \in Walks
      BY <1>2, <1>3, <2>1 DEF Walks
  <2>3. walk'.at = "done" /\ walk'.seen = walk.seen /\ walk'.changes = walk.changes \cup {"failed"}
      BY <1>2, <1>3 DEF Walks
  <2> QED BY <2>2, <2>3
<1>5. WalkOK' /\ IdsGiven' /\ TypeOK'
    BY <1>1, <1>4, WalkTypes DEF ListingInv, TypeOK, WalkOK, IdsGiven
<1>6. OffsetFits' /\ StillTheFirst' /\ TotalCovers' /\ SeenUpToPage' /\ SeenOrBehind'
    BY <1>4 DEF OffsetFits, StillTheFirst, TotalCovers, SeenUpToPage, SeenOrBehind, Reading
<1>7. PageHoldsItsRows' /\ NothingSkippedById' /\ QuietWalkIsExact'
    BY <1>4 DEF PageHoldsItsRows, NothingSkippedById, QuietWalkIsExact
<1> QED BY <1>5, <1>6, <1>7 DEF ListingInv

LEMMA ForgetStep == ListingInv /\ Forget => ListingInv'
<1> SUFFICES ASSUME ListingInv, Forget PROVE ListingInv'
    OBVIOUS
<1>1. UNCHANGED <<list, rows, nextId, now>> /\ walk' = [at |-> "idle"] /\ walk'.at = "idle"
    BY DEF Forget
<1>2. WalkOK' /\ IdsGiven' /\ TypeOK'
    BY <1>1 DEF ListingInv, TypeOK, WalkOK, IdsGiven
<1>3. OffsetFits' /\ StillTheFirst' /\ TotalCovers' /\ SeenUpToPage' /\ SeenOrBehind'
    BY <1>1 DEF OffsetFits, StillTheFirst, TotalCovers, SeenUpToPage, SeenOrBehind, Reading
<1>4. PageHoldsItsRows' /\ NothingSkippedById' /\ QuietWalkIsExact'
    BY <1>1 DEF PageHoldsItsRows, NothingSkippedById, QuietWalkIsExact, Done
<1> QED BY <1>2, <1>3, <1>4 DEF ListingInv

LEMMA CountStep == ListingInv /\ Count => ListingInv'
<1> SUFFICES ASSUME ListingInv, Count PROVE ListingInv'
    OBVIOUS
<1>1. UNCHANGED <<list, rows, nextId, now>> /\ walk.at = "count"
    BY DEF Count
<1>2. walk \in Walks
    BY <1>1 DEF ListingInv, WalkOK
<1>3. walk' = [walk EXCEPT !.at = "data", !.total = Cardinality(Counted)]
    BY DEF Count
<1>4. /\ IsFiniteSet(Counted) /\ Cardinality(Counted) \in 0..MaxId
      /\ Shown \in SUBSET Counted
    BY FewRows DEF ListingInv, TypeOK, IdsGiven, Counted, Shown
<1>5. /\ walk' \in Walks /\ walk'.at = "data" /\ walk'.total = Cardinality(Counted)
      /\ walk'.upTo = walk.upTo /\ walk'.page = walk.page /\ walk'.size = walk.size
      /\ walk'.first = walk.first /\ walk'.seen = walk.seen /\ walk'.twice = walk.twice
      /\ walk'.changes = walk.changes
    BY <1>2, <1>3, <1>4 DEF Walks
<1>6. WalkOK' /\ IdsGiven' /\ TypeOK'
    BY <1>1, <1>5, WalkTypes DEF ListingInv, TypeOK, WalkOK, IdsGiven
<1>7. OffsetFits' /\ StillTheFirst'
    BY <1>1, <1>5 DEF ListingInv, OffsetFits, StillTheFirst, Reading, Onward, Shown
<1>8. TotalCovers'
  <2>1. Cardinality(Shown) <= Cardinality(Counted)
      BY <1>4, FS_Subset
  <2>2. walk.changes = {} => walk.first = Shown
      BY <1>1 DEF ListingInv, StillTheFirst, Reading
  <2> QED BY <1>5, <2>1, <2>2 DEF TotalCovers
<1>9. SeenUpToPage'
    BY <1>1, <1>5 DEF ListingInv, SeenUpToPage, Reading, Onward, Unsure, Tied, Rank, Ahead, Before
<1>10. SeenOrBehind'
    BY <1>1, <1>5 DEF ListingInv, SeenOrBehind, Reading, Shown, Rank, Ahead, Before
<1>11. PageHoldsItsRows' /\ NothingSkippedById' /\ QuietWalkIsExact'
    BY <1>5 DEF PageHoldsItsRows, NothingSkippedById, QuietWalkIsExact, Done
<1> QED BY <1>6, <1>7, <1>8, <1>9, <1>10, <1>11 DEF ListingInv

\* Rows of different ids, or of different seconds, have a place each.
LEMMA SurePlace ==
    ASSUME rows \subseteq Rows, IdsGiven, NEW r \in Shown,
           list = "apps" \/ \A q \in Shown \ {r} : q.created # r.created
    PROVE  Placed(Shown, r)
<1>1. \A x \in Shown : x.id \in Nat /\ x.created \in Nat
    BY DEF Shown, Rows
<1>2. \A x \in Shown \ {r} : x.id # r.id
    BY DEF Shown, IdsGiven
<1> QED BY <1>1, <1>2 DEF Placed, Before

LEMMA DataStep == ListingInv /\ Data => ListingInv'
<1> SUFFICES ASSUME ListingInv, Data PROVE ListingInv'
    OBVIOUS
<1>1. UNCHANGED <<list, rows, nextId, now>> /\ walk.at = "data" /\ Reading
    BY DEF Data, Reading
<1>2. PICK S \in Pages(Shown, walk.size, Offset(walk.page, walk.size)) : Receive(S)
    BY DEF Data
<1> DEFINE ids == {r.id : r \in S}  n == Cardinality(S)  start == Start(walk.page, walk.size)
           last == LastPage(n)
<1>3. walk \in Walks /\ walk.page \in Nat \ {0} /\ walk.size \in Nat \ {0} /\ walk.size \in 1..MaxInt
  <2>1. walk \in Walks
      BY <1>1 DEF ListingInv, WalkOK
  <2> QED BY <2>1, ListingAssumption DEF Walks
<1>4. /\ start \in Nat
      /\ Start(walk.page + 1, walk.size) = start + walk.size
      /\ Start(walk.page + 1, walk.size) = walk.page * walk.size
    BY <1>3, StartNext
<1>5. /\ rows \subseteq Rows /\ IdsGiven /\ Shown \in SUBSET rows
      /\ IsFiniteSet(Shown) /\ Cardinality(Shown) \in 0..MaxId
    BY FewRows DEF ListingInv, TypeOK, IdsGiven, Shown
<1>6. S \in SUBSET Shown /\ n \in 0..MaxId
  <2>1. S \in SUBSET Shown
      BY <1>2 DEF Pages
  <2> QED BY <2>1, <1>5, FewRows DEF IdsGiven
<1>7. ids \in SUBSET Nat /\ ids \subseteq 1..(nextId - 1)
  <2>1. \A r \in S : r.id \in 1..MaxId /\ r.id < nextId
      BY <1>5, <1>6 DEF Rows, IdsGiven
  <2> QED BY <2>1 DEF ListingInv, TypeOK
<1>8. walk' = [walk EXCEPT !.at = IF last THEN "done" ELSE "count",
                           !.page = IF last THEN @ ELSE @ + 1,
                           !.got = n, !.seen = @ \cup ids,
                           !.twice = @ \cup (ids \cap walk.seen)]
    BY <1>2 DEF Receive
<1> HIDE DEF ids, n, start, last
<1>9. /\ walk'.at = IF last THEN "done" ELSE "count"
      /\ walk'.page = IF last THEN walk.page ELSE walk.page + 1
      /\ walk'.got = n /\ walk'.seen = walk.seen \cup ids
      /\ walk'.twice = walk.twice \cup (ids \cap walk.seen)
      /\ walk'.upTo = walk.upTo /\ walk'.size = walk.size /\ walk'.total = walk.total
      /\ walk'.first = walk.first /\ walk'.changes = walk.changes
    BY <1>3, <1>8 DEF Walks
<1>10. walk' \in Walks
  <2>1. /\ walk.seen \cup ids \in SUBSET Nat
        /\ walk.twice \cup (ids \cap walk.seen) \in SUBSET Nat
      BY <1>3, <1>7 DEF Walks
  <2>2. /\ (IF last THEN "done" ELSE "count") \in {"count", "data", "done"}
        /\ (IF last THEN walk.page ELSE walk.page + 1) \in Nat \ {0}
      BY <1>3
  <2> QED BY <1>3, <1>6, <1>8, <2>1, <2>2 DEF Walks
<1>11. WalkOK' /\ IdsGiven' /\ TypeOK'
  <2>1. walk'.seen \subseteq 1..(nextId - 1)
      BY <1>1, <1>7, <1>9 DEF ListingInv, TypeOK
  <2> QED BY <1>1, <1>10, <2>1, WalkTypes DEF ListingInv, TypeOK, WalkOK, IdsGiven
<1>12. start <= MaxInt => S \in Pages(Shown, walk.size, start)
    BY <1>2, <1>4, WrappedExact, ListingAssumption DEF Offset, start, Start
<1>13. Onward => start <= MaxInt
  <2>1. Onward => start \in 0..(2 * MaxInt)
      BY <1>1, <1>4, ListingAssumption DEF ListingInv, OffsetFits, start
  <2>2. Wrapped(start) >= 0
      BY DEF Data, Offset, start, Start
  <2>3. start \in (MaxInt + 1)..(2 * MaxInt) => Wrapped(start) < 0
      BY WrappedExact
  <2>4. start \in 0..(2 * MaxInt) /\ ~(start <= MaxInt) => start \in (MaxInt + 1)..(2 * MaxInt)
      BY <1>4, ListingAssumption
  <2>5. Wrapped(start) >= 0 => ~(Wrapped(start) < 0)
    <3>1. Wrapped(start) \in Int
        BY <1>4, ListingAssumption DEF Wrapped
    <3> QED BY <3>1
  <2> QED BY <2>1, <2>2, <2>3, <2>4, <2>5
<1>14. ASSUME Onward, NEW r \in Shown, Placed(Shown, r)
       PROVE  /\ Rank(Shown, r) \in Nat
              /\ r.id \in ids <=> start <= Rank(Shown, r) /\ Rank(Shown, r) < start + walk.size
              /\ last /\ walk.upTo = "short" => Rank(Shown, r) < start + walk.size
  <2>1. S \in Pages(Shown, walk.size, start)
      BY <1>12, <1>13, <1>14
  <2>2. /\ Rank(Shown, r) \in Nat
        /\ r \in S <=> start <= Rank(Shown, r) /\ Rank(Shown, r) < start + walk.size
      BY <1>3, <1>4, <1>5, <1>14, <2>1, PagePlace
  <2>3. r \in S <=> r.id \in ids
      BY <1>5, <1>6 DEF ids, IdsGiven
  <2>4. ASSUME last, walk.upTo = "short" PROVE Rank(Shown, r) < start + walk.size
    <3>1. n < walk.size
        BY <2>4 DEF last, LastPage
    <3>2. Cardinality(Shown) <= start + n
        BY <1>3, <1>4, <1>5, <2>1, <3>1, PageCounts DEF n
    <3>3. Rank(Shown, r) < Cardinality(Shown)
        BY <1>5, <1>14, RankBounds DEF Placed
    <3> QED BY <1>3, <1>4, <1>5, <1>6, <2>2, <3>1, <3>2, <3>3
  <2> QED BY <2>2, <2>3, <2>4

\* Of a list that stayed as it was, the rows of one place each.
<1>15. ASSUME Onward, walk.changes = {}, NEW r \in walk.first \ Unsure
       PROVE  /\ Rank(walk.first, r) \in Nat
              /\ r.id \in walk.seen \cup ids <=> Rank(walk.first, r) < start + walk.size
              /\ r.id \notin walk.twice \cup (ids \cap walk.seen)
              /\ last => Rank(walk.first, r) < start + walk.size
  <2>1. Shown = walk.first
      BY <1>1, <1>15 DEF ListingInv, StillTheFirst
  <2>2. Placed(Shown, r)
      BY <1>5, <1>15, <2>1, SurePlace DEF Unsure, Tied
  <2>3. /\ Rank(walk.first, r) \in Nat
        /\ r.id \in ids <=> start <= Rank(walk.first, r) /\ Rank(walk.first, r) < start + walk.size
        /\ last /\ walk.upTo = "short" => Rank(walk.first, r) < start + walk.size
      BY <1>14, <1>15, <2>1, <2>2
  <2>4. /\ r.id \in walk.seen <=> Rank(walk.first, r) < start
        /\ r.id \notin walk.twice
      BY <1>1, <1>15 DEF ListingInv, SeenUpToPage, start
  <2>5. last /\ walk.upTo = "total" => Rank(walk.first, r) < start + walk.size
    <3>1. Cardinality(walk.first) <= walk.total
        BY <1>1, <1>15 DEF ListingInv, TotalCovers
    <3>2. Rank(walk.first, r) < Cardinality(walk.first)
        BY <1>5, <2>1, <2>2, RankBounds DEF Placed
    <3>3. last /\ walk.upTo = "total" => start + walk.size >= walk.total
        BY <1>4 DEF last, LastPage
    <3>4. walk.total \in Nat /\ Cardinality(walk.first) \in Nat
        BY <1>3, <1>5, <2>1 DEF Walks
    <3> QED BY <1>3, <1>4, <2>3, <3>1, <3>2, <3>3, <3>4
  <2> QED BY <1>3, <1>4, <1>15, <2>3, <2>4, <2>5 DEF Onward
<1>16. SeenUpToPage'
  <2> SUFFICES ASSUME Reading', Onward', walk'.changes = {}, NEW r \in (walk.first \ Unsure)'
               PROVE  /\ r.id \in walk'.seen <=> Rank(walk.first, r)' < Start(walk'.page, walk'.size)
                      /\ r.id \notin walk'.twice
      BY DEF SeenUpToPage
  <2>1. Onward /\ walk.changes = {} /\ r \in walk.first \ Unsure
      BY <1>1, <1>9 DEF Onward, Unsure, Tied
  <2>2. Rank(walk.first, r)' = Rank(walk.first, r)
      BY <1>1, <1>9 DEF Rank, Ahead, Before
  <2>3. ~last
      BY <1>9 DEF Reading
  <2> QED BY <1>4, <1>9, <1>15, <2>1, <2>2, <2>3
<1>17. QuietWalkIsExact'
  <2> SUFFICES ASSUME walk'.at = "done", walk'.upTo \in {"short", "total"}, walk'.changes = {},
                      NEW r \in (walk.first \ Unsure)'
               PROVE  r.id \in walk'.seen /\ r.id \notin walk'.twice
      BY DEF QuietWalkIsExact, Done
  <2>1. Onward /\ walk.changes = {} /\ r \in walk.first \ Unsure
      BY <1>1, <1>9 DEF Onward, Unsure, Tied
  <2>2. last
      BY <1>9
  <2> QED BY <1>9, <1>15, <2>1, <2>2
\* Applications, as others are created.
<1>18. ASSUME walk.upTo = "short", list = "apps", walk.changes \subseteq {"grown"},
              NEW r \in walk.first
       PROVE  /\ r \in Shown /\ Rank(Shown, r) \in Nat
              /\ Rank(Shown, r) < start + walk.size => r.id \in walk.seen \cup ids
              /\ last => Rank(Shown, r) < start + walk.size
  <2>1. /\ r \in Shown
        /\ Rank(Shown, r) < start => r.id \in walk.seen
      BY <1>1, <1>18 DEF ListingInv, SeenOrBehind, start
  <2>2. Placed(Shown, r)
      BY <1>5, <1>18, <2>1, SurePlace
  <2>3. /\ Rank(Shown, r) \in Nat
        /\ r.id \in ids <=> start <= Rank(Shown, r) /\ Rank(Shown, r) < start + walk.size
        /\ last => Rank(Shown, r) < start + walk.size
      BY <1>14, <1>18, <2>1, <2>2 DEF Onward
  <2> QED BY <1>3, <1>4, <2>1, <2>3
<1>19. SeenOrBehind'
  <2> SUFFICES ASSUME Reading', walk'.upTo = "short", list' = "apps",
                      walk'.changes \subseteq {"grown"}, NEW r \in walk'.first
               PROVE  /\ r \in Shown'
                      /\ Rank(Shown, r)' < Start(walk'.page, walk'.size) => r.id \in walk'.seen
      BY DEF SeenOrBehind
  <2>1. /\ r \in Shown
        /\ Rank(Shown, r) < start + walk.size => r.id \in walk.seen \cup ids
      BY <1>1, <1>9, <1>18
  <2>2. Shown' = Shown /\ Rank(Shown, r)' = Rank(Shown, r)
      BY <1>1 DEF Shown, Rank, Ahead, Before
  <2>3. ~last
      BY <1>9 DEF Reading
  <2> QED BY <1>4, <1>9, <2>1, <2>2, <2>3
<1>20. NothingSkippedById'
  <2> SUFFICES ASSUME walk'.at = "done", walk'.upTo = "short", list' = "apps",
                      walk'.changes \subseteq {"grown"}, NEW r \in walk'.first
               PROVE  r.id \in walk'.seen
      BY DEF NothingSkippedById, Done
  <2> QED BY <1>1, <1>9, <1>18
\* A single page.
<1>21. PageHoldsItsRows'
  <2> SUFFICES ASSUME walk'.at = "done", walk'.upTo = "page", walk'.changes = {},
                      Start(walk'.page, walk'.size) <= MaxInt
               PROVE  LET rest == Cardinality(walk'.first) - Start(walk'.page, walk'.size)
                      IN  walk'.got = IF rest <= 0 THEN 0
                                      ELSE IF rest < walk'.size THEN rest ELSE walk'.size
      BY DEF PageHoldsItsRows, Done, Start
  <2>1. last /\ walk.changes = {} /\ walk'.page = walk.page
      BY <1>9
  <2>2. Shown = walk.first
      BY <1>1, <2>1 DEF ListingInv, StillTheFirst
  <2>3. start <= MaxInt /\ Start(walk'.page, walk'.size) = start
      BY <1>9, <2>1 DEF start
  <2>4. S \in Pages(Shown, walk.size, start)
      BY <1>12, <2>3
  <2> DEFINE c == Cardinality(Shown)  z == walk.size
  <2>5. /\ n <= z
        /\ n = z => c >= start + z
        /\ n < z => c <= start + n
        /\ c <= start => n = 0
        /\ c >= start => n <= c - start
      BY <1>3, <1>4, <1>5, <2>4, PageCounts DEF n
  <2>6. c \in Nat /\ z \in Nat /\ n \in Nat /\ start \in Nat
      BY <1>3, <1>4, <1>5, <1>6
  <2>7. walk'.got = n /\ walk'.size = z /\ Cardinality(walk'.first) = c
      BY <1>9, <2>2
  <2> HIDE DEF c, z
  <2>8. n = IF c - start <= 0 THEN 0 ELSE IF c - start < z THEN c - start ELSE z
      BY <2>5, <2>6
  <2> QED BY <2>3, <2>7, <2>8
<1>22. OffsetFits'
  <2> SUFFICES ASSUME Reading', Onward' PROVE Start(walk'.page, walk'.size) <= 2 * MaxInt
      BY DEF OffsetFits
  <2>1. ~last /\ Onward
      BY <1>9 DEF Reading, Onward
  <2>2. Start(walk'.page, walk'.size) = start + walk.size
      BY <1>4, <1>9, <2>1
  <2> QED BY <1>3, <1>4, <1>13, <2>1, <2>2, ListingAssumption
<1>23. StillTheFirst'
  <2>1. Shown' = Shown
      BY <1>1 DEF Shown
  <2> QED BY <1>1, <1>9, <2>1 DEF ListingInv, StillTheFirst
<1>24. TotalCovers'
    BY <1>9 DEF TotalCovers
<1> QED BY <1>11, <1>16, <1>17, <1>19, <1>20, <1>21, <1>22, <1>23, <1>24 DEF ListingInv

----------------------------------------------------------------------------
(* The theorems.                                                            *)

LEMMA ListingInit == Init => ListingInv
<1> SUFFICES ASSUME Init PROVE ListingInv
    OBVIOUS
<1>1. walk.at = "idle" /\ WalkOK /\ IdsGiven
    BY DEF Init, WalkOK, IdsGiven
<1>2. TypeOK
    BY <1>1, ListingAssumption DEF Init, TypeOK
<1>3. OffsetFits /\ StillTheFirst /\ TotalCovers /\ SeenUpToPage /\ SeenOrBehind
    BY <1>1 DEF OffsetFits, StillTheFirst, TotalCovers, SeenUpToPage, SeenOrBehind, Reading
<1>4. PageHoldsItsRows /\ NothingSkippedById /\ QuietWalkIsExact
    BY <1>1 DEF PageHoldsItsRows, NothingSkippedById, QuietWalkIsExact, Done
<1> QED BY <1>1, <1>2, <1>3, <1>4 DEF ListingInv

LEMMA ListingNext == ListingInv /\ [Next]_vars => ListingInv'
<1> SUFFICES ASSUME ListingInv, [Next]_vars PROVE ListingInv'
    OBVIOUS
<1>1. CASE Insert
    BY <1>1, InsertStep
<1>2. CASE Delete
    BY <1>2, DeleteStep
<1>3. CASE DeleteRole
    BY <1>3, DeleteRoleStep
<1>4. CASE Tick
    BY <1>4, TickStep
<1>5. ASSUME NEW size \in Sizes, NEW upTo \in {"short", "total"}, Ask(upTo, 0, size)
      PROVE  ListingInv'
    BY <1>5, AskStep, ListingAssumption
<1>6. ASSUME NEW size \in Sizes, NEW page \in 1..MaxPage, Ask("page", page, size)
      PROVE  ListingInv'
    BY <1>6, AskStep, ListingAssumption
<1>7. CASE Count
    BY <1>7, CountStep
<1>8. CASE Data
    BY <1>8, DataStep
<1>9. CASE Fail
    BY <1>9, FailStep
<1>10. CASE Forget
    BY <1>10, ForgetStep
<1>11. CASE UNCHANGED vars
  <2>1. UNCHANGED <<list, rows, nextId, now, walk>>
      BY <1>11 DEF vars
  <2>2. TypeOK' /\ WalkOK' /\ IdsGiven' /\ OffsetFits'
      BY <2>1 DEF ListingInv, TypeOK, WalkOK, IdsGiven, OffsetFits, Reading, Onward
  <2>3. StillTheFirst' /\ TotalCovers' /\ SeenUpToPage' /\ SeenOrBehind'
      BY <2>1 DEF ListingInv, StillTheFirst, TotalCovers, SeenUpToPage, SeenOrBehind,
                  Reading, Onward, Shown, Unsure, Tied, Rank, Ahead, Before
  <2>4. PageHoldsItsRows' /\ NothingSkippedById' /\ QuietWalkIsExact'
      BY <2>1 DEF ListingInv, PageHoldsItsRows, NothingSkippedById, QuietWalkIsExact,
                  Done, Unsure, Tied
  <2> QED BY <2>2, <2>3, <2>4 DEF ListingInv
<1> QED BY <1>1, <1>2, <1>3, <1>4, <1>5, <1>6, <1>7, <1>8, <1>9, <1>10, <1>11 DEF Next

LEMMA ListingAlways == Spec => []ListingInv
<1> QED BY ListingInit, ListingNext, PTL DEF Spec

\* The types of the lists and of the reading, in all tables: every row a client
\* has seen is one that was inserted, and no total exceeds the rows inserted.
THEOREM ListingTypes == Spec => []TypeOK
<1>1. ListingInv => TypeOK
    BY DEF ListingInv
<1> QED BY <1>1, ListingAlways, PTL

\* A page that was asked for alone has exactly the rows of its place, for every
\* page and size whose offset fits in an int32_t.
THEOREM PagesHoldTheirRows == Spec => []PageHoldsItsRows
<1>1. ListingInv => PageHoldsItsRows
    BY DEF ListingInv
<1> QED BY <1>1, ListingAlways, PTL

\* However many applications are created between its pages, a reader of listApps
\* who goes on to a short page has had every application it began with.
THEOREM NoApplicationIsSkipped == Spec => []NothingSkippedById
<1>1. ListingInv => NothingSkippedById
    BY DEF ListingInv
<1> QED BY <1>1, ListingAlways, PTL

\* A list that nobody changes is read completely and, but for rows of one
\* second, each row once, by either way of telling the end; the reader stops
\* before an offset wraps around to a place it has passed.
THEOREM QuietListsAreReadOnce == Spec => []QuietWalkIsExact
<1>1. ListingInv => QuietWalkIsExact
    BY DEF ListingInv
<1> QED BY <1>1, ListingAlways, PTL
=============================================================================
