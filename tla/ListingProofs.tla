---------------------------- MODULE ListingProofs ----------------------------
(***************************************************************************)
(* Proofs about Listing, for any number of rows, keys, changes and pages.  *)
(*                                                                         *)
(* Both properties rest on the place of a row: how many rows the order     *)
(* puts ahead of it.  A page is an interval of places.                     *)
(***************************************************************************)
EXTENDS Listing, FiniteSetTheorems, FunctionTheorems, SequenceTheorems, TLAPS

Before(i, j) == IF order = "asc" THEN key[i] < key[j] ELSE key[i] > key[j]

Ahead(i) == {j \in Listed : Before(j, i)}

Place(i) == Cardinality(Ahead(i)) + 1

\* What a walk has passed it has got: a row that was there from the start and
\* whose place is behind the client is among the rows the client has.
NothingSkipped ==
    \A i \in begun : Place(i) <= walk.skip => i \in ToSet(walk.got)

\* The count that has_more is computed from reaches every row from the start.
CountReaches ==
    \A i \in begun : /\ walk.pc = "page" => Place(i) <= walk.total
                     /\ walk.pc = "done" => Place(i) <= walk.skip

MissedInv ==
    ~seen.moved /\ ~seen.tied /\ (order = "asc" \/ ~seen.torn) =>
        begun \subseteq Listed /\ NothingSkipped /\ CountReaches

\* The rows that the client has stay behind it.
GotBehind ==
    \A n \in DOMAIN walk.got : /\ walk.got[n] \in Listed
                               /\ Place(walk.got[n]) <= walk.skip

TwiceInv ==
    ~seen.moved /\ ~seen.tied /\ (order = "asc" \/ ~seen.added) =>
        GotBehind /\ IsInjective(walk.got)

WalkInv == TypeOK /\ MissedInv /\ TwiceInv

-----------------------------------------------------------------------------
\* The rows of a listing are finitely many, and so are those ahead of one.
LEMMA ListedFinite ==
    /\ IsFiniteSet(Listed) /\ Listed \subseteq Id
    /\ Cardinality(Listed) \in 0..Cardinality(Id)
<1>1. IsFiniteSet(Id) /\ Listed \in SUBSET Id
  BY ListingAssumption DEF Listed
<1>2. IsFiniteSet(Listed) /\ Cardinality(Listed) <= Cardinality(Id)
  BY <1>1, FS_Subset
<1>3. Cardinality(Listed) \in Nat /\ Cardinality(Id) \in Nat
  BY <1>1, <1>2, FS_CardinalityType
<1>4. QED
  BY <1>1, <1>2, <1>3

\* The place of a listed row is at least 1 and at most the number of rows.
LEMMA PlaceBound ==
    ASSUME TypeOK, NEW i \in Listed
    PROVE  Place(i) \in 1..Cardinality(Listed)
<1>1. key[i] \in Key
  BY DEF TypeOK, Listed
<1>2. Ahead(i) \subseteq Listed \ {i}
  BY <1>1, SMT DEF Ahead, Before, Key
<1>3. IsFiniteSet(Listed \ {i}) /\ Cardinality(Listed \ {i}) = Cardinality(Listed) - 1
  BY ListedFinite, FS_RemoveElement
<1>4. IsFiniteSet(Ahead(i)) /\ Cardinality(Ahead(i)) <= Cardinality(Listed) - 1
  BY <1>2, <1>3, FS_Subset
<1>5. Cardinality(Ahead(i)) \in Nat
  BY <1>4, FS_CardinalityType
<1>6. QED
  BY <1>4, <1>5, ListedFinite, SMT DEF Place

\* The select returns every row of the listing once.
LEMMA SelectedRows ==
    ASSUME NEW s \in SetToSeqs(Listed)
    PROVE  /\ s \in Seq(Listed) /\ s \in Seq(Id)
           /\ Len(s) = Cardinality(Listed)
           /\ \A p, q \in 1..Len(s) : s[p] = s[q] => p = q
           /\ \A i \in Listed : \E p \in 1..Len(s) : s[p] = i
<1> DEFINE n == Cardinality(Listed)
<1>1. n \in Nat /\ IsFiniteSet(Listed) /\ Listed \subseteq Id
  BY ListedFinite
<1>2. /\ s \in [1..n -> Listed]
      /\ \A p, q \in 1..n : s[p] = s[q] => p = q
  BY DEF SetToSeqs
<1>3. s \in Injection(1..n, Listed)
  BY <1>2, Fun_IsInj
<1>4. Cardinality(1..n) = n
  BY <1>1, FS_Interval
<1>5. s \in Surjection(1..n, Listed)
  BY <1>1, <1>3, <1>4, FS_Injection
<1>6. \A i \in Listed : \E p \in 1..n : s[p] = i
  BY <1>5 DEF Surjection
<1>7. s \in Seq(Listed) /\ Len(s) = n
  <2> HIDE DEF n
  <2>1. QED
    BY <1>1, <1>2, SMT
<1>8. s \in Seq(Id)
  BY <1>1, <1>7, SeqMonotonic
<1>9. QED
  BY <1>2, <1>6, <1>7, <1>8

\* In a select whose keys differ, a row stands at its place.
LEMMA PlaceIsRank ==
    ASSUME TypeOK, ~Tied, NEW s \in SetToSeqs(Listed), Sorted(s),
           NEW p \in 1..Len(s)
    PROVE  Place(s[p]) = p
<1> DEFINE f == [q \in 1..(p - 1) |-> s[q]]
<1>1. /\ s \in Seq(Listed) /\ Len(s) = Cardinality(Listed) /\ Len(s) \in Nat
      /\ \A q, r \in 1..Len(s) : s[q] = s[r] => q = r
      /\ \A i \in Listed : \E q \in 1..Len(s) : s[q] = i
  BY SelectedRows, ListedFinite
<1>2. /\ DOMAIN s = 1..Len(s)
      /\ \A q \in 1..Len(s) : s[q] \in Listed /\ key[s[q]] \in Key
  <2>1. DOMAIN s = 1..Len(s) /\ \A q \in 1..Len(s) : s[q] \in Listed
    BY <1>1, LenProperties, ElementOfSeq
  <2>2. \A i \in Listed : key[i] \in Key
    BY DEF TypeOK, Listed
  <2>3. QED
    BY <2>1, <2>2
<1>3. \A q, r \in 1..Len(s) : q < r => Before(s[q], s[r])
  <2> SUFFICES ASSUME NEW q \in 1..Len(s), NEW r \in 1..Len(s), q < r
               PROVE  Before(s[q], s[r])
    OBVIOUS
  <2>1. s[q] # s[r]
    BY <1>1
  <2>2. key[s[q]] # key[s[r]]
    BY <1>2, <2>1 DEF Tied
  <2>3. IF order = "asc" THEN key[s[q]] <= key[s[r]] ELSE key[s[q]] >= key[s[r]]
    BY <1>2 DEF Sorted
  <2>4. key[s[q]] \in Nat /\ key[s[r]] \in Nat
    BY <1>2 DEF Key
  <2>5. QED
    BY <2>2, <2>3, <2>4, SMT DEF Before
<1>4. \A q \in 1..Len(s) : Before(s[q], s[p]) <=> q < p
  <2> SUFFICES ASSUME NEW q \in 1..Len(s)
               PROVE  Before(s[q], s[p]) <=> q < p
    OBVIOUS
  <2>1. q < p \/ q = p \/ p < q
    BY <1>1
  <2>2. key[s[q]] \in Nat /\ key[s[p]] \in Nat
    BY <1>2 DEF Key
  <2>3. ~(Before(s[q], s[p]) /\ Before(s[p], s[q]))
    BY <2>2, SMT DEF Before
  <2>4. q = p => ~Before(s[q], s[p])
    BY <2>2, SMT DEF Before
  <2>5. QED
    BY <1>3, <2>1, <2>3, <2>4, SMT
<1>5. f \in [1..(p - 1) -> Ahead(s[p])]
  BY <1>1, <1>2, <1>4 DEF Ahead
<1>6. \A q, r \in 1..(p - 1) : f[q] = f[r] => q = r
  BY <1>1
<1>7. \A i \in Ahead(s[p]) : \E q \in 1..(p - 1) : f[q] = i
  <2> SUFFICES ASSUME NEW i \in Ahead(s[p])
               PROVE  \E q \in 1..(p - 1) : f[q] = i
    OBVIOUS
  <2>1. i \in Listed /\ Before(i, s[p])
    BY DEF Ahead
  <2>2. PICK q \in 1..Len(s) : s[q] = i
    BY <1>1, <2>1
  <2>3. q \in 1..(p - 1)
    BY <1>1, <1>4, <2>1, <2>2
  <2>4. QED
    BY <2>2, <2>3
<1>8. f \in Bijection(1..(p - 1), Ahead(s[p]))
  BY <1>5, <1>6, <1>7, Fun_IsBij
<1>9. ExistsBijection(1..(p - 1), Ahead(s[p]))
  BY <1>8, Fun_ExistsBij
<1>10. p - 1 \in Nat
  BY <1>1
<1>11. Cardinality(Ahead(s[p])) = p - 1
  BY <1>9, <1>10, FS_CountingElements
<1>12. QED
  BY <1>10, <1>11, SMT DEF Place

-----------------------------------------------------------------------------
\* What OFFSET and LIMIT cut out of the select.
LEMMA PageCut ==
    ASSUME TypeOK, NEW s \in SetToSeqs(Listed)
    PROVE  /\ Page(s) \in Seq(Id)
           /\ Len(Page(s)) \in 0..Limit
           /\ \A n \in 1..Len(Page(s)) : /\ walk.skip + n \in 1..Len(s)
                                         /\ Page(s)[n] = s[walk.skip + n]
           /\ \A p \in 1..Len(s) :
                  p > walk.skip /\ p <= walk.skip + Limit
                  => p - walk.skip \in 1..Len(Page(s))
<1> DEFINE first == walk.skip + 1
           last  == IF walk.skip + Limit < Len(s) THEN walk.skip + Limit ELSE Len(s)
<1>1. s \in Seq(Id) /\ Len(s) \in Nat /\ walk.skip \in Nat /\ Limit \in Nat \ {0}
  BY SelectedRows, ListedFinite, ListingAssumption DEF TypeOK
<1>2. /\ first \in Int /\ last \in Int /\ first >= 1 /\ last <= Len(s)
      /\ last - first + 1 <= Limit
  BY <1>1, SMT
<1>3. \A n \in first..last : s[n] \in Id
  <2> SUFFICES ASSUME NEW n \in first..last PROVE s[n] \in Id
    OBVIOUS
  <2>1. n \in 1..Len(s)
    BY <1>1, <1>2
  <2>2. QED
    BY <1>1, <2>1, ElementOfSeq
<1>4. Page(s) = SubSeq(s, first, last)
  BY DEF Page
<1> HIDE DEF first, last
<1>5. /\ SubSeq(s, first, last) \in Seq(Id)
      /\ Len(SubSeq(s, first, last)) = IF first <= last THEN last - first + 1 ELSE 0
      /\ \A n \in 1..(last - first + 1) : SubSeq(s, first, last)[n] = s[first + n - 1]
  BY <1>2, <1>3, SubSeqProperties
<1>6. Len(Page(s)) \in 0..Limit
  BY <1>1, <1>2, <1>4, <1>5, SMT
<1>7. ASSUME NEW n \in 1..Len(Page(s))
      PROVE  walk.skip + n \in 1..Len(s) /\ Page(s)[n] = s[walk.skip + n]
  <2>1. n \in 1..(last - first + 1)
    BY <1>2, <1>4, <1>5, SMT
  <2>2. n \in Int /\ n >= 1 /\ n <= last - first + 1
    BY <1>2, <2>1, SMT
  <2>3. first = walk.skip + 1 /\ walk.skip + n >= 1 /\ walk.skip + n <= Len(s)
    BY <1>1, <1>2, <2>2, SMT DEF first
  <2>4. first + n - 1 = walk.skip + n /\ walk.skip + n \in Int
    BY <1>1, <2>2, <2>3, SMT
  <2>5. Page(s)[n] = s[walk.skip + n]
    BY <1>4, <1>5, <2>1, <2>4
  <2>6. QED
    BY <1>1, <2>3, <2>4, <2>5
<1>8. ASSUME NEW p \in 1..Len(s), p > walk.skip, p <= walk.skip + Limit
      PROVE  p - walk.skip \in 1..Len(Page(s))
  <2>1. p <= last
    BY <1>1, <1>8, SMT DEF last
  <2>2. QED
    BY <1>1, <1>2, <1>4, <1>5, <1>8, <2>1, SMT DEF first
<1>9. QED
  BY <1>4, <1>5, <1>6, <1>7, <1>8

\* A page of distinct keys holds exactly the rows whose places are its own.
LEMMA PageIsInterval ==
    ASSUME TypeOK, ~Tied, NEW s \in SetToSeqs(Listed), Sorted(s)
    PROVE  /\ \A n \in 1..Len(Page(s)) : /\ Page(s)[n] \in Listed
                                         /\ Place(Page(s)[n]) = walk.skip + n
           /\ \A i \in Listed :
                  Place(i) > walk.skip /\ Place(i) <= walk.skip + Limit
                  => \E n \in 1..Len(Page(s)) : Page(s)[n] = i
<1>1. /\ s \in Seq(Listed)
      /\ \A i \in Listed : \E p \in 1..Len(s) : s[p] = i
  BY SelectedRows
<1>2. \A p \in 1..Len(s) : s[p] \in Listed /\ Place(s[p]) = p
  BY <1>1, ElementOfSeq, PlaceIsRank
<1>3. ASSUME NEW n \in 1..Len(Page(s))
      PROVE  Page(s)[n] \in Listed /\ Place(Page(s)[n]) = walk.skip + n
  BY <1>2, PageCut
<1>4. ASSUME NEW i \in Listed, Place(i) > walk.skip, Place(i) <= walk.skip + Limit
      PROVE  \E n \in 1..Len(Page(s)) : Page(s)[n] = i
  <2>1. PICK p \in 1..Len(s) : s[p] = i
    BY <1>1
  <2>2. p > walk.skip /\ p <= walk.skip + Limit
    BY <1>2, <1>4, <2>1
  <2>3. p - walk.skip \in 1..Len(Page(s))
    BY <2>2, PageCut
  <2>4. Page(s)[p - walk.skip] = s[walk.skip + (p - walk.skip)]
    BY <2>3, PageCut
  <2>5. walk.skip + (p - walk.skip) = p
    BY SMT DEF TypeOK
  <2>6. QED
    BY <2>1, <2>3, <2>4, <2>5
<1>5. QED
  BY <1>3, <1>4

-----------------------------------------------------------------------------
LEMMA InitWalk == Init => WalkInv
<1> SUFFICES ASSUME Init PROVE WalkInv
  OBVIOUS
<1>1. Cardinality(Id) \in Nat
  BY ListingAssumption, FS_CardinalityType
<1>2. TypeOK
  BY <1>1, ListingAssumption, EmptySeq, SMT DEF Init, TypeOK, Listed
<1>3. walk.skip = 0 /\ walk.pc = "count" /\ walk.got = <<>> /\ begun = Listed
  BY DEF Init
<1>4. MissedInv
  BY <1>2, <1>3, PlaceBound, ListedFinite, SMT DEF MissedInv, NothingSkipped, CountReaches
<1>5. DOMAIN walk.got = {}
  BY <1>3, EmptySeq
<1>6. TwiceInv
  BY <1>5 DEF TwiceInv, GotBehind, IsInjective
<1>7. QED
  BY <1>2, <1>4, <1>6 DEF WalkInv

\* Places depend on the keys and the order alone.
LEMMA PlaceUnchanged ==
    ASSUME UNCHANGED <<order, key>>
    PROVE  Listed' = Listed /\ \A i : Place(i)' = Place(i)
BY DEF Listed, Place, Ahead, Before

LEMMA CountRowsKeeps ==
    ASSUME WalkInv, CountRows
    PROVE  WalkInv'
<1>1. /\ TypeOK /\ walk.pc = "count"
      /\ walk' = [walk EXCEPT !.pc = "page", !.total = Cardinality(Listed)]
      /\ UNCHANGED <<order, key, begun, changes, seen>>
  BY DEF WalkInv, CountRows
<1>2. /\ walk'.pc = "page" /\ walk'.total = Cardinality(Listed)
      /\ walk'.skip = walk.skip /\ walk'.got = walk.got
  BY <1>1 DEF TypeOK
<1>3. TypeOK'
  BY <1>1, ListedFinite DEF TypeOK, Key
<1>4. Listed' = Listed /\ \A i : Place(i)' = Place(i)
  BY <1>1, PlaceUnchanged
<1>5. MissedInv'
  <2> SUFFICES ASSUME (~seen.moved /\ ~seen.tied /\ (order = "asc" \/ ~seen.torn))'
               PROVE  (begun \subseteq Listed /\ NothingSkipped /\ CountReaches)'
    BY DEF MissedInv
  <2>1. begun \subseteq Listed /\ NothingSkipped
    BY <1>1 DEF WalkInv, MissedInv
  <2>2. \A i \in begun : Place(i) <= Cardinality(Listed)
    BY <1>1, <2>1, PlaceBound
  <2>3. QED
    BY <1>1, <1>2, <1>4, <2>1, <2>2 DEF NothingSkipped, CountReaches
<1>6. TwiceInv'
  BY <1>1, <1>2, <1>4 DEF WalkInv, TwiceInv, GotBehind, IsInjective
<1>7. QED
  BY <1>3, <1>5, <1>6 DEF WalkInv

\* The page that is appended lies behind the client afterwards.
LEMMA SelectPageKeeps ==
    ASSUME WalkInv, SelectPage
    PROVE  WalkInv'
<1>1. TypeOK /\ walk.pc = "page" /\ UNCHANGED <<order, key, begun, changes>>
  BY DEF WalkInv, SelectPage
<1>2. PICK s \in SetToSeqs(Listed) :
          /\ Sorted(s)
          /\ walk' = [walk EXCEPT !.got = walk.got \o Page(s),
                                  !.pc = IF HasMore THEN "count" ELSE "done",
                                  !.skip = walk.skip + Limit]
  BY DEF SelectPage
<1>3. seen' = [seen EXCEPT !.tied = seen.tied \/ Tied]
  BY DEF SelectPage
<1>4. /\ walk'.got = walk.got \o Page(s)
      /\ walk'.pc = (IF HasMore THEN "count" ELSE "done")
      /\ walk'.skip = walk.skip + Limit /\ walk'.total = walk.total
  BY <1>1, <1>2 DEF TypeOK
<1>5. /\ seen'.moved = seen.moved /\ seen'.added = seen.added
      /\ seen'.torn = seen.torn /\ (~seen'.tied => ~seen.tied /\ ~Tied)
  BY <1>1, <1>3 DEF TypeOK
<1>6. /\ walk.got \in Seq(Id) /\ Page(s) \in Seq(Id)
      /\ walk.skip \in Nat /\ Limit \in Nat
  BY <1>1, PageCut, ListingAssumption DEF TypeOK
<1> DEFINE old == Len(walk.got)
           new == Len(Page(s))
           got == walk.got \o Page(s)
<1>7. /\ got \in Seq(Id) /\ Len(got) = old + new
      /\ old \in Nat /\ new \in Nat
      /\ DOMAIN walk.got = 1..old /\ DOMAIN got = 1..(old + new)
  BY <1>6, ConcatProperties, LenProperties
<1>8. /\ \A n \in 1..old : got[n] = walk.got[n] /\ n \in 1..(old + new)
      /\ \A n \in 1..new : got[old + n] = Page(s)[n] /\ old + n \in 1..(old + new)
  <2>1. \A n \in 1..(old + new) :
            got[n] = IF n <= old THEN walk.got[n] ELSE Page(s)[n - old]
    BY <1>6, ConcatProperties
  <2> HIDE DEF old, new, got
  <2>2. \A n \in 1..old : got[n] = walk.got[n] /\ n \in 1..(old + new)
    BY <1>7, <2>1
  <2>3. ASSUME NEW n \in 1..new
        PROVE  got[old + n] = Page(s)[n] /\ old + n \in 1..(old + new)
    <3>1. old + n \in 1..(old + new) /\ ~(old + n <= old) /\ (old + n) - old = n
      BY <1>7, SMT
    <3>2. QED
      BY <2>1, <3>1
  <2>4. QED
    BY <2>2, <2>3
<1>9. \A n \in 1..(old + new) : n \in 1..old \/ (n - old \in 1..new /\ n = old + (n - old))
  <2> HIDE DEF old, new, got
  <2>1. QED
    BY <1>7, SMT
<1>10. TypeOK'
  <2>1. walk' \in [pc: {"count", "page", "done"}, skip: Nat,
                   total: 0..Cardinality(Id), got: Seq(Id)]
    <3>1. got \in Seq(Id) /\ walk.skip + Limit \in Nat
      BY <1>6, <1>7
    <3> DEFINE pc == IF HasMore THEN "count" ELSE "done"
    <3>2. /\ walk \in [pc: {"count", "page", "done"}, skip: Nat,
                      total: 0..Cardinality(Id), got: Seq(Id)]
          /\ walk' = [walk EXCEPT !.got = got, !.pc = pc, !.skip = walk.skip + Limit]
      BY <1>1, <1>2 DEF TypeOK
    <3>3. pc \in {"count", "page", "done"}
      OBVIOUS
    <3> HIDE DEF pc, got
    <3>4. QED
      BY <3>1, <3>2, <3>3
  <2>2. seen' \in [moved: BOOLEAN, added: BOOLEAN, torn: BOOLEAN, tied: BOOLEAN]
    BY <1>1, <1>3 DEF TypeOK
  <2>3. QED
    BY <1>1, <2>1, <2>2 DEF TypeOK, Key
<1>11. Listed' = Listed /\ \A i : Place(i)' = Place(i)
  BY <1>1, PlaceUnchanged
<1>12. \A i \in Listed : Place(i) \in Nat
  BY <1>1, PlaceBound, ListedFinite
<1>13. MissedInv'
  <2> SUFFICES ASSUME (~seen.moved /\ ~seen.tied /\ (order = "asc" \/ ~seen.torn))'
               PROVE  (begun \subseteq Listed /\ NothingSkipped /\ CountReaches)'
    BY DEF MissedInv
  <2>1. begun \subseteq Listed /\ NothingSkipped /\ CountReaches /\ ~Tied
    BY <1>1, <1>5 DEF WalkInv, MissedInv
  <2>2. ASSUME NEW i \in begun, Place(i) <= walk.skip + Limit
        PROVE  i \in ToSet(got)
    <3>1. CASE Place(i) <= walk.skip
      <4>1. PICK n \in 1..old : walk.got[n] = i
        BY <1>7, <2>1, <3>1 DEF NothingSkipped, ToSet
      <4>2. QED
        BY <1>7, <1>8, <4>1 DEF ToSet
    <3>2. CASE ~(Place(i) <= walk.skip)
      <4>1. i \in Listed /\ Place(i) > walk.skip
        BY <1>6, <1>12, <2>1, <3>2
      <4>2. PICK n \in 1..new : Page(s)[n] = i
        BY <1>1, <1>2, <2>1, <2>2, <4>1, PageIsInterval
      <4>3. QED
        BY <1>7, <1>8, <4>2 DEF ToSet
    <3>3. QED
      BY <3>1, <3>2
  <2>3. NothingSkipped'
    BY <1>1, <1>4, <1>11, <2>2 DEF NothingSkipped
  <2>4. CountReaches'
    <3> SUFFICES ASSUME NEW i \in begun
                 PROVE  /\ walk'.pc # "page"
                        /\ walk'.pc = "done" => Place(i) <= walk'.skip
      BY <1>1, <1>11 DEF CountReaches
    <3>1. Place(i) <= walk.total /\ Place(i) \in Nat /\ walk.total \in Nat
      <4>1. Cardinality(Id) \in Nat
        BY ListingAssumption, FS_CardinalityType
      <4>2. QED
        BY <1>1, <1>12, <2>1, <4>1 DEF CountReaches, TypeOK
    <3>2. walk'.pc = "done" => ~HasMore
      BY <1>4
    <3>3. ~HasMore => Place(i) <= walk.skip + Limit
      BY <1>6, <3>1, SMT DEF HasMore
    <3>4. QED
      BY <1>4, <3>2, <3>3
  <2>5. QED
    BY <1>1, <1>11, <2>1, <2>3, <2>4
<1>14. TwiceInv'
  <2> SUFFICES ASSUME (~seen.moved /\ ~seen.tied /\ (order = "asc" \/ ~seen.added))'
               PROVE  (GotBehind /\ IsInjective(walk.got))'
    BY DEF TwiceInv
  <2>1. GotBehind /\ IsInjective(walk.got) /\ ~Tied
    BY <1>1, <1>5 DEF WalkInv, TwiceInv
  <2>2. \A n \in 1..old : got[n] \in Listed /\ Place(got[n]) <= walk.skip
    BY <1>7, <1>8, <2>1 DEF GotBehind
  <2>3. \A n \in 1..new : /\ got[old + n] \in Listed
                          /\ Place(got[old + n]) = walk.skip + n
                          /\ n <= Limit
    <3>1. \A n \in 1..new : Page(s)[n] \in Listed /\ Place(Page(s)[n]) = walk.skip + n
      BY <1>1, <1>2, <2>1, PageIsInterval
    <3>2. new \in 0..Limit
      BY <1>1, PageCut
    <3> HIDE DEF old, new, got
    <3>3. \A n \in 1..new : n <= Limit
      BY <1>6, <3>2
    <3>4. QED
      BY <1>8, <3>1, <3>3
  <2> HIDE DEF old, new, got
  <2>4. ASSUME NEW n \in 1..(old + new)
        PROVE  got[n] \in Listed /\ Place(got[n]) <= walk.skip + Limit
    <3>1. CASE n \in 1..old
      BY <1>6, <1>12, <2>2, <3>1
    <3>2. CASE n - old \in 1..new /\ n = old + (n - old)
      <4>1. got[n] \in Listed /\ Place(got[n]) = walk.skip + (n - old) /\ n - old <= Limit
        BY <2>3, <3>2
      <4>2. QED
        BY <1>6, <1>7, <3>2, <4>1
    <3>3. QED
      BY <1>9, <3>1, <3>2
  <2>5. ASSUME NEW n \in 1..(old + new), NEW m \in 1..(old + new), got[n] = got[m]
        PROVE  n = m
    <3>1. CASE n \in 1..old /\ m \in 1..old
      BY <1>7, <1>8, <2>1, <2>5, <3>1 DEF IsInjective
    <3>2. CASE n - old \in 1..new /\ m - old \in 1..new
      <4>1. /\ Place(got[n]) = walk.skip + (n - old)
            /\ Place(got[m]) = walk.skip + (m - old)
        BY <1>7, <2>3, <3>2
      <4>2. QED
        BY <1>6, <1>7, <2>5, <4>1
    <3>3. CASE n \in 1..old /\ m - old \in 1..new
      <4>1. Place(got[n]) <= walk.skip /\ Place(got[m]) = walk.skip + (m - old)
        BY <1>7, <2>2, <2>3, <3>3
      <4>2. QED
        BY <1>6, <1>7, <2>5, <3>3, <4>1
    <3>4. CASE m \in 1..old /\ n - old \in 1..new
      <4>1. Place(got[m]) <= walk.skip /\ Place(got[n]) = walk.skip + (n - old)
        BY <1>7, <2>2, <2>3, <3>4
      <4>2. QED
        BY <1>6, <1>7, <2>5, <3>4, <4>1
    <3>5. QED
      BY <1>9, <3>1, <3>2, <3>3, <3>4
  <2>6. walk'.got = got
    BY <1>4 DEF got
  <2>7. GotBehind'
    BY <1>4, <1>7, <1>11, <2>4, <2>6 DEF GotBehind
  <2>8. IsInjective(walk.got)'
    BY <1>7, <2>5, <2>6 DEF IsInjective
  <2>9. QED
    BY <2>7, <2>8
<1>15. QED
  BY <1>10, <1>13, <1>14 DEF WalkInv

\* Every change keeps the types and the walk.
LEMMA ChangedKeeps ==
    ASSUME TypeOK, NEW i \in Id, NEW k \in Key \cup {None}, Changed(i, k)
    PROVE  /\ key' \in [Id -> Key \cup {None}]
           /\ key'[i] = k /\ \A j \in Id \ {i} : key'[j] = key[j]
           /\ changes' \in 0..MaxChanges
           /\ walk.pc # "done" /\ UNCHANGED <<order, walk, begun>>
<1>1. changes' \in 0..MaxChanges
  BY ListingAssumption, SMT DEF TypeOK, Changed
<1>2. QED
  BY <1>1 DEF TypeOK, Changed

\* A change that moved rows ends both promises.
LEMMA MovedKeeps ==
    ASSUME TypeOK, NEW i \in Id, NEW k \in Key \cup {None}, Changed(i, k),
           seen' = [seen EXCEPT !.moved = TRUE]
    PROVE  WalkInv'
<1>1. seen' \in [moved: BOOLEAN, added: BOOLEAN, torn: BOOLEAN, tied: BOOLEAN]
      /\ seen'.moved
  BY DEF TypeOK
<1>2. TypeOK'
  BY <1>1, ChangedKeeps DEF TypeOK, Key
<1>3. QED
  BY <1>1, <1>2 DEF WalkInv, MissedInv, TwiceInv

LEMMA RemoveRowKeeps ==
    ASSUME WalkInv, NEW i \in Id, RemoveRow(i)
    PROVE  WalkInv'
BY MovedKeeps DEF WalkInv, RemoveRow

LEMMA MoveRowKeeps ==
    ASSUME WalkInv, NEW i \in Id, MoveRow(i)
    PROVE  WalkInv'
BY MovedKeeps DEF WalkInv, MoveRow

\* A new row with the highest key leaves the places of the others alone in
\* ascending order, and moves each one place on in descending order.
LEMMA NewRowPlaces ==
    ASSUME TypeOK, NEW i \in Id, NEW k \in Key, key[i] = None, Changed(i, k),
           \A j \in Listed : ~(key[j] >= k)
    PROVE  /\ Listed' = Listed \cup {i}
           /\ \A j \in Listed :
                  Place(j)' = IF order = "asc" THEN Place(j) ELSE Place(j) + 1
<1>1. /\ key'[i] = k /\ \A j \in Id \ {i} : key'[j] = key[j]
      /\ order' = order
  BY ChangedKeeps
<1>2. k \in Nat /\ k # None
  BY ListingAssumption DEF Key
<1>3. i \notin Listed /\ Listed \subseteq Id /\ \A j \in Listed : key[j] \in Nat
  BY DEF Listed, TypeOK, Key
<1>4. Listed' = Listed \cup {i}
  BY <1>1, <1>2, <1>3 DEF Listed
<1>5. ASSUME NEW j \in Listed
      PROVE  Ahead(j)' = IF order = "asc" THEN Ahead(j) ELSE Ahead(j) \cup {i}
  <2>1. \A h \in Listed : Before(h, j)' <=> Before(h, j)
    BY <1>1, <1>3 DEF Before
  <2>2. Before(i, j)' <=> order # "asc"
    <3>1. key'[i] = k /\ key'[j] = key[j] /\ key[j] \in Nat /\ ~(key[j] >= k)
      BY <1>1, <1>3
    <3>2. QED
      BY <1>1, <1>2, <3>1, SMT DEF Before
  <2>3. QED
    BY <1>4, <2>1, <2>2 DEF Ahead
<1>6. ASSUME NEW j \in Listed
      PROVE  Place(j)' = IF order = "asc" THEN Place(j) ELSE Place(j) + 1
  <2>1. Ahead(j) \subseteq Listed /\ i \notin Ahead(j)
    BY <1>3 DEF Ahead
  <2>2. IsFiniteSet(Ahead(j))
    BY <2>1, ListedFinite, FS_Subset
  <2>3. Cardinality(Ahead(j) \cup {i}) = Cardinality(Ahead(j)) + 1
    BY <2>1, <2>2, FS_AddElement
  <2>4. QED
    BY <1>5, <2>3 DEF Place
<1>7. QED
  BY <1>4, <1>6

LEMMA AddRowKeeps ==
    ASSUME WalkInv, NEW i \in Id, AddRow(i)
    PROVE  WalkInv'
<1>1. TypeOK /\ key[i] = None
  BY DEF WalkInv, AddRow
<1>2. PICK k \in Key :
          /\ Changed(i, k)
          /\ seen' = [seen EXCEPT !.added = TRUE,
                                  !.torn = seen.torn \/ walk.pc = "page",
                                  !.moved = seen.moved \/ \E j \in Listed : key[j] >= k]
  BY DEF AddRow
<1>3. /\ seen' \in [moved: BOOLEAN, added: BOOLEAN, torn: BOOLEAN, tied: BOOLEAN]
      /\ seen'.added /\ seen'.tied = seen.tied
      /\ ~seen'.torn => ~seen.torn /\ walk.pc # "page"
      /\ ~seen'.moved => ~seen.moved /\ \A j \in Listed : ~(key[j] >= k)
  BY <1>1, <1>2 DEF TypeOK
<1>4. TypeOK' /\ walk.pc # "done" /\ UNCHANGED <<order, walk, begun>>
  BY <1>1, <1>2, <1>3, ChangedKeeps DEF TypeOK, Key
<1>5. ASSUME ~seen'.moved
      PROVE  /\ Listed' = Listed \cup {i}
             /\ \A j \in Listed :
                    Place(j)' = IF order = "asc" THEN Place(j) ELSE Place(j) + 1
  BY <1>1, <1>2, <1>3, <1>5, NewRowPlaces
<1>6. \A j \in Listed : Place(j) \in Nat
  BY <1>1, PlaceBound, ListedFinite
<1>7. walk.skip \in Nat
  BY <1>1 DEF TypeOK
<1>8. MissedInv'
  <2> SUFFICES ASSUME (~seen.moved /\ ~seen.tied /\ (order = "asc" \/ ~seen.torn))'
               PROVE  (begun \subseteq Listed /\ NothingSkipped /\ CountReaches)'
    BY DEF MissedInv
  <2>1. begun \subseteq Listed /\ NothingSkipped /\ CountReaches
    BY <1>3, <1>4 DEF WalkInv, MissedInv
  <2>2. begun' \subseteq Listed'
    BY <1>4, <1>5, <2>1
  <2>3. \A j \in begun : /\ Place(j)' \in Nat /\ Place(j) <= Place(j)'
                         /\ walk.pc = "page" => Place(j)' = Place(j)
    BY <1>3, <1>4, <1>5, <1>6, <2>1
  <2>4. \A j \in begun : Place(j)' <= walk.skip => Place(j) <= walk.skip
    BY <1>6, <1>7, <2>1, <2>3
  <2>5. QED
    BY <1>4, <2>1, <2>2, <2>3, <2>4 DEF NothingSkipped, CountReaches
<1>9. TwiceInv'
  <2> SUFFICES ASSUME (~seen.moved /\ ~seen.tied /\ (order = "asc" \/ ~seen.added))'
               PROVE  (GotBehind /\ IsInjective(walk.got))'
    BY DEF TwiceInv
  <2>1. order = "asc" /\ GotBehind /\ IsInjective(walk.got)
    BY <1>3, <1>4 DEF WalkInv, TwiceInv
  <2>2. QED
    BY <1>4, <1>5, <2>1 DEF GotBehind, IsInjective
<1>10. QED
  BY <1>4, <1>8, <1>9 DEF WalkInv

LEMMA StepWalk == WalkInv /\ [Next]_vars => WalkInv'
<1> SUFFICES ASSUME WalkInv, [Next]_vars PROVE WalkInv'
  OBVIOUS
<1>1. CASE CountRows
  BY <1>1, CountRowsKeeps
<1>2. CASE SelectPage
  BY <1>2, SelectPageKeeps
<1>3. ASSUME NEW i \in Id, AddRow(i) PROVE WalkInv'
  BY <1>3, AddRowKeeps
<1>4. ASSUME NEW i \in Id, RemoveRow(i) PROVE WalkInv'
  BY <1>4, RemoveRowKeeps
<1>5. ASSUME NEW i \in Id, MoveRow(i) PROVE WalkInv'
  BY <1>5, MoveRowKeeps
<1>6. CASE UNCHANGED vars
  <2>1. UNCHANGED <<order, key>> /\ UNCHANGED <<walk, begun, changes, seen>>
    BY <1>6 DEF vars
  <2>2. Listed' = Listed /\ \A i : Place(i)' = Place(i)
    BY <2>1, PlaceUnchanged
  <2>3. TypeOK'
    BY <2>1 DEF WalkInv, TypeOK, Key
  <2>4. MissedInv'
    BY <2>1, <2>2 DEF WalkInv, MissedInv, NothingSkipped, CountReaches
  <2>5. TwiceInv'
    BY <2>1, <2>2 DEF WalkInv, TwiceInv, GotBehind, IsInjective
  <2>6. QED
    BY <2>3, <2>4, <2>5 DEF WalkInv
<1>7. QED
  BY <1>1, <1>2, <1>3, <1>4, <1>5, <1>6 DEF Next

LEMMA WalkInvariant == Spec => []WalkInv
BY InitWalk, StepWalk, PTL DEF Spec

-----------------------------------------------------------------------------
\* Every state of a listing and its walk is well typed: what a client has is
\* rows, and a count never exceeds the rows there are.
THEOREM TypeCorrect == Spec => []TypeOK
<1>1. WalkInv => TypeOK
  BY DEF WalkInv
<1>2. QED
  BY <1>1, WalkInvariant, PTL

\* The walk of paginate and has_more: a client that follows has_more to the end
\* has every row there was at the start, unless rows left or moved, keys were
\* equal, or, newest first, a row came between the count and the page.
THEOREM NothingIsMissed == Spec => []NothingMissed
<1>1. WalkInv => NothingMissed
  <2> SUFFICES ASSUME WalkInv, walk.pc = "done", ~seen.moved, ~seen.tied,
                      order = "asc" \/ ~seen.torn
               PROVE  begun \subseteq ToSet(walk.got)
    BY DEF NothingMissed
  <2>1. QED
    BY DEF WalkInv, MissedInv, NothingSkipped, CountReaches
<1>2. QED
  BY <1>1, WalkInvariant, PTL

\* No page repeats a row of an earlier one, however many pages the walk takes,
\* while rows come only at the end and their keys differ.
THEOREM NothingComesTwice == Spec => []NothingTwice
<1>1. WalkInv => NothingTwice
  BY DEF WalkInv, TwiceInv, NothingTwice
<1>2. QED
  BY <1>1, WalkInvariant, PTL

=============================================================================
