------------------------- MODULE TenantPagesProofs -------------------------
(***************************************************************************)
(* Listing page by page: what a caller sees, for any number of tenants, in *)
(* any order of the HashMap, with words of any width, while tenants come,  *)
(* change and go.                                                          *)
(***************************************************************************)
EXTENDS TenantPages, FiniteSetTheorems, FunctionTheorems, SequenceTheorems, TLAPS

-----------------------------------------------------------------------------
(* One page.                                                               *)

\* end - start is limit again when offset + limit has gone round.
LEMMA WrapsBack ==
    ASSUME NEW offset \in Words, NEW limit \in Words
    PROVE  wrapping_sub(wrapping_add(offset, limit), offset) = limit
<1>1. WORDS \in Nat /\ offset \in Nat /\ limit \in Nat
  BY WordsAssumption DEF Words
<1>2. offset < WORDS /\ limit < WORDS
  BY <1>1, WordsAssumption DEF Words
<1>3. CASE offset + limit >= WORDS
  BY <1>1, <1>2, <1>3 DEF wrapping_add, wrapping_sub
<1>4. CASE ~(offset + limit >= WORDS)
  BY <1>1, <1>2, <1>4 DEF wrapping_add, wrapping_sub
<1> QED
  BY <1>3, <1>4

\* A page is the one plain arithmetic gives, for every offset and limit that a
\* word can hold, and whatever the store.
THEOREM PagesExact == Spec => []PageIsExact
<1>1. ASSUME NEW ids, NEW offset \in Words, NEW limit \in Words
      PROVE  Page(ids, offset, limit) = Taken(ids, offset, limit)
  BY WrapsBack DEF Page
<1>2. PageIsExact
  BY <1>1 DEF PageIsExact
<1> QED
  BY <1>2, PTL

\* How many tenants there are.
LEMMA IdsAreFinite ==
    ASSUME NEW ids \in SUBSET Ids
    PROVE  IsFiniteSet(ids) /\ Cardinality(ids) \in Nat /\ Cardinality(ids) < WORDS
<1>1. IsFiniteSet(ids) /\ Cardinality(ids) <= Cardinality(Ids)
  BY IdsAssumption, FS_Subset
<1>2. Cardinality(ids) \in Nat /\ Cardinality(Ids) \in Nat
  BY <1>1, IdsAssumption, FS_CardinalityType
<1> QED
  BY <1>1, <1>2, IdsAssumption, WordsAssumption

LEMMA StoredIsFinite ==
    ASSUME TypeOK, NEW ids \in SUBSET Stored
    PROVE  IsFiniteSet(ids) /\ Cardinality(ids) \in Nat /\ Cardinality(ids) < WORDS
BY IdsAreFinite DEF TypeOK

\* Before is a total order of what is stored.
LEMMA BeforeIsTotal ==
    ASSUME TypeOK, NEW a \in Stored, NEW b \in Stored
    PROVE  /\ Before(a, a)
           /\ Before(a, b) \/ Before(b, a)
           /\ Before(a, b) /\ Before(b, a) => a = b
           /\ \A c \in Stored : Before(a, b) /\ Before(b, c) => Before(a, c)
<1>1. \A x \in Stored : tenants[x].created \in Nat
  BY InstantsAssumption DEF TypeOK
<1>2. bucket \in [Stored -> Buckets]
  BY DEF TypeOK, Injection
<1>3. \A x \in Stored : tenants[x].created \in Nat /\ bucket[x] \in Nat
  BY <1>1, <1>2, BucketsAssumption
<1>4. \A x, y \in Stored : bucket[x] = bucket[y] => x = y
  BY Fun_InjectionProperties DEF TypeOK, Injection, IsInjective
<1> QED
  BY <1>3, <1>4 DEF Before

\* Tenants come one after another: at places from 1 on, no two at the same.
LEMMA PlaceIsInjective ==
    ASSUME TypeOK, NEW ids \in SUBSET Stored
    PROVE  /\ \A id \in ids : Place(ids, id) \in 1 .. Cardinality(ids)
           /\ \A a, b \in ids : Place(ids, a) = Place(ids, b) => a = b
<1> DEFINE First(id) == {other \in ids : Before(other, id)}
<1>0. IsFiniteSet(ids) /\ Cardinality(ids) \in Nat
  BY StoredIsFinite
<1>1. ASSUME NEW id \in ids
      PROVE  /\ IsFiniteSet(First(id)) /\ Cardinality(First(id)) \in Nat
             /\ Cardinality(First(id)) <= Cardinality(ids)
  <2>1. First(id) \in SUBSET ids
    OBVIOUS
  <2> QED
    BY <1>0, <2>1, FS_Subset, FS_CardinalityType
<1>2. ASSUME NEW id \in ids
      PROVE  Cardinality(First(id)) # 0
  <2>1. id \in First(id)
    BY BeforeIsTotal
  <2> HIDE DEF First
  <2> QED
    BY <1>1, <2>1, FS_EmptySet
<1>3. ASSUME NEW a \in ids, NEW b \in ids, a # b, Before(a, b)
      PROVE  Cardinality(First(a)) # Cardinality(First(b))
  <2>1. First(a) \in SUBSET First(b)
    BY <1>3, BeforeIsTotal
  <2>2. b \in First(b) /\ b \notin First(a)
    BY <1>3, BeforeIsTotal
  <2> HIDE DEF First
  <2> QED
    BY <1>1, <2>1, <2>2, FS_Subset
<1>4. \A id \in ids : Place(ids, id) = Cardinality(First(id))
  BY DEF Place
<1>5. \A a, b \in ids : Place(ids, a) = Place(ids, b) => a = b
  BY <1>3, <1>4, BeforeIsTotal
<1>6. \A id \in ids : Place(ids, id) \in 1 .. Cardinality(ids)
  <2> HIDE DEF First
  <2> QED BY <1>0, <1>1, <1>2, <1>4
<1> QED
  BY <1>5, <1>6

\* The sorted listing has each tenant once, at its place.
LEMMA NewestFirstIsSorted ==
    ASSUME TypeOK, NEW ids \in SUBSET Stored
    PROVE  /\ NewestFirst(ids) \in [1 .. Cardinality(ids) -> ids]
           /\ \A p \in 1 .. Cardinality(ids) : Place(ids, NewestFirst(ids)[p]) = p
           /\ \A id \in ids : NewestFirst(ids)[Place(ids, id)] = id
<1> DEFINE n == Cardinality(ids)
           place == [id \in ids |-> Place(ids, id)]
<1>0. IsFiniteSet(ids) /\ n \in Nat
  BY StoredIsFinite
<1>1. place \in Injection(ids, 1 .. n)
  BY PlaceIsInjective DEF Injection, IsInjective
<1>2. IsFiniteSet(1 .. n) /\ Cardinality(1 .. n) = n
  BY <1>0, FS_Interval
<1>3. place \in Surjection(ids, 1 .. n)
  <2> HIDE DEF place
  <2> QED BY <1>0, <1>1, <1>2, FS_Injection
<1>4. \A p \in 1 .. n : \E id \in ids : Place(ids, id) = p
  BY <1>3 DEF Surjection
<1>5. \A p \in 1 .. n :
        NewestFirst(ids)[p] \in ids /\ Place(ids, NewestFirst(ids)[p]) = p
  BY <1>4 DEF NewestFirst
<1>6. NewestFirst(ids) \in [1 .. n -> ids]
  BY <1>5 DEF NewestFirst
<1>7. \A id \in ids : NewestFirst(ids)[Place(ids, id)] = id
  BY <1>5, PlaceIsInjective
<1> QED
  BY <1>5, <1>6, <1>7

\* A page shows the tenants at the places it is for, as many as there are.
LEMMA PageShows ==
    ASSUME TypeOK, NEW filter, NEW offset \in Words, NEW limit \in Words
    PROVE  LET ids == filtered(filter)
               page == list(filter, offset, limit)
           IN  /\ page \in Seq(ids)
               /\ Len(page) = IF offset >= Cardinality(ids) THEN 0
                              ELSE IF offset + limit > Cardinality(ids)
                                   THEN Cardinality(ids) - offset
                              ELSE limit
               /\ Range(page) = {id \in ids : /\ Place(ids, id) > offset
                                              /\ Place(ids, id) <= offset + limit}
<1> DEFINE ids == filtered(filter)
           n == Cardinality(ids)
           sorted == NewestFirst(ids)
           last == IF offset + limit > n THEN n ELSE offset + limit
           page == SubSeq(sorted, offset + 1, last)
<1>0. ids \in SUBSET Stored
  BY DEF filtered
<1>1. n \in Nat /\ offset \in Nat /\ limit \in Nat
  BY <1>0, StoredIsFinite, WordsAssumption DEF Words
<1>2. /\ sorted \in [1 .. n -> ids]
      /\ \A p \in 1 .. n : Place(ids, sorted[p]) = p
      /\ \A id \in ids : sorted[Place(ids, id)] = id /\ Place(ids, id) \in 1 .. n
  BY <1>0, NewestFirstIsSorted, PlaceIsInjective
<1>3. sorted \in Seq(ids) /\ Len(sorted) = n
  BY <1>1, <1>2, LenProperties
<1>4. list(filter, offset, limit) = page
  BY <1>3, WrapsBack DEF list, Page, Taken
<1> HIDE DEF ids, sorted
<1>5. /\ offset + 1 \in Int /\ last \in Int
      /\ \A i \in offset + 1 .. last : i \in 1 .. n /\ sorted[i] \in ids
  BY <1>1, <1>2
<1> HIDE DEF n
<1>6. /\ page \in Seq(ids)
      /\ Len(page) = IF offset + 1 <= last THEN last - offset ELSE 0
      /\ \A i \in 1 .. last - offset : page[i] = sorted[offset + i]
  <2>1. /\ page \in Seq(ids)
        /\ Len(page) = IF offset + 1 <= last THEN last - (offset + 1) + 1 ELSE 0
        /\ \A i \in 1 .. last - (offset + 1) + 1 : page[i] = sorted[offset + 1 + i - 1]
    <3> HIDE DEF last
    <3> QED BY <1>5, SubSeqProperties
  <2>2. last \in Nat
    BY <1>1
  <2> HIDE DEF page, last
  <2> QED BY <1>1, <2>1, <2>2
<1>7. Range(page) = {id \in ids : Place(ids, id) > offset /\ Place(ids, id) <= offset + limit}
  <2>1. DOMAIN page = 1 .. Len(page)
    BY <1>6, LenProperties
  <2>2. ASSUME NEW id \in ids, Place(ids, id) > offset, Place(ids, id) <= offset + limit
        PROVE  id \in Range(page)
    <3> DEFINE i == Place(ids, id) - offset
    <3>1. Place(ids, id) \in 1 .. n /\ sorted[Place(ids, id)] = id
      BY <1>2
    <3>2. i \in 1 .. last - offset /\ offset + i = Place(ids, id)
      BY <1>1, <2>2, <3>1
    <3>3. i \in DOMAIN page /\ page[i] = id
      <4> HIDE DEF page, i
      <4>1. last - offset \in Int /\ last \in Int
        BY <1>1
      <4>2. Len(page) = last - offset
        <5> HIDE DEF last
        <5> QED BY <1>1, <1>6, <3>2, <4>1
      <4> QED BY <1>6, <2>1, <3>1, <3>2, <4>2
    <3> QED BY <3>3 DEF Range
  <2>3. ASSUME NEW i \in DOMAIN page
        PROVE  /\ page[i] \in ids
               /\ Place(ids, page[i]) > offset /\ Place(ids, page[i]) <= offset + limit
    <3>1. i \in 1 .. last - offset
      <4> HIDE DEF page
      <4>1. last \in Int BY <1>1
      <4> HIDE DEF last
      <4> QED BY <1>1, <1>6, <2>1, <2>3, <4>1
    <3>2. page[i] = sorted[offset + i] /\ offset + i \in offset + 1 .. last
      <4> HIDE DEF page
      <4> QED BY <1>1, <1>6, <3>1
    <3>3. offset + i \in 1 .. n /\ offset + i <= offset + limit /\ offset + i > offset
      BY <1>1, <3>2
    <3> HIDE DEF page, last
    <3> QED BY <1>2, <3>2, <3>3
  <2> HIDE DEF page
  <2> QED BY <2>2, <2>3 DEF Range
<1>8. Len(page) = IF offset >= n THEN 0 ELSE IF offset + limit > n THEN n - offset ELSE limit
  <2>1. last \in Nat BY <1>1
  <2> HIDE DEF page
  <2> QED BY <1>1, <1>6, <2>1
<1> QED
  <2> HIDE DEF page
  <2> QED BY <1>4, <1>6, <1>7, <1>8 DEF ids, n

-----------------------------------------------------------------------------
(* The types.                                                              *)

\* The walk of a caller who does not list anything.
LEMMA NoWalkIsAWalk ==
    NoWalk \in Walks /\ NoWalk.at = "none" /\ Len(NoWalk.seen) = NoWalk.offset
<1>1. 0 \in Words /\ 0 \in 0 .. Removals
  BY WordsAssumption, InstantsAssumption DEF Words
<1>2. <<>> \in Seq(Ids) /\ Len(<<>>) = 0
  BY EmptySeq
<1> QED
  BY <1>1, <1>2 DEF NoWalk, Walks

\* A page goes to the end of what has been seen, and no offset goes round.
LEMMA PageKeepsTypes ==
    ASSUME TypeOK, NextPage
    PROVE  TypeOK'
<1> DEFINE page == list(walk.filter, walk.offset, walk.limit)
           ids == filtered(walk.filter)
           n == Cardinality(ids)
<1>1. walk \in Walks /\ walk.at = "page" /\ Len(walk.seen) = walk.offset
  BY DEF TypeOK, NextPage, Listed
<1>2. /\ walk.offset \in Words /\ walk.limit \in Words
      /\ walk.offset \in Nat /\ walk.limit \in Nat
  BY <1>1, WordsAssumption DEF Walks, Words
<1>3. ids \in SUBSET Stored /\ n \in Nat /\ n < WORDS
  BY StoredIsFinite DEF filtered
<1>4. /\ page \in Seq(ids)
      /\ Len(page) = IF walk.offset >= n THEN 0
                     ELSE IF walk.offset + walk.limit > n THEN n - walk.offset
                     ELSE walk.limit
  BY <1>2, PageShows
<1>5. ids \in SUBSET Ids
  BY <1>3 DEF TypeOK
<1>6. walk' = [walk EXCEPT !.at = IF Len(page) = walk.limit THEN "page" ELSE "done",
                           !.offset = IF Len(page) = walk.limit THEN @ + walk.limit ELSE @,
                           !.seen = @ \o page]
  BY DEF NextPage
<1> HIDE DEF page, n, ids
<1>7. /\ page \in Seq(Ids) /\ Len(page) \in 0 .. walk.limit
      /\ Len(page) = walk.limit => walk.offset + walk.limit \in Words
  <2>1. page \in Seq(Ids)
    BY <1>4, <1>5, SeqMonotonic
  <2>2. Len(page) \in 0 .. walk.limit
    BY <1>2, <1>3, <1>4
  <2>3. ASSUME Len(page) = walk.limit PROVE walk.offset + walk.limit \in Words
    <3>1. walk.limit = 0 \/ walk.offset + walk.limit <= n
      BY <1>2, <1>3, <1>4, <2>3
    <3> QED BY <1>2, <1>3, <3>1, WordsAssumption DEF Words
  <2> QED BY <2>1, <2>2, <2>3
<1>8. walk.seen \in Seq(Ids)
  BY <1>1 DEF Walks
<1>9. walk.seen \o page \in Seq(Ids) /\ Len(walk.seen \o page) = walk.offset + Len(page)
  BY <1>1, <1>7, <1>8, ConcatProperties
<1>10. walk' \in Walks
  BY <1>1, <1>6, <1>7, <1>9 DEF Walks
<1>11. IF walk'.at = "done" THEN Len(walk'.seen) - walk'.offset \in 0 .. walk'.limit - 1
       ELSE Len(walk'.seen) = walk'.offset
  BY <1>1, <1>2, <1>6, <1>7, <1>9 DEF Walks
<1> QED
  BY <1>10, <1>11 DEF TypeOK, NextPage, Stored

\* A listing that loses a tenant is still a listing.
LEMMA LossKeepsTypes ==
    ASSUME TypeOK, Listed, NEW id, NEW moved \in BOOLEAN, WalkLoses(id, moved)
    PROVE  walk' \in Walks /\ walk'.at = "page" /\ Len(walk'.seen) = walk'.offset
<1>1. walk \in Walks /\ walk.at = "page" /\ Len(walk.seen) = walk.offset
  BY DEF TypeOK, Listed
<1>2. CASE id \in filtered(walk.filter)
  <2>1. walk.due \ {id} \in SUBSET Ids /\ walk.removed + 1 \in 0 .. Removals
    BY <1>1, <1>2, InstantsAssumption DEF WalkLoses, Walks
  <2> QED BY <1>1, <1>2, <2>1 DEF WalkLoses, Walks
<1> QED
  BY <1>1, <1>2 DEF WalkLoses, Walks

\* Every step keeps the types.
LEMMA TypesKept ==
    ASSUME TypeOK, [Next]_vars
    PROVE  TypeOK'
<1>0. walk \in Walks
  BY DEF TypeOK
<1>1. ASSUME NEW id \in Ids, NEW look \in Looks, NEW created \in 0 .. Instants - 1,
             Create(id, look, created)
      PROVE  TypeOK'
  <2>1. Stored' = Stored \cup {id}
    BY <1>1 DEF Create, Stored
  <2>2. \A i \in Stored' : tenants'[i] \in [look : Looks, created : 0 .. Instants - 1]
    BY <1>0, <1>1, <2>1 DEF Create, TypeOK
  <2>3. bucket' \in Injection(Stored', Buckets)
    BY <1>1, <2>1 DEF Create
  <2>4. walk' \in Walks /\ walk'.at # "done" /\ Len(walk'.seen) = walk'.offset
    <3>1. CASE Listed
      BY <1>0, <1>1, <3>1 DEF Create, TypeOK, Walks, Listed
    <3>2. CASE ~Listed
      BY <1>1, <3>2, NoWalkIsAWalk DEF Create
    <3> QED BY <3>1, <3>2
  <2> QED BY <1>1, <2>1, <2>2, <2>3, <2>4 DEF Create, TypeOK
<1>2. ASSUME NEW id \in Ids, NEW look \in Looks, Update(id, look)
      PROVE  TypeOK'
  <2>1. Stored' = Stored
    BY <1>2 DEF Update, Stored
  <2>2. \A i \in Stored' : tenants'[i] \in [look : Looks, created : 0 .. Instants - 1]
    BY <1>2, <2>1 DEF Update, TypeOK, Stored
  <2>3. walk' \in Walks /\ walk'.at # "done" /\ Len(walk'.seen) = walk'.offset
    <3>1. CASE ~Listed
      BY <1>2, <3>1, NoWalkIsAWalk DEF Update
    <3>2. CASE Listed /\ ~matches(walk.filter, look)
      BY <1>2, <3>2, LossKeepsTypes DEF Update
    <3>3. CASE Listed /\ matches(walk.filter, look)
      <4>1. walk' = [walk EXCEPT !.moved = TRUE,
                                 !.grown = @ \/ id \notin filtered(walk.filter)]
        BY <1>2, <3>3 DEF Update
      <4> QED BY <1>0, <3>3, <4>1 DEF TypeOK, Walks, Listed
    <3> QED BY <3>1, <3>2, <3>3
  <2>4. bucket' \in Injection(Stored', Buckets)
    BY <1>2, <2>1 DEF Update
  <2> QED BY <1>2, <2>1, <2>2, <2>3, <2>4 DEF TypeOK
<1>3. ASSUME NEW id \in Ids, Delete(id)
      PROVE  TypeOK'
  <2>1. Stored' = Stored \ {id}
    BY <1>3 DEF Delete, Stored
  <2>2. \A i \in Stored' : tenants'[i] \in [look : Looks, created : 0 .. Instants - 1]
    BY <1>3, <2>1 DEF Delete, TypeOK
  <2>3. bucket' \in Injection(Stored', Buckets)
    BY <1>3, <2>1 DEF Delete, TypeOK, Injection, IsInjective
  <2>4. walk' \in Walks /\ walk'.at # "done" /\ Len(walk'.seen) = walk'.offset
    <3>1. walk.moved \in BOOLEAN
      BY <1>0 DEF Walks
    <3> QED BY <1>3, <3>1, NoWalkIsAWalk, LossKeepsTypes DEF Delete
  <2> QED BY <1>3, <2>1, <2>2, <2>3, <2>4 DEF Delete, TypeOK
<1>5. ASSUME NEW filter \in Filters, NEW limit \in Words \ {0}, Begin(filter, limit)
      PROVE  TypeOK'
  <2>1. filtered(filter) \in SUBSET Ids /\ Cardinality(filtered(filter)) \in Nat
    BY StoredIsFinite DEF TypeOK, filtered
  <2>2. walk' = [NoWalk EXCEPT !.at = "page", !.filter = filter, !.limit = limit,
                               !.total = Cardinality(filtered(filter)),
                               !.due = filtered(filter), !.tied = Tied]
    BY <1>5 DEF Begin, count, filtered_count
  <2>3. Tied \in BOOLEAN
    BY DEF Tied
  <2>4. walk' \in Walks /\ walk'.at = "page" /\ Len(walk'.seen) = walk'.offset
    BY <2>1, <2>2, <2>3, NoWalkIsAWalk DEF Walks, NoWalk
  <2> QED BY <1>5, <2>4 DEF Begin, TypeOK, Stored
<1>6. CASE NextPage
  BY <1>6, PageKeepsTypes
<1>7. CASE UNCHANGED vars
  BY <1>7 DEF vars, TypeOK, Stored
<1> QED
  BY <1>1, <1>2, <1>3, <1>5, <1>6, <1>7 DEF Next

LEMMA TypesAtFirst == Init => TypeOK
<1> SUFFICES ASSUME Init PROVE TypeOK
  OBVIOUS
<1>1. Stored = {} /\ bucket \in Injection({}, Buckets)
  BY DEF Init, Stored, Injection, IsInjective
<1> QED
  BY <1>1, NoWalkIsAWalk, InstantsAssumption DEF Init, TypeOK

\* The store and the caller keep their types, so the offset of a page that is asked
\* for never goes round, and the pages before it hold as many tenants as it says.
THEOREM PagesTypeTheorem == Spec => []TypeOK
<1> QED
  BY TypesAtFirst, TypesKept, PTL DEF Spec

-----------------------------------------------------------------------------
(* The walk.                                                               *)

Listing == filtered(walk.filter)

\* Tenants on the list that no further page will show, and no page has shown.
Hidden == {id \in walk.due \ Seen : Place(Listing, id) <= walk.offset}

\* What is true of a walk from page to page, and carries the two properties.  A
\* tenant is passed over when it stands on the places that have been listed; that
\* happens only when one before it goes.
OnTheWay ==
    Listed =>
      /\ walk.limit # 0
      /\ walk.due \subseteq Listing
      /\ ~walk.tied => ~Tied /\ Cardinality(Hidden) <= walk.removed
      /\ Undisturbed =>
           /\ walk.due = Listing
           /\ walk.total = Cardinality(Listing)
           /\ walk.offset <= walk.total
           /\ Seen = {id \in Listing : Place(Listing, id) <= walk.offset}

IndInv == TypeOK /\ OnTheWay /\ WalkIsComplete /\ RemovalHidesOne

\* Two tenants that stay in the listing stay in their order.
OrderKept == \A a, b \in Listing \cap Listing' : Before(a, b)' = Before(a, b)

PagesKept == UNCHANGED <<walk.seen, walk.offset>>

\* What the two lemmas below count with.
LEMMA WalkCounts ==
    ASSUME TypeOK, TypeOK', PagesKept
    PROVE  /\ walk.offset \in Nat /\ walk'.offset = walk.offset /\ Seen' = Seen
           /\ IsFiniteSet(Hidden) /\ Cardinality(Hidden) \in Nat
           /\ IsFiniteSet(Hidden') /\ Cardinality(Hidden') \in Nat
           /\ \A ids \in SUBSET Listing : IsFiniteSet(ids) /\ Cardinality(ids) \in Nat
           /\ \A ids \in SUBSET Listing' : IsFiniteSet(ids) /\ Cardinality(ids) \in Nat
<1>1. walk.offset \in Nat /\ walk'.offset = walk.offset /\ Seen' = Seen
  BY WordsAssumption DEF TypeOK, Walks, Words, PagesKept, Seen
<1>2. Hidden \in SUBSET Ids /\ Hidden' \in SUBSET Ids
  BY DEF TypeOK, Walks, Hidden
<1>3. Listing \in SUBSET Ids /\ Listing' \in SUBSET Ids
  BY DEF TypeOK, Listing, filtered
<1> QED
  BY <1>1, <1>2, <1>3, IdsAreFinite

\* Tenants that come push others back, and hide none.
LEMMA ComingHidesNone ==
    ASSUME TypeOK, TypeOK', Listing \subseteq Listing', OrderKept, PagesKept,
           walk.due \subseteq Listing, walk'.due = walk.due
    PROVE  Cardinality(Hidden') <= Cardinality(Hidden)
<1> DEFINE First(id) == {other \in Listing : Before(other, id)}
           First2(id) == {other \in Listing' : Before(other, id)'}
<1>1. ASSUME NEW id \in Listing
      PROVE  /\ Place(Listing, id) \in Nat /\ Place(Listing, id)' \in Nat
             /\ Place(Listing, id) <= Place(Listing, id)'
  <2>1. First(id) \in SUBSET First2(id)
    BY DEF OrderKept
  <2>2. IsFiniteSet(First2(id)) /\ First(id) \in SUBSET Listing /\ First2(id) \in SUBSET Listing'
    BY WalkCounts
  <2>3. /\ Cardinality(First(id)) <= Cardinality(First2(id))
        /\ Cardinality(First(id)) \in Nat /\ Cardinality(First2(id)) \in Nat
    <3> HIDE DEF First, First2
    <3> QED BY <2>1, <2>2, WalkCounts, FS_Subset
  <2> QED BY <2>3 DEF Place
<1>2. Hidden' \in SUBSET Hidden
  <2> SUFFICES ASSUME NEW id \in walk.due \ Seen, Place(Listing, id)' <= walk.offset
               PROVE  Place(Listing, id) <= walk.offset
    BY WalkCounts DEF Hidden
  <2> QED BY <1>1, WalkCounts
<1> QED
  BY <1>2, WalkCounts, FS_Subset

\* One that goes lets the others move up one place: the one that stood at the first
\* place of the next page is hidden, if it matters.
LEMMA GoingHidesOne ==
    ASSUME TypeOK, TypeOK', NEW gone \in Listing, Listing' = Listing \ {gone},
           OrderKept, PagesKept, walk.due \subseteq Listing,
           walk'.due = walk.due \ {gone}
    PROVE  Cardinality(Hidden') <= Cardinality(Hidden) + 1
<1> DEFINE First(id) == {other \in Listing : Before(other, id)}
           First2(id) == {other \in Listing' : Before(other, id)'}
           Next1 == {id \in Listing : Place(Listing, id) = walk.offset + 1}
<1>1. ASSUME NEW id \in Listing'
      PROVE  /\ Place(Listing, id) \in Nat /\ Place(Listing, id)' \in Nat
             /\ Place(Listing, id) <= Place(Listing, id)' + 1
  <2>1. First(id) \in SUBSET (First2(id) \cup {gone})
    BY <1>1 DEF OrderKept
  <2>2. First(id) \in SUBSET Listing /\ First2(id) \in SUBSET Listing'
    OBVIOUS
  <2>3. First2(id) \cup {gone} \in SUBSET Listing
    OBVIOUS
  <2> HIDE DEF First, First2
  <2>4. /\ IsFiniteSet(First2(id)) /\ Cardinality(First2(id)) \in Nat
        /\ Cardinality(First(id)) \in Nat
        /\ Cardinality(First2(id) \cup {gone}) \in Nat
        /\ IsFiniteSet(First2(id) \cup {gone})
    BY <2>2, <2>3, WalkCounts
  <2>5. Cardinality(First(id)) <= Cardinality(First2(id) \cup {gone})
    BY <2>1, <2>4, FS_Subset
  <2>6. Cardinality(First2(id) \cup {gone}) <= Cardinality(First2(id)) + 1
    BY <2>4, FS_AddElement
  <2>7. Cardinality(First(id)) <= Cardinality(First2(id)) + 1
    BY <2>4, <2>5, <2>6
  <2> QED BY <2>4, <2>7 DEF Place, First, First2
<1>2. Hidden' \in SUBSET (Hidden \cup Next1)
  <2> SUFFICES ASSUME NEW id \in walk'.due \ Seen, Place(Listing, id)' <= walk.offset,
                      Place(Listing, id) # walk.offset + 1
               PROVE  Place(Listing, id) <= walk.offset
    BY WalkCounts DEF Hidden
  <2>1. id \in Listing' /\ walk.offset \in Nat
    BY WalkCounts
  <2>2. /\ Place(Listing, id) \in Nat /\ Place(Listing, id)' \in Nat
        /\ Place(Listing, id) <= Place(Listing, id)' + 1
    BY <1>1, <2>1
  <2> QED BY <2>1, <2>2
<1>3. \E one : Next1 \subseteq {one}
  <2>1. \A a, b \in Next1 : a = b
    BY PlaceIsInjective DEF Listing, filtered
  <2> HIDE DEF Next1
  <2> QED BY <2>1
<1>4. PICK one : Next1 \subseteq {one}
  BY <1>3
<1> HIDE DEF Next1
<1>5. Hidden' \in SUBSET (Hidden \cup {one})
  BY <1>2, <1>4
<1>6. /\ IsFiniteSet(Hidden \cup {one})
      /\ Cardinality(Hidden \cup {one}) \in Nat
      /\ Cardinality(Hidden \cup {one}) <= Cardinality(Hidden) + 1
  <2>1. IsFiniteSet(Hidden) /\ Cardinality(Hidden) \in Nat
    BY WalkCounts
  <2>2. /\ IsFiniteSet(Hidden \cup {one})
        /\ \/ Cardinality(Hidden \cup {one}) = Cardinality(Hidden)
           \/ Cardinality(Hidden \cup {one}) = Cardinality(Hidden) + 1
    BY <2>1, FS_AddElement
  <2> QED BY <2>1, <2>2
<1> QED
  BY <1>5, <1>6, WalkCounts, FS_Subset

\* A change after which all that was in the listing is there still: what is due stays
\* due, and either the listing is what it was or the walk counts as disturbed.
LEMMA WalkAfterComing ==
    ASSUME TypeOK, TypeOK', OnTheWay, Listed, Listing \subseteq Listing',
           UNCHANGED <<walk.at, walk.limit, walk.offset, walk.total, walk.seen, walk.due,
                       walk.removed>>,
           ~walk'.tied => ~walk.tied /\ ~Tied' /\ OrderKept,
           Undisturbed' => Undisturbed /\ Listing' = Listing /\ OrderKept
    PROVE  OnTheWay'
<1>1. /\ walk'.limit # 0 /\ walk'.due \subseteq Listing' /\ walk.due \subseteq Listing
      /\ PagesKept /\ Seen' = Seen
  BY DEF OnTheWay, PagesKept, Seen
<1>2. ASSUME ~walk'.tied
      PROVE  ~Tied' /\ Cardinality(Hidden') <= walk'.removed
  <2>1. ~Tied' /\ OrderKept /\ Cardinality(Hidden) <= walk.removed
    BY <1>2 DEF OnTheWay
  <2>2. Cardinality(Hidden') <= Cardinality(Hidden)
    BY <1>1, <2>1, ComingHidesNone
  <2>3. walk'.removed = walk.removed /\ walk.removed \in Nat
    BY InstantsAssumption DEF TypeOK, Walks
  <2> QED BY <1>1, <2>1, <2>2, <2>3, WalkCounts
<1>3. ASSUME Undisturbed'
      PROVE  /\ walk'.due = Listing'
             /\ walk'.total = Cardinality(Listing')
             /\ walk'.offset <= walk'.total
             /\ Seen' = {id \in Listing' : Place(Listing, id)' <= walk'.offset}
  <2>1. Undisturbed /\ Listing' = Listing /\ OrderKept
    BY <1>3
  <2>2. \A id \in Listing : Place(Listing, id)' = Place(Listing, id)
    BY <2>1 DEF Place, OrderKept
  <2> QED BY <1>1, <2>1, <2>2 DEF OnTheWay
<1> QED
  BY <1>1, <1>2, <1>3 DEF OnTheWay

\* A change after which the listing is as it was, or one tenant shorter.
LEMMA WalkAfterGoing ==
    ASSUME TypeOK, TypeOK', OnTheWay, Listed, NEW gone, NEW moved \in BOOLEAN,
           WalkLoses(gone, moved), walk.moved => moved,
           Listing' = Listing \ {gone}, Tied' => Tied,
           ~(moved /\ walk.tied) => OrderKept, Tied => walk.tied
    PROVE  OnTheWay'
<1>0. walk \in Walks /\ walk.removed \in Nat
  BY InstantsAssumption DEF TypeOK, Walks
<1>1. CASE gone \notin Listing
  <2>1. walk' = [walk EXCEPT !.moved = moved]
    BY <1>1 DEF WalkLoses, Listing
  <2>2. /\ UNCHANGED <<walk.at, walk.limit, walk.offset, walk.total, walk.seen, walk.due,
                       walk.removed, walk.grown, walk.tied>>
        /\ walk'.moved = moved /\ Listing' = Listing
    BY <1>0, <1>1, <2>1 DEF Walks
  <2>3. ~walk'.tied => ~walk.tied /\ ~Tied' /\ OrderKept
    BY <2>2
  <2>4. Undisturbed' => Undisturbed /\ Listing' = Listing /\ OrderKept
    BY <2>2 DEF Undisturbed
  <2> QED BY <2>2, <2>3, <2>4, WalkAfterComing
<1>2. CASE gone \in Listing
  <2>1. walk' = [walk EXCEPT !.due = @ \ {gone}, !.removed = @ + 1, !.moved = moved]
    BY <1>2 DEF WalkLoses, Listing
  <2>3. /\ walk'.due = walk.due \ {gone} /\ walk'.removed = walk.removed + 1
        /\ walk'.limit = walk.limit /\ walk'.tied = walk.tied
        /\ PagesKept
    BY <1>0, <2>1 DEF Walks, PagesKept
  <2>4. walk.limit # 0 /\ walk.due \subseteq Listing
    BY DEF OnTheWay
  <2>5. walk'.removed # 0
    BY <1>0, <2>3
  <2>6. ASSUME ~walk'.tied
        PROVE  ~Tied' /\ Cardinality(Hidden') <= walk'.removed
    <3>1. ~Tied /\ OrderKept /\ Cardinality(Hidden) <= walk.removed
      BY <2>3, <2>6 DEF OnTheWay
    <3>2. Cardinality(Hidden') <= Cardinality(Hidden) + 1
      BY <1>2, <2>3, <2>4, <3>1, GoingHidesOne
    <3>3. Cardinality(Hidden) \in Nat /\ Cardinality(Hidden') \in Nat
      BY <2>3, WalkCounts
    <3> QED BY <1>0, <2>3, <3>1, <3>2, <3>3
  <2> QED BY <2>3, <2>4, <2>5, <2>6 DEF OnTheWay, Undisturbed
<1> QED
  BY <1>1, <1>2

\* A page takes the tenants at its places off the list, so none of those is hidden.
LEMMA WalkAfterPage ==
    ASSUME TypeOK, OnTheWay, NextPage
    PROVE  OnTheWay' /\ WalkIsComplete' /\ RemovalHidesOne'
<1> DEFINE page == list(walk.filter, walk.offset, walk.limit)
           n == Cardinality(Listing)
           full == Len(page) = walk.limit
<1>1. walk \in Walks /\ walk.at = "page" /\ Listed /\ Len(walk.seen) = walk.offset
  BY DEF TypeOK, NextPage, Listed
<1>2. /\ walk.offset \in Words /\ walk.limit \in Words
      /\ walk.offset \in Nat /\ walk.limit \in Nat /\ walk.removed \in Nat
  BY <1>1, WordsAssumption, InstantsAssumption DEF Walks, Words
<1>3. Listing \in SUBSET Stored /\ n \in Nat /\ Listing' = Listing /\ Tied' = Tied
  <2>1. Listing \in SUBSET Stored
    BY DEF Listing, filtered
  <2>2. walk'.filter = walk.filter
    BY <1>1 DEF NextPage, Walks
  <2> QED BY <2>1, <2>2, StoredIsFinite DEF NextPage, Listing, filtered, Stored, Tied
<1>4. /\ page \in Seq(Listing)
      /\ Len(page) = IF walk.offset >= n THEN 0
                     ELSE IF walk.offset + walk.limit > n THEN n - walk.offset
                     ELSE walk.limit
      /\ Range(page) = {id \in Listing : /\ Place(Listing, id) > walk.offset
                                         /\ Place(Listing, id) <= walk.offset + walk.limit}
  BY <1>2, PageShows DEF Listing
<1>5. walk' = [walk EXCEPT !.at = IF full THEN "page" ELSE "done",
                           !.offset = IF full THEN @ + walk.limit ELSE @,
                           !.seen = @ \o page]
  BY DEF NextPage
<1>6. /\ walk.seen \in Seq(Ids) /\ page \in Seq(Ids)
  <2>1. Listing \in SUBSET Ids
    BY <1>3 DEF TypeOK
  <2> HIDE DEF page
  <2> QED BY <1>1, <1>4, <2>1, SeqMonotonic DEF Walks
<1> HIDE DEF page
<1>7. Seen' = Seen \cup Range(page) /\ Len(walk'.seen) = walk.offset + Len(page)
  <2>1. walk'.seen = walk.seen \o page
    BY <1>1, <1>5 DEF Walks
  <2> QED BY <1>1, <1>6, <2>1, ConcatProperties, RangeConcatenation DEF Seen
<1>8. /\ walk'.at = IF full THEN "page" ELSE "done"
      /\ walk'.offset = IF full THEN walk.offset + walk.limit ELSE walk.offset
      /\ UNCHANGED <<walk.limit, walk.total, walk.due, walk.grown, walk.removed, walk.moved,
                   walk.tied>>
  BY <1>1, <1>5 DEF Walks
<1>9. /\ walk.limit # 0 /\ walk.due \subseteq Listing
      /\ ~walk.tied => ~Tied /\ Cardinality(Hidden) <= walk.removed
      /\ Undisturbed =>
           /\ walk.due = Listing
           /\ walk.total = n
           /\ walk.offset <= walk.total
           /\ Seen = {id \in Listing : Place(Listing, id) <= walk.offset}
  BY <1>1 DEF OnTheWay
<1>10. \A id \in Listing : /\ Place(Listing, id)' = Place(Listing, id)
                            /\ Place(Listing, id) \in 1 .. n
  BY <1>3, PlaceIsInjective DEF NextPage, Place, Before
<1> HIDE DEF n
<1>11. walk.due \ Seen' \in SUBSET {id \in walk.due \ Seen :
                \/ Place(Listing, id) <= walk.offset
                \/ Place(Listing, id) > walk.offset + walk.limit}
  <2> SUFFICES ASSUME NEW id \in walk.due \ Seen'
               PROVE  /\ id \notin Seen
                      /\ \/ Place(Listing, id) <= walk.offset
                         \/ Place(Listing, id) > walk.offset + walk.limit
    OBVIOUS
  <2> QED BY <1>2, <1>4, <1>7, <1>9, <1>10
<1>12. IsFiniteSet(Hidden) /\ Cardinality(Hidden) \in Nat
  <2>1. Hidden \in SUBSET Ids
    BY <1>1 DEF Hidden, Walks
  <2> QED BY <2>1, IdsAreFinite
<1>13. CASE full
  <2>1. Hidden' \in SUBSET Hidden
    <3> SUFFICES ASSUME NEW id \in walk.due \ Seen',
                        Place(Listing, id) <= walk.offset + walk.limit
                 PROVE  id \notin Seen /\ Place(Listing, id) <= walk.offset
      BY <1>3, <1>8, <1>9, <1>10, <1>13 DEF Hidden
    <3> QED BY <1>2, <1>9, <1>10, <1>11
  <2>2. Cardinality(Hidden') <= Cardinality(Hidden) /\ Cardinality(Hidden') \in Nat
    BY <1>12, <2>1, FS_Subset, FS_CardinalityType
  <2>3. walk.offset + walk.limit <= n
    BY <1>2, <1>3, <1>4, <1>9, <1>13
  <2>4. ASSUME Undisturbed
        PROVE  Seen' = {id \in Listing : Place(Listing, id) <= walk.offset + walk.limit}
    BY <1>2, <1>4, <1>7, <1>9, <1>10, <2>4
  <2>5. OnTheWay'
    <3>1. ~walk'.tied => ~Tied' /\ Cardinality(Hidden') <= walk'.removed
      BY <1>2, <1>3, <1>8, <1>9, <1>12, <2>2
    <3>2. Undisturbed' =>
            Seen' = {id \in Listing' : Place(Listing, id)' <= walk'.offset}
      BY <1>3, <1>8, <1>10, <1>13, <2>4 DEF Undisturbed
    <3> QED BY <1>3, <1>8, <1>9, <1>13, <2>3, <3>1, <3>2 DEF OnTheWay, Undisturbed, n
  <2> QED BY <1>8, <1>13, <2>5 DEF WalkIsComplete, RemovalHidesOne
<1>14. CASE ~full
  <2>1. walk.offset + walk.limit > n
    BY <1>2, <1>3, <1>4, <1>14
  <2>2. walk.due \ Seen' \in SUBSET Hidden
    <3> SUFFICES ASSUME NEW id \in walk.due \ Seen'
                 PROVE  id \notin Seen /\ Place(Listing, id) <= walk.offset
      BY DEF Hidden
    <3> QED BY <1>2, <1>3, <1>9, <1>10, <1>11, <2>1
  <2>3. /\ Cardinality(walk.due \ Seen') <= Cardinality(Hidden)
        /\ Cardinality(walk.due \ Seen') \in Nat
    BY <1>12, <2>2, FS_Subset, FS_CardinalityType
  <2>4. RemovalHidesOne'
    BY <1>2, <1>8, <1>9, <1>12, <2>3 DEF RemovalHidesOne
  <2>5. ASSUME Undisturbed
        PROVE  Len(walk'.seen) = walk.total /\ Seen' = walk.due
    <3>1. Len(page) = n - walk.offset
      BY <1>2, <1>3, <1>4, <1>9, <2>1, <2>5
    <3>2. Seen' = Listing
      BY <1>2, <1>3, <1>4, <1>7, <1>9, <1>10, <2>1, <2>5
    <3> QED BY <1>2, <1>3, <1>7, <1>9, <2>5, <3>1, <3>2
  <2>6. WalkIsComplete'
    BY <1>8, <1>9, <2>5 DEF WalkIsComplete, Undisturbed, n
  <2> QED BY <1>8, <1>14, <2>4, <2>6 DEF OnTheWay, Listed
<1> QED
  BY <1>13, <1>14

\* Where no two tenants were created at one instant, it does not matter to their order
\* what insert does to the buckets.
LEMMA OrderWithoutTies ==
    ASSUME TypeOK, TypeOK', ~Tied, Stored \subseteq Stored',
           \A i \in Stored : tenants'[i].created = tenants[i].created
    PROVE  OrderKept
<1>1. ASSUME NEW a \in Stored, NEW b \in Stored
      PROVE  Before(a, b)' = Before(a, b)
  <2>1. CASE a = b
    <3>1. bucket \in [Stored -> Buckets] /\ bucket' \in [Stored' -> Buckets]
      BY DEF TypeOK, Injection
    <3>2. bucket[a] \in Nat /\ bucket'[a] \in Nat
      BY <3>1, BucketsAssumption
    <3> QED BY <2>1, <3>2 DEF Before
  <2>2. CASE a # b
    <3>1. tenants[a].created # tenants[b].created
      BY <2>2 DEF Tied
    <3> QED BY <3>1 DEF Before
  <2> QED BY <2>1, <2>2
<1> QED
  BY <1>1 DEF OrderKept, Listing, filtered

\* Each change of the store, seen from the walk.
LEMMA WalkAfterCreate ==
    ASSUME TypeOK, TypeOK', OnTheWay, NEW id \in Ids, NEW look \in Looks,
           NEW created \in 0 .. Instants - 1, Create(id, look, created)
    PROVE  OnTheWay'
<1>1. CASE ~Listed
  BY <1>1, NoWalkIsAWalk DEF Create, OnTheWay, Listed
<1>2. CASE Listed
  <2>1. /\ walk' = [walk EXCEPT !.grown = TRUE,
                        !.tied = @ \/ \E i \in Stored : tenants[i].created = created]
        /\ walk \in Walks
    BY <1>2 DEF Create, TypeOK
  <2>2. /\ UNCHANGED <<walk.at, walk.limit, walk.offset, walk.total, walk.seen, walk.due,
                       walk.removed>>
        /\ walk'.filter = walk.filter
        /\ walk'.grown
        /\ walk'.tied = (walk.tied \/ \E i \in Stored : tenants[i].created = created)
    BY <2>1 DEF Walks
  <2>3. /\ id \notin Stored /\ Stored' = Stored \cup {id}
        /\ \A i \in Stored : tenants'[i] = tenants[i]
        /\ tenants'[id].created = created
    BY DEF Create, Stored
  <2>4. Listing \subseteq Listing'
    BY <2>2, <2>3 DEF Listing, filtered
  <2>5. ASSUME ~walk'.tied
        PROVE  ~walk.tied /\ ~Tied' /\ OrderKept
    <3>1. ~walk.tied /\ ~Tied /\ \A i \in Stored : tenants[i].created # created
      BY <1>2, <2>2, <2>5 DEF OnTheWay
    <3>2. ~Tied'
      BY <2>3, <3>1 DEF Tied
    <3> QED BY <2>3, <3>1, <3>2, OrderWithoutTies
  <2> QED BY <1>2, <2>2, <2>4, <2>5, WalkAfterComing DEF Undisturbed
<1> QED
  BY <1>1, <1>2

LEMMA WalkAfterUpdate ==
    ASSUME TypeOK, TypeOK', OnTheWay, NEW id \in Ids, NEW look \in Looks, Update(id, look)
    PROVE  OnTheWay'
<1>1. CASE ~Listed
  BY <1>1, NoWalkIsAWalk DEF Update, OnTheWay, Listed
<1>2. CASE Listed
  <2>1. /\ id \in Stored /\ Stored' = Stored /\ walk \in Walks
        /\ \A i \in Stored : tenants'[i].created = tenants[i].created
        /\ \A i \in Stored \ {id} : tenants'[i] = tenants[i]
        /\ tenants'[id].look = look
    BY DEF Update, Stored, TypeOK
  <2>2. Tied' = Tied /\ (Tied => walk.tied) /\ (~walk.tied => OrderKept)
    BY <1>2, <2>1, OrderWithoutTies DEF OnTheWay, Tied
  <2>3. CASE matches(walk.filter, look)
    <3>1. walk' = [walk EXCEPT !.moved = TRUE,
                               !.grown = @ \/ id \notin filtered(walk.filter)]
      BY <1>2, <2>3 DEF Update
    <3>2. /\ UNCHANGED <<walk.at, walk.limit, walk.offset, walk.total, walk.seen, walk.due,
                         walk.removed, walk.filter, walk.tied>>
          /\ walk'.moved
          /\ walk'.grown = (walk.grown \/ id \notin Listing)
      BY <2>1, <3>1 DEF Walks, Listing
    <3>3. Listing' = Listing \cup {id}
      BY <2>1, <2>3, <3>2 DEF Listing, filtered
    <3>4. Undisturbed' => Undisturbed /\ Listing' = Listing /\ OrderKept
      BY <2>2, <3>2, <3>3 DEF Undisturbed
    <3>5. ~walk'.tied => ~walk.tied /\ ~Tied' /\ OrderKept
      BY <2>2, <3>2
    <3> QED BY <1>2, <3>2, <3>3, <3>4, <3>5, WalkAfterComing
  <2>4. CASE ~matches(walk.filter, look)
    <3>1. WalkLoses(id, TRUE)
      BY <1>2, <2>4 DEF Update
    <3>2. walk'.filter = walk.filter
      BY <2>1, <3>1 DEF WalkLoses, Walks
    <3>3. Listing' = Listing \ {id}
      BY <2>1, <2>4, <3>2 DEF Listing, filtered
    <3> QED BY <1>2, <2>2, <3>1, <3>3, WalkAfterGoing
  <2> QED BY <2>3, <2>4
<1> QED
  BY <1>1, <1>2

LEMMA WalkAfterDelete ==
    ASSUME TypeOK, TypeOK', OnTheWay, NEW id \in Ids, Delete(id)
    PROVE  OnTheWay'
<1>1. CASE ~Listed
  BY <1>1, NoWalkIsAWalk DEF Delete, OnTheWay, Listed
<1>2. CASE Listed
  <2>1. /\ Stored' = Stored \ {id} /\ walk \in Walks
        /\ \A i \in Stored' : tenants'[i] = tenants[i] /\ bucket'[i] = bucket[i]
    BY DEF Delete, Stored, TypeOK
  <2>2. WalkLoses(id, walk.moved) /\ walk.moved \in BOOLEAN
    BY <1>2, <2>1 DEF Delete, Walks
  <2>3. walk'.filter = walk.filter
    BY <2>1, <2>2 DEF WalkLoses, Walks
  <2>4. Listing' = Listing \ {id}
    BY <2>1, <2>3 DEF Listing, filtered
  <2>5. OrderKept /\ (Tied' => Tied)
    BY <2>1 DEF OrderKept, Before, Tied, Listing, filtered
  <2>6. Tied => walk.tied
    BY <1>2 DEF OnTheWay
  <2> QED BY <1>2, <2>2, <2>4, <2>5, <2>6, WalkAfterGoing
<1> QED
  BY <1>1, <1>2

\* A walk that begins has hidden nothing yet.
LEMMA WalkAfterBegin ==
    ASSUME TypeOK, NEW filter \in Filters, NEW limit \in Words \ {0}, Begin(filter, limit)
    PROVE  OnTheWay'
<1>1. walk' = [NoWalk EXCEPT !.at = "page", !.filter = filter, !.limit = limit,
                             !.total = Cardinality(filtered(filter)),
                             !.due = filtered(filter), !.tied = Tied]
  BY DEF Begin, count, filtered_count
<1>2. /\ walk'.filter = filter /\ walk'.limit = limit /\ walk'.offset = 0
      /\ walk'.total = Cardinality(filtered(filter)) /\ walk'.due = filtered(filter)
      /\ walk'.seen = <<>> /\ walk'.removed = 0 /\ walk'.tied = Tied
  BY <1>1 DEF NoWalk
<1>3. Listing' = filtered(filter) /\ Tied' = Tied
  BY <1>2 DEF Begin, Listing, filtered, Stored, Tied
<1>4. Listing' \in SUBSET Stored /\ Cardinality(Listing') \in Nat
  BY <1>3, StoredIsFinite DEF filtered
<1>5. \A id \in Listing' : Place(Listing, id)' = Place(Listing', id)
  BY DEF Begin, Place, Before
<1>6. \A id \in Listing' : Place(Listing, id)' # 0 /\ Place(Listing, id)' \in Nat
  BY <1>4, <1>5, PlaceIsInjective
<1>7. Hidden' = {} /\ Seen' = {}
  <2>1. \A s : s = <<>> => Range(s) = {}
    BY DEF Range
  <2>2. Seen' = {}
    BY <1>2, <2>1 DEF Seen
  <2>3. walk'.due \subseteq Listing'
    BY <1>2, <1>3
  <2>4. Hidden' = {}
    BY <1>2, <1>6, <2>3 DEF Hidden
  <2> QED BY <2>2, <2>4
<1> QED
  BY <1>2, <1>3, <1>4, <1>6, <1>7, FS_EmptySet DEF OnTheWay

\* A change in the store forgets the walk that has ended, and ends none.
NotDone == walk.at # "done"

LEMMA OnlyPagesEndWalks ==
    ASSUME TypeOK, [Next]_vars, ~NextPage
    PROVE  NotDone' \/ UNCHANGED <<walk>>
<1>1. NoWalk.at # "done" /\ walk \in Walks /\ walk.moved \in BOOLEAN
  BY NoWalkIsAWalk DEF TypeOK, Walks
<1>2. ASSUME NEW id, NEW moved \in BOOLEAN, Listed, WalkLoses(id, moved) PROVE NotDone'
  BY <1>2, LossKeepsTypes DEF NotDone
<1>3. ASSUME NEW id, NEW look, NEW created, Create(id, look, created) PROVE NotDone'
  BY <1>1, <1>3 DEF Create, NotDone, Listed, Walks
<1>4. ASSUME NEW id, NEW look, Update(id, look) PROVE NotDone'
  BY <1>1, <1>2, <1>4 DEF Update, NotDone, Listed, Walks
<1>5. ASSUME NEW id, Delete(id) PROVE NotDone'
  BY <1>1, <1>2, <1>5 DEF Delete, NotDone
<1>6. ASSUME NEW filter, NEW limit, Begin(filter, limit) PROVE NotDone'
  BY <1>6 DEF Begin, NotDone, NoWalk
<1> QED
  BY <1>3, <1>4, <1>5, <1>6 DEF Next, vars

\* The invariant, step by step.
LEMMA WalkKept ==
    ASSUME IndInv, [Next]_vars
    PROVE  IndInv'
<1>1. TypeOK /\ OnTheWay /\ WalkIsComplete /\ RemovalHidesOne /\ TypeOK'
  BY TypesKept DEF IndInv
<1>2. CASE NextPage
  BY <1>1, <1>2, WalkAfterPage DEF IndInv
<1>3. CASE ~NextPage
  <2>1. WalkIsComplete' /\ RemovalHidesOne'
    BY <1>1, <1>3, OnlyPagesEndWalks
       DEF WalkIsComplete, Undisturbed, RemovalHidesOne, NotDone, Seen
  <2>2. ASSUME UNCHANGED <<bucket, tenants, walk>> PROVE OnTheWay'
    BY <1>1, <2>2 DEF OnTheWay, Undisturbed, Listed, Listing, Hidden, Seen, Tied, filtered, Stored,
           Place, Before
  <2>3. OnTheWay'
    BY <1>1, <1>3, <2>2, WalkAfterCreate, WalkAfterUpdate, WalkAfterDelete, WalkAfterBegin
       DEF Next, vars
  <2> QED BY <1>1, <2>1, <2>3 DEF IndInv
<1> QED
  BY <1>2, <1>3

LEMMA WalkAtFirst == Init => IndInv
BY TypesAtFirst
   DEF Init, IndInv, NoWalk, OnTheWay, Listed, WalkIsComplete, RemovalHidesOne

\* Pages listed while nothing comes into the listing and nothing goes are the listing:
\* count tells how many there are, and every tenant is on them once; whatever the order
\* of the map if nothing is written between the pages, and whatever an update does to
\* that order if no two tenants were created at one instant.
THEOREM PagesAreComplete == Spec => []WalkIsComplete
<1>1. IndInv => WalkIsComplete
  BY DEF IndInv
<1> QED
  BY <1>1, WalkAtFirst, WalkKept, PTL DEF Spec

\* While tenants come and go between the pages, no more are passed over than go.
THEOREM PagesHideNoMoreThanGo == Spec => []RemovalHidesOne
<1>1. IndInv => RemovalHidesOne
  BY DEF IndInv
<1> QED
  BY <1>1, WalkAtFirst, WalkKept, PTL DEF Spec
=============================================================================
