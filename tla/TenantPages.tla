---------------------------- MODULE TenantPages ----------------------------
(***************************************************************************)
(* TenantFilter, list and count of the in-memory store (src/management.rs) *)
(* and a caller that asks for one page of tenants after another, newest    *)
(* first, while tenants are created, changed and removed between pages.    *)
(*                                                                         *)
(* A tenant is what filters and order look at.  A HashMap goes through its *)
(* buckets from one end to the other.  HashMap::insert may move all keys   *)
(* to other buckets, for a key that is there already as well: it makes     *)
(* room before it looks for the key.  Removing a key moves none.           *)
(* offset and limit are words; the arithmetic is that of a build without   *)
(* overflow checks in which usize is as wide as u64.  With the checks,     *)
(* list panics where this arithmetic goes round.                           *)
(***************************************************************************)
EXTENDS Naturals, Sequences, FiniteSets, Functions

CONSTANTS
    Ids,      \* ids of tenants
    Looks,    \* what a filter sees of a tenant
    Filters,  \* filters asked for
    Buckets,  \* BOUND: buckets of the table
    Instants, \* BOUND: created_at is a natural below this one
    Removals, \* BOUND: tenants that a listing loses while a caller goes through it
    WORDS,    \* the number of values of a word; 2^64 in the code
    None      \* an absent Option

\* What the with_ builders make, but for with_pagination: each field is asked for or
\* not.  Offset and limit change from page to page, and are given apart.
TenantFilter(filter) == DOMAIN filter = {"status", "plan", "owner", "search"}

ASSUME WordsAssumption == WORDS \in Nat \ {0}
ASSUME LooksAssumption == \A look \in Looks : DOMAIN look = {"status", "plan", "owner", "words"}
ASSUME FiltersAssumption == \A filter \in Filters : TenantFilter(filter)
ASSUME InstantsAssumption == Instants \in Nat \ {0} /\ Removals \in Nat

\* A store in memory holds fewer tenants than a word has values.
ASSUME IdsAssumption == IsFiniteSet(Ids) /\ Cardinality(Ids) < WORDS
ASSUME BucketsAssumption == Buckets \subseteq Nat

VARIABLES
    bucket,  \* the bucket in which the HashMap keeps each id
    tenants, \* the tenant of each id in the store: its look, and created_at
    walk     \* the pages a caller has listed

vars == <<bucket, tenants, walk>>

Words == 0 .. WORDS - 1

-----------------------------------------------------------------------------
\* InMemoryManagedTenantStore::matches; a search is for a part of name or id.
matches(filter, look) ==
    /\ filter.status \in {None, look.status}
    /\ filter.plan \in {None, look.plan}
    /\ filter.owner \in {None, look.owner}
    /\ filter.search \in {None} \cup look.words

Stored == DOMAIN tenants

\* The tenants that match; in the map's order when they are gone through.
filtered(filter) == {id \in Stored : matches(filter, tenants[id].look)}

\* sort_by_key(Reverse(created_at)) is stable: of tenants created at one instant the
\* one that the map comes to first stays first.
Before(a, b) ==
    \/ tenants[a].created > tenants[b].created
    \/ tenants[a].created = tenants[b].created /\ bucket[a] <= bucket[b]

\* Where a tenant comes in a sorted listing of `ids`.
Place(ids, id) == Cardinality({other \in ids : Before(other, id)})

\* Slip: no sort.
Unsorted(ids) ==
    LET Found(id) == Cardinality({other \in ids : bucket[other] <= bucket[id]}) IN
    [p \in 1 .. Cardinality(ids) |-> CHOOSE id \in ids : Found(id) = p]

NewestFirst(ids) ==
    [p \in 1 .. Cardinality(ids) |-> CHOOSE id \in ids : Place(ids, id) = p]

wrapping_add(a, b) == IF a + b >= WORDS THEN a + b - WORDS ELSE a + b
wrapping_sub(a, b) == IF a >= b THEN a - b ELSE a + WORDS - b

\* skip(start).take(n)
Taken(ids, start, n) ==
    SubSeq(ids, start + 1, IF start + n > Len(ids) THEN Len(ids) ELSE start + n)

\* Slip: no take.
PageToTheEnd(ids, offset, limit) == Taken(ids, offset, Len(ids))

\* Slip: the sub-slice from offset to `end`, which is empty when `end` is smaller.
PageUpToEnd(ids, offset, limit) ==
    LET end == wrapping_add(offset, limit) IN
    IF end < offset THEN <<>> ELSE Taken(ids, offset, end - offset)

Page(ids, offset, limit) ==
    LET end == wrapping_add(offset, limit) IN
    Taken(ids, offset, wrapping_sub(end, offset))

list(filter, offset, limit) == Page(NewestFirst(filtered(filter)), offset, limit)

\* Slip: the size of the page.
CountPage(filter, offset, limit) == Len(list(filter, offset, limit))

filtered_count(filter) == Cardinality(filtered(filter))

count(filter, offset, limit) == filtered_count(filter)

-----------------------------------------------------------------------------
\* seen: the ids on the pages, in their order.  The rest is history.  due: the tenants
\* that matched when the walk began, and have matched ever since.  grown: whether one
\* has come into the listing.  removed: how many have gone out of it.  moved: whether
\* an update may have moved keys.  tied: whether two tenants in the store were created
\* at one instant.
NoWalk ==
    [at |-> "none", filter |-> None, limit |-> 0, offset |-> 0, total |-> 0,
     seen |-> <<>>, due |-> {}, grown |-> FALSE, removed |-> 0,
     moved |-> FALSE, tied |-> FALSE]

Init ==
    /\ bucket = <<>>
    /\ tenants = <<>>
    /\ walk = NoWalk

\* A walk that has ended is forgotten with the next change.
Listed == walk.at = "page"

Tied == \E i, j \in Stored : i # j /\ tenants[i].created = tenants[j].created

\* created_at was taken when the record was built (ManagedTenant::from_tenant), which
\* other creates may have overtaken since.
Create(id, look, created) ==
    /\ id \notin Stored
    /\ tenants' = [i \in Stored \cup {id} |->
                     IF i = id THEN [look |-> look, created |-> created] ELSE tenants[i]]
    /\ bucket' \in Injection(Stored \cup {id}, Buckets)
    /\ walk' = IF Listed
                 THEN [walk EXCEPT !.grown = TRUE,
                                   !.tied = @ \/ \E i \in Stored : tenants[i].created = created]
                 ELSE NoWalk

\* The listing that a caller goes through loses a tenant.
WalkLoses(id, moved) ==
    IF id \in filtered(walk.filter)
      THEN /\ walk.removed < Removals
           /\ walk' = [walk EXCEPT !.due = @ \ {id}, !.removed = @ + 1, !.moved = moved]
      ELSE walk' = [walk EXCEPT !.moved = moved]

\* update inserts the record under a key that is there.
Update(id, look) ==
    /\ id \in Stored
    /\ tenants' = [tenants EXCEPT ![id].look = look]
    /\ bucket' \in Injection(Stored, Buckets)
    /\ IF ~Listed THEN walk' = NoWalk
       ELSE IF ~matches(walk.filter, look) THEN WalkLoses(id, TRUE)
       ELSE walk' = [walk EXCEPT !.moved = TRUE,
                                 !.grown = @ \/ id \notin filtered(walk.filter)]

Delete(id) ==
    /\ id \in Stored
    /\ tenants' = [i \in Stored \ {id} |-> tenants[i]]
    /\ bucket' = [i \in Stored \ {id} |-> bucket[i]]
    /\ IF Listed THEN WalkLoses(id, walk.moved) ELSE walk' = NoWalk

(* The caller: counts, then lists until a page is not full.                *)

Begin(filter, limit) ==
    /\ ~Listed
    /\ walk' = [NoWalk EXCEPT !.at = "page", !.filter = filter, !.limit = limit,
                              !.total = count(filter, 0, limit),
                              !.due = filtered(filter), !.tied = Tied]
    /\ UNCHANGED <<bucket, tenants>>

NextPage ==
    /\ Listed
    /\ LET page == list(walk.filter, walk.offset, walk.limit)
           full == Len(page) = walk.limit IN
       walk' = [walk EXCEPT !.at = IF full THEN "page" ELSE "done",
                            !.offset = IF full THEN @ + walk.limit ELSE @,
                            !.seen = @ \o page]
    /\ UNCHANGED <<bucket, tenants>>

Next ==
    \/ \E id \in Ids, look \in Looks, created \in 0 .. Instants - 1 : Create(id, look, created)
    \/ \E id \in Ids, look \in Looks : Update(id, look)
    \/ \E id \in Ids : Delete(id)
    \/ \E filter \in Filters, limit \in Words \ {0} : Begin(filter, limit)
    \/ NextPage

Spec == Init /\ [][Next]_vars

-----------------------------------------------------------------------------
(* Properties.                                                             *)

Seen == Range(walk.seen)

Walks ==
    [at : {"none", "page", "done"}, filter : Filters \cup {None}, limit : Words,
     offset : Words, total : Nat, seen : Seq(Ids), due : SUBSET Ids, grown : BOOLEAN,
     removed : 0 .. Removals, moved : BOOLEAN, tied : BOOLEAN]

\* The variables keep their types, no two ids are in one bucket, the offset of a walk
\* is the number of tenants on its full pages, and the last page is not full.
TypeOK ==
    /\ Stored \subseteq Ids
    /\ \A id \in Stored : tenants[id] \in [look : Looks, created : 0 .. Instants - 1]
    /\ bucket \in Injection(Stored, Buckets)
    /\ walk \in Walks
    /\ IF walk.at = "done" THEN Len(walk.seen) - walk.offset \in 0 .. walk.limit - 1
       ELSE Len(walk.seen) = walk.offset

\* A page is what lies between offset and offset + limit in plain arithmetic,
\* for every pair of words: that the sum goes round does no harm.
PageIsExact ==
    \A filter \in Filters :
        LET ids == NewestFirst(filtered(filter)) IN
        \A offset, limit \in Words : Page(ids, offset, limit) = Taken(ids, offset, limit)

\* Nothing has come or gone, and the order is what it was: an update may put tenants
\* that were created at one instant in another order.
Undisturbed == ~walk.grown /\ walk.removed = 0 /\ ~(walk.moved /\ walk.tied)

\* Pages listed while the listing stays as it is show every match exactly once, as
\* many as count has said: also when created_at does not tell all tenants apart, if
\* nothing is written in between, and also when tenants are updated in between, if it
\* does.  (With both, one may be missed and another one shown twice.)
WalkIsComplete ==
    walk.at = "done" /\ Undisturbed =>
        /\ Len(walk.seen) = walk.total
        /\ Seen = walk.due
        /\ Cardinality(walk.due) = walk.total

\* Tenants that come between the pages push others to later pages, where they are
\* seen twice, and hide none; each that goes hides one other at most.  All this if
\* created_at tells tenants apart.
RemovalHidesOne ==
    walk.at = "done" /\ ~walk.tied => Cardinality(walk.due \ Seen) <= walk.removed
=============================================================================
