------------------------ MODULE TenantDatabaseProofs ------------------------
(***************************************************************************)
(* Proofs about TenantDatabaseManager, for any number of tasks and         *)
(* databases.  Those about the connections do not depend on the order in   *)
(* which the lock is granted: they assume nothing of the queue.            *)
(***************************************************************************)
EXTENDS TenantDatabaseManager, SequenceTheorems, TLAPS

-----------------------------------------------------------------------------
(* The connections.                                                        *)

\* The types the proofs need, without those of the lock and its queue.
Typed ==
    /\ DOMAIN cache \subseteq Dbs
    /\ call \in [Tasks -> [at : Points, db : Dbs \cup {None}]]
    /\ \A t \in Tasks : call[t].at \in {"read", "write", "provider"} => call[t].db \in Dbs
    /\ opened \in [Dbs -> Nat]

\* The task that is opening a connection has the lock, its database is not
\* cached, and nobody can have dropped that in the meantime.
Exclusive ==
    /\ \A t \in Tasks : call[t].at = "provider" =>
         lock = t /\ call[t].db \notin DOMAIN cache
    /\ overtaken = {}

\* One connection per database is inductive only with the mutual exclusion of
\* openings: an opening that overlapped another, or a drop, would break it.
IndInv ==
    /\ Typed
    /\ Exclusive
    /\ OneConnectionPerDatabase
    /\ InvalidationIsFinal

\* An empty cache satisfies the invariant.
LEMMA InitInv == Init => IndInv
BY DEF Init, Idle, Points, IndInv, Typed, Exclusive, OneConnectionPerDatabase,
       InvalidationIsFinal

\* A step that leaves cache and history alone, and does not start to open a
\* connection, keeps the invariant if the lock is kept by whoever has it.
LEMMA QuietStep ==
    ASSUME IndInv, NEW t \in Tasks, NEW at \in Points \ {"provider"},
           NEW db \in Dbs \cup {None}, Await(t, at, db),
           at \in {"read", "write"} => db \in Dbs,
           UNCHANGED <<cache, opened>>, overtaken' \subseteq overtaken,
           \A u \in Tasks \ {t} : lock = u => lock' = u
    PROVE  IndInv'
<1>1. /\ call'[t] = [at |-> at, db |-> db]
      /\ \A u \in Tasks \ {t} : call'[u] = call[u]
      /\ call' \in [Tasks -> [at : Points, db : Dbs \cup {None}]]
  BY DEF Await, IndInv, Typed
<1>2. Typed'
  BY <1>1 DEF IndInv, Typed
<1>3. Exclusive'
  BY <1>1 DEF IndInv, Exclusive
<1> QED
  BY <1>2, <1>3 DEF IndInv, OneConnectionPerDatabase, InvalidationIsFinal

\* A call that returns waits, so to speak, for its task to call again.
LEMMA ReturnIsAwait ==
    ASSUME NEW t \in Tasks, Return(t)
    PROVE  Await(t, "idle", None)
BY DEF Return, Await, Idle

\* The steps of a call in progress keep the invariant ...
LEMMA ContinueInv ==
    ASSUME IndInv, NEW t \in Tasks, Continue(t)
    PROVE  IndInv'
<1> DEFINE db == call[t].db
<1>0. call \in [Tasks -> [at : Points, db : Dbs \cup {None}]]
  BY DEF IndInv, Typed
<1>1. CASE ReadHit(t) \/ RecheckHit(t)
  BY <1>1, ReturnIsAwait, QuietStep DEF ReadHit, RecheckHit, Points
<1>2. CASE ReadMiss(t)
  <2>1. db \in Dbs
    BY <1>2 DEF ReadMiss, IndInv, Typed
  <2> QED
    BY <1>2, <2>1, QuietStep DEF ReadMiss, Points
<1>3. CASE RecheckMiss(t)
  <2>1. /\ db \in Dbs /\ db \notin DOMAIN cache
        /\ lock = None /\ lock' = t /\ UNCHANGED <<cache, opened, overtaken>>
    BY <1>3 DEF RecheckMiss, Granted, IndInv, Typed
  <2>2. /\ call'[t] = [at |-> "provider", db |-> db]
        /\ \A u \in Tasks \ {t} : call'[u] = call[u]
        /\ call' \in [Tasks -> [at : Points, db : Dbs \cup {None}]]
    BY <1>0, <1>3, <2>1 DEF RecheckMiss, Await, Points
  <2>3. \A u \in Tasks : call[u].at # "provider"
    BY <2>1, TaskAssumption DEF IndInv, Exclusive
  <2>4. Typed'
    BY <2>1, <2>2 DEF IndInv, Typed
  <2>5. Exclusive'
    BY <2>1, <2>2, <2>3 DEF IndInv, Exclusive
  <2> QED
    BY <2>1, <2>4, <2>5 DEF IndInv, OneConnectionPerDatabase, InvalidationIsFinal
<1>4. CASE ProviderAnswers(t)
  <2>1. /\ call[t].at = "provider" /\ db \in Dbs /\ db \notin DOMAIN cache
        /\ lock = t /\ overtaken = {}
    BY <1>4 DEF ProviderAnswers, IndInv, Typed, Exclusive
  <2>2. /\ DOMAIN cache' = DOMAIN cache \cup {db} /\ cache'[db] = "current"
        /\ \A d \in DOMAIN cache : cache'[d] = cache[d]
        /\ opened' = [opened EXCEPT ![db] = @ + 1] /\ overtaken' = {}
    BY <1>4, <2>1 DEF ProviderAnswers, Unlock
  <2>3. /\ call'[t].at = "idle"
        /\ \A u \in Tasks \ {t} : call'[u] = call[u] /\ call[u].at # "provider"
        /\ call' \in [Tasks -> [at : Points, db : Dbs \cup {None}]]
    BY <1>0, <1>4, <2>1 DEF ProviderAnswers, Return, Idle, Points, IndInv, Exclusive
  <2>4. Typed'
    BY <2>1, <2>2, <2>3 DEF IndInv, Typed
  <2>5. Exclusive'
    BY <2>2, <2>3 DEF Exclusive
  <2>6. OneConnectionPerDatabase'
    BY <2>1, <2>2 DEF IndInv, Typed, OneConnectionPerDatabase
  <2>7. InvalidationIsFinal'
    BY <2>2 DEF IndInv, InvalidationIsFinal
  <2> QED
    BY <2>4, <2>5, <2>6, <2>7 DEF IndInv
<1>5. CASE ProviderFails(t)
  <2>1. /\ UNCHANGED <<cache, opened>> /\ overtaken' \subseteq overtaken
        /\ \A u \in Tasks \ {t} : lock = u => lock' = u
    BY <1>5 DEF ProviderFails, Unlock
  <2> QED
    BY <1>5, <2>1, ReturnIsAwait, QuietStep DEF ProviderFails, Points
<1>6. ASSUME NEW dbs, Drop(t, dbs)
      PROVE  IndInv'
  <2>1. \A u \in Tasks : call[u].at # "provider"
    BY <1>6, TaskAssumption DEF Drop, Granted, IndInv, Exclusive
  <2>2. /\ DOMAIN cache' = DOMAIN cache \ dbs
        /\ \A d \in DOMAIN cache' : cache'[d] = cache[d]
        /\ opened' = [d \in Dbs |-> IF d \in dbs THEN 0 ELSE opened[d]]
        /\ overtaken' = {}
    BY <1>6, <2>1 DEF Drop, IndInv, Exclusive
  <2>3. /\ call'[t].at = "idle"
        /\ \A u \in Tasks \ {t} : call'[u] = call[u]
        /\ call' \in [Tasks -> [at : Points, db : Dbs \cup {None}]]
    BY <1>0, <1>6 DEF Drop, Return, Idle, Points
  <2>4. Typed'
    BY <2>2, <2>3 DEF IndInv, Typed
  <2>5. Exclusive'
    BY <2>1, <2>2, <2>3 DEF Exclusive
  <2>6. OneConnectionPerDatabase' /\ InvalidationIsFinal'
    BY <2>2 DEF IndInv, OneConnectionPerDatabase, InvalidationIsFinal
  <2> QED
    BY <2>4, <2>5, <2>6 DEF IndInv
<1> QED
  BY <1>1, <1>2, <1>3, <1>4, <1>5, <1>6 DEF Continue, Clear, Invalidate

\* ... and so do all others.
LEMMA NextInv == IndInv /\ [Next]_vars => IndInv'
<1> SUFFICES ASSUME IndInv, [Next]_vars PROVE IndInv'
  OBVIOUS
<1>1. ASSUME NEW t \in Tasks, Invoke(t)
      PROVE  IndInv'
  <2>1. ASSUME NEW tenant \in Tenants, CallGet(t, tenant) PROVE IndInv'
    <3>1. database[tenant] \in Dbs
      BY <2>1 DEF CallGet, Dbs
    <3> QED
      BY <2>1, <3>1, QuietStep DEF CallGet, Points
  <2>2. ASSUME NEW tenant \in Tenants, CallInvalidate(t, tenant) PROVE IndInv'
    <3>1. database[tenant] \in Dbs
      BY <2>2 DEF CallInvalidate, Dbs
    <3> QED
      BY <2>2, <3>1, QuietStep DEF CallInvalidate, CallDrop, Points
  <2>3. CASE CallClear(t)
    BY <2>3, QuietStep DEF CallClear, CallDrop, Points
  <2>4. CASE ReadOnly(t)
    BY <2>4 DEF ReadOnly, vars, IndInv, Typed, Exclusive, OneConnectionPerDatabase,
                InvalidationIsFinal
  <2> QED
    BY <1>1, <2>1, <2>2, <2>3, <2>4 DEF Invoke
<1>2. ASSUME NEW t \in Tasks, Cancel(t)
      PROVE  IndInv'
  <2>1. /\ UNCHANGED <<cache, opened>> /\ overtaken' \subseteq overtaken
        /\ \A u \in Tasks \ {t} : lock = u => lock' = u
        /\ Return(t)
    BY <1>2 DEF Cancel, Unlock
  <2> QED
    BY <2>1, ReturnIsAwait, QuietStep DEF Points
<1>3. CASE UNCHANGED vars
  BY <1>3 DEF vars, IndInv, Typed, Exclusive, OneConnectionPerDatabase, InvalidationIsFinal
<1> QED
  BY <1>1, <1>2, <1>3, ContinueInv DEF Next

\* The invariant holds in every state of every behaviour.
THEOREM Invariance == Spec => []IndInv
BY InitInv, NextInv, PTL DEF Spec

\* One connection per cached database and drop, for any number of tasks, in
\* whatever order the lock is granted, with provider errors and cancellations.
THEOREM OneConnection == Spec => []OneConnectionPerDatabase
<1>1. IndInv => OneConnectionPerDatabase
  BY DEF IndInv
<1> QED
  BY <1>1, Invariance, PTL

\* No cached connection was being opened when its database was last dropped.
THEOREM InvalidationTheorem == Spec => []InvalidationIsFinal
<1>1. IndInv => InvalidationIsFinal
  BY DEF IndInv
<1> QED
  BY <1>1, Invariance, PTL

-----------------------------------------------------------------------------
(* The queue.                                                              *)

\* One that joins a queue comes last.
LEMMA JoinsQueue ==
    ASSUME NEW q \in Seq(Tasks), NEW t \in Tasks
    PROVE  /\ Append(q, t) \in Seq(Tasks)
           /\ Range(Append(q, t)) = Range(q) \cup {t}
           /\ IsInjective(q) /\ t \notin Range(q) => IsInjective(Append(q, t))
<1> DEFINE r == Append(q, t)
           n == Len(q)
<1>1. n \in Nat /\ DOMAIN q = 1 .. n
  BY LenProperties
<1>2. /\ r \in Seq(Tasks) /\ Len(r) = n + 1 /\ r[n + 1] = t
      /\ \A i \in 1 .. n : r[i] = q[i]
  BY AppendProperties
<1> HIDE DEF r, n
<1>3. DOMAIN r = 1 .. n + 1
  BY <1>2, LenProperties
<1>4. Range(r) = Range(q) \cup {t}
  BY <1>1, <1>2, <1>3 DEF Range
<1>5. ASSUME IsInjective(q), t \notin Range(q) PROVE IsInjective(r)
  <2> SUFFICES ASSUME NEW i \in 1 .. n + 1, NEW j \in 1 .. n + 1, r[i] = r[j]
               PROVE  i = j
    BY <1>3 DEF IsInjective
  <2>1. CASE i \in 1 .. n /\ j \in 1 .. n
    BY <1>1, <1>2, <1>5, <2>1 DEF IsInjective
  <2>2. CASE i = n + 1 \/ j = n + 1
    BY <1>1, <1>2, <1>5, <2>2 DEF Range
  <2> QED BY <1>1, <2>1, <2>2
<1> QED
  BY <1>2, <1>4, <1>5 DEF r

\* One that leaves a queue leaves the others in it.
LEMMA LeavesQueue ==
    ASSUME NEW q \in Seq(Tasks), NEW place \in DOMAIN q
    PROVE  /\ RemoveAt(q, place) \in Seq(Tasks)
           /\ IsInjective(q) => /\ Range(RemoveAt(q, place)) = Range(q) \ {q[place]}
                                /\ IsInjective(RemoveAt(q, place))
<1> DEFINE r == RemoveAt(q, place)
           n == Len(q)
           a == SubSeq(q, 1, place - 1)
           b == SubSeq(q, place + 1, n)
<1>1. n \in Nat /\ DOMAIN q = 1 .. n /\ place \in 1 .. n /\ \A i \in 1 .. n : q[i] \in Tasks
  BY LenProperties, ElementOfSeq
<1>2. r = a \o b
  BY DEF RemoveAt
<1>3. /\ a \in Seq(Tasks) /\ Len(a) = place - 1
      /\ \A i \in 1 .. place - 1 : a[i] = q[i]
  <2>1. /\ 1 \in Int /\ place - 1 \in Int
        /\ \A i \in 1 .. place - 1 : q[i] \in Tasks
    BY <1>1
  <2>2. /\ a \in Seq(Tasks) /\ Len(a) = IF 1 <= place - 1 THEN place - 1 - 1 + 1 ELSE 0
        /\ \A i \in 1 .. place - 1 - 1 + 1 : a[i] = q[1 + i - 1]
    BY <2>1, SubSeqProperties
  <2> HIDE DEF a, n
  <2> QED BY <1>1, <2>2
<1>4. /\ b \in Seq(Tasks) /\ Len(b) = n - place
      /\ \A i \in 1 .. n - place : b[i] = q[place + i]
  <2>1. /\ place + 1 \in Int /\ n \in Int
        /\ \A i \in place + 1 .. n : q[i] \in Tasks
    BY <1>1
  <2>2. /\ b \in Seq(Tasks) /\ Len(b) = IF place + 1 <= n THEN n - (place + 1) + 1 ELSE 0
        /\ \A i \in 1 .. n - (place + 1) + 1 : b[i] = q[place + 1 + i - 1]
    BY <2>1, SubSeqProperties
  <2> HIDE DEF b, n
  <2>3. n - (place + 1) + 1 = n - place /\ \A i \in Nat : place + 1 + i - 1 = place + i
    BY <1>1
  <2>4. Len(b) = n - place
    BY <1>1, <2>2, <2>3
  <2>5. ASSUME NEW i \in 1 .. n - place PROVE b[i] = q[place + i]
    <3>1. b[i] = q[place + 1 + i - 1]
      BY <2>2, <2>3
    <3>2. place + 1 + i - 1 = place + i
      BY <1>1
    <3> QED BY <3>1, <3>2
  <2> QED BY <2>2, <2>4, <2>5
<1> HIDE DEF r, a, b, n
<1>5. /\ r \in Seq(Tasks) /\ Len(r) = n - 1
      /\ \A i \in 1 .. n - 1 : r[i] = IF i < place THEN q[i] ELSE q[i + 1]
  <2>1. /\ a \o b \in Seq(Tasks) /\ Len(a \o b) = Len(a) + Len(b)
        /\ \A i \in 1 .. Len(a) + Len(b) :
             (a \o b)[i] = IF i <= Len(a) THEN a[i] ELSE b[i - Len(a)]
    BY <1>3, <1>4, ConcatProperties
  <2>2. Len(a) + Len(b) = n - 1
    BY <1>1, <1>3, <1>4
  <2>3. ASSUME NEW i \in 1 .. n - 1, i < place PROVE r[i] = q[i]
    BY <1>1, <1>2, <1>3, <2>1, <2>2, <2>3
  <2>4. ASSUME NEW i \in 1 .. n - 1, i >= place PROVE r[i] = q[i + 1]
    <3>1. r[i] = b[i - (place - 1)]
      BY <1>1, <1>2, <1>3, <2>1, <2>2, <2>4
    <3>2. i - (place - 1) \in 1 .. n - place /\ place + (i - (place - 1)) = i + 1
      BY <1>1, <2>4
    <3> QED BY <1>4, <3>1, <3>2
  <2> QED BY <1>1, <1>2, <2>1, <2>2, <2>3, <2>4
<1>6. DOMAIN r = 1 .. n - 1
  BY <1>5, LenProperties
<1>7. ASSUME IsInjective(q) PROVE IsInjective(r)
  <2> SUFFICES ASSUME NEW i \in 1 .. n - 1, NEW j \in 1 .. n - 1, r[i] = r[j]
               PROVE  i = j
    BY <1>6 DEF IsInjective
  <2>1. \A k, l \in 1 .. n : q[k] = q[l] => k = l
    BY <1>1, <1>7 DEF IsInjective
  <2>2. CASE i < place /\ j < place
    BY <1>1, <1>5, <2>1, <2>2
  <2>3. CASE i < place /\ ~(j < place)
    BY <1>1, <1>5, <2>1, <2>3
  <2>4. CASE ~(i < place) /\ j < place
    BY <1>1, <1>5, <2>1, <2>4
  <2>5. CASE ~(i < place) /\ ~(j < place)
    <3>1. i + 1 \in 1 .. n /\ j + 1 \in 1 .. n /\ q[i + 1] = q[j + 1]
      BY <1>1, <1>5, <2>5
    <3> QED BY <2>1, <3>1
  <2> QED BY <2>2, <2>3, <2>4, <2>5
<1>8. ASSUME IsInjective(q) PROVE Range(r) = Range(q) \ {q[place]}
  <2>1. \A k, l \in 1 .. n : q[k] = q[l] => k = l
    BY <1>1, <1>8 DEF IsInjective
  <2>2. ASSUME NEW i \in 1 .. n - 1 PROVE r[i] \in Range(q) \ {q[place]}
    <3>1. PICK k \in 1 .. n : r[i] = q[k] /\ k # place
      <4>1. CASE i < place
        BY <1>1, <1>5, <4>1
      <4>2. CASE ~(i < place)
        <5>1. i + 1 \in 1 .. n /\ r[i] = q[i + 1] /\ i + 1 # place
          BY <1>1, <1>5, <4>2
        <5> QED BY <5>1
      <4> QED BY <4>1, <4>2
    <3> QED BY <1>1, <2>1, <3>1 DEF Range
  <2>3. ASSUME NEW k \in 1 .. n, k # place PROVE q[k] \in Range(r)
    <3>1. CASE k < place
      BY <1>1, <1>5, <1>6, <3>1 DEF Range
    <3>2. CASE k > place
      <4>1. k - 1 \in 1 .. n - 1 /\ r[k - 1] = q[k]
        BY <1>1, <1>5, <3>2
      <4> QED BY <1>6, <4>1 DEF Range
    <3> QED BY <1>1, <2>3, <3>1, <3>2
  <2> QED BY <1>1, <1>6, <2>2, <2>3 DEF Range
<1> QED
  BY <1>5, <1>7, <1>8 DEF r

\* The one at its head, for example.
LEMMA HeadLeavesQueue ==
    ASSUME NEW q \in Seq(Tasks), IsInjective(q), q # <<>>
    PROVE  /\ Tail(q) \in Seq(Tasks) /\ Head(q) \in Range(q)
           /\ Range(Tail(q)) = Range(q) \ {Head(q)}
           /\ IsInjective(Tail(q))
<1> DEFINE n == Len(q)
<1>1. n \in Nat /\ DOMAIN q = 1 .. n /\ n # 0 /\ Head(q) = q[1]
  BY LenProperties, EmptySeq
<1>2. /\ Tail(q) \in Seq(Tasks) /\ Len(Tail(q)) = n - 1
      /\ \A i \in 1 .. n - 1 : Tail(q)[i] = q[i + 1]
  BY HeadTailProperties
<1>3. DOMAIN Tail(q) = 1 .. n - 1
  BY <1>2, LenProperties
<1>4. \A k, l \in 1 .. n : q[k] = q[l] => k = l
  BY <1>1 DEF IsInjective
<1> HIDE DEF n
<1>5. IsInjective(Tail(q))
  BY <1>1, <1>2, <1>3, <1>4 DEF IsInjective
<1>6. Range(Tail(q)) = Range(q) \ {q[1]}
  <2>1. ASSUME NEW i \in 1 .. n - 1 PROVE Tail(q)[i] \in Range(q) \ {q[1]}
    BY <1>1, <1>2, <1>4 DEF Range
  <2>2. ASSUME NEW k \in 2 .. n PROVE q[k] \in Range(Tail(q))
    <3>1. k - 1 \in 1 .. n - 1 /\ Tail(q)[k - 1] = q[k]
      BY <1>1, <1>2
    <3> QED BY <1>3, <3>1 DEF Range
  <2> QED BY <1>1, <1>3, <2>1, <2>2 DEF Range
<1>7. Head(q) \in Range(q)
  <2>1. 1 \in 1 .. n
    BY <1>1
  <2> QED BY <1>1, <2>1 DEF Range
<1> QED
  BY <1>1, <1>2, <1>5, <1>6, <1>7

-----------------------------------------------------------------------------
(* The types.                                                              *)

\* What a task may be at, as TypeOK says.
Calls ==
    [at : {"idle", "clear"}, db : {None}] \cup [at : Points \ {"idle", "clear"}, db : Dbs]

LEMMA TypesAtFirst == Init => TypeOK
<1> SUFFICES ASSUME Init PROVE TypeOK
  OBVIOUS
<1>1. queue \in Seq(Tasks)
  BY EmptySeq DEF Init
<1>2. call \in [Tasks -> Calls]
  BY DEF Init, Idle, Calls
<1> QED
  BY <1>1, <1>2 DEF Init, TypeOK, Calls

\* A call has a database where it needs one, and leaves nothing but tasks in the queue.
LEMMA TypesKept ==
    ASSUME TypeOK, [Next]_vars
    PROVE  TypeOK'
<1>1. /\ queue \in Seq(Tasks) /\ call \in [Tasks -> Calls]
      /\ lock \in Tasks \cup {None} /\ overtaken \subseteq Tasks
  BY DEF TypeOK, Calls
<1>2. ASSUME NEW t \in Tasks, NEW at, NEW db, [at |-> at, db |-> db] \in Calls, Await(t, at, db)
      PROVE  call' \in [Tasks -> Calls]
  BY <1>1, <1>2 DEF Await
<1>3. ASSUME NEW t \in Tasks, Return(t)
      PROVE  call' \in [Tasks -> Calls]
  BY <1>2, <1>3, ReturnIsAwait DEF Calls
<1>4. ASSUME NEW t \in Tasks, Granted(t)
      PROVE  Tail(queue) \in Seq(Tasks)
  BY <1>1, <1>4, HeadTailProperties DEF Granted
<1>5. \A q \in Seq(Tasks), t \in Tasks : Append(q, t) \in Seq(Tasks)
  BY JoinsQueue
<1>6. \A t \in Tasks : /\ call[t].at \in {"idle", "clear"} => call[t].db = None
                       /\ call[t].at \notin {"idle", "clear"} => call[t].db \in Dbs
                       /\ call[t].at \in Points
  BY <1>1 DEF Calls, Points
<1>7. ASSUME NEW t \in Tasks, Invoke(t) PROVE TypeOK'
  <2>1. ASSUME NEW tenant \in Tenants, CallGet(t, tenant) PROVE TypeOK'
    <3>1. [at |-> "read", db |-> database[tenant]] \in Calls
      BY <2>1 DEF CallGet, Calls, Points, Dbs
    <3>2. call' \in [Tasks -> Calls] /\ queue' \in Seq(Tasks)
      BY <1>1, <1>2, <1>5, <2>1, <3>1 DEF CallGet
    <3> QED BY <2>1, <3>2 DEF CallGet, TypeOK, Calls
  <2>2. ASSUME NEW at \in {"clear", "invalidate"}, NEW db, CallDrop(t, at, db),
               [at |-> at, db |-> db] \in Calls
        PROVE  TypeOK'
    <3>1. call' \in [Tasks -> Calls] /\ queue' \in Seq(Tasks)
      BY <1>1, <1>2, <1>5, <2>2 DEF CallDrop
    <3> QED BY <2>2, <3>1 DEF CallDrop, TypeOK, Calls
  <2>3. CASE CallClear(t)
    BY <2>2, <2>3 DEF CallClear, Calls
  <2>4. ASSUME NEW tenant \in Tenants, CallInvalidate(t, tenant) PROVE TypeOK'
    BY <2>2, <2>4 DEF CallInvalidate, Calls, Points, Dbs
  <2>5. CASE ReadOnly(t)
    BY <2>5 DEF ReadOnly, vars, TypeOK
  <2> QED BY <1>7, <2>1, <2>3, <2>4, <2>5 DEF Invoke
<1>8. ASSUME NEW t \in Tasks, Continue(t) PROVE TypeOK'
  <2>1. CASE ReadHit(t) \/ RecheckHit(t)
    <3>1. call' \in [Tasks -> Calls] /\ queue' \in Seq(Tasks)
      BY <1>3, <1>4, <2>1 DEF ReadHit, RecheckHit
    <3> QED BY <2>1, <3>1 DEF ReadHit, RecheckHit, TypeOK, Calls
  <2>2. CASE ReadMiss(t)
    <3>1. [at |-> "write", db |-> call[t].db] \in Calls
      BY <1>6, <2>2 DEF ReadMiss, Calls, Points
    <3>2. call' \in [Tasks -> Calls] /\ queue' \in Seq(Tasks)
      BY <1>2, <1>4, <1>5, <2>2, <3>1 DEF ReadMiss
    <3> QED BY <2>2, <3>2 DEF ReadMiss, TypeOK, Calls
  <2>3. CASE RecheckMiss(t)
    <3>1. [at |-> "provider", db |-> call[t].db] \in Calls
      BY <1>6, <2>3 DEF RecheckMiss, Calls, Points
    <3>2. call' \in [Tasks -> Calls] /\ queue' \in Seq(Tasks)
      BY <1>2, <1>4, <2>3, <3>1 DEF RecheckMiss
    <3> QED BY <2>3, <3>2 DEF RecheckMiss, TypeOK, Calls
  <2>4. CASE ProviderAnswers(t)
    <3>1. call[t].db \in Dbs
      BY <1>6, <2>4 DEF ProviderAnswers
    <3>2. /\ DOMAIN cache' \subseteq Dbs
          /\ \A db \in DOMAIN cache' : cache'[db] \in {"current", "outdated"}
          /\ opened' \in [Dbs -> Nat]
      BY <2>4, <3>1 DEF ProviderAnswers, TypeOK
    <3>3. call' \in [Tasks -> Calls]
      BY <1>3, <2>4 DEF ProviderAnswers
    <3>4. lock' \in Tasks \cup {None} /\ overtaken' \subseteq Tasks /\ queue' \in Seq(Tasks)
      BY <1>1, <2>4 DEF ProviderAnswers, Unlock
    <3> QED BY <3>2, <3>3, <3>4 DEF TypeOK, Calls
  <2>5. CASE ProviderFails(t)
    <3>1. call' \in [Tasks -> Calls]
      BY <1>3, <2>5 DEF ProviderFails
    <3> QED BY <2>5, <3>1 DEF ProviderFails, Unlock, TypeOK, Calls
  <2>6. ASSUME NEW dbs, Drop(t, dbs) PROVE TypeOK'
    <3>1. call' \in [Tasks -> Calls] /\ queue' \in Seq(Tasks)
      BY <1>3, <1>4, <2>6 DEF Drop
    <3>2. /\ DOMAIN cache' \subseteq Dbs
          /\ \A db \in DOMAIN cache' : cache'[db] \in {"current", "outdated"}
          /\ opened' \in [Dbs -> Nat]
      BY <2>6 DEF Drop, TypeOK
    <3> QED BY <1>1, <2>6, <3>1, <3>2 DEF Drop, TypeOK, Calls
  <2> QED BY <1>8, <2>1, <2>2, <2>3, <2>4, <2>5, <2>6 DEF Continue, Clear, Invalidate
<1>9. ASSUME NEW t \in Tasks, Cancel(t) PROVE TypeOK'
  <2>1. call' \in [Tasks -> Calls]
    BY <1>3, <1>9 DEF Cancel
  <2>2. queue' \in Seq(Tasks)
    <3>1. ASSUME NEW place \in DOMAIN queue PROVE RemoveAt(queue, place) \in Seq(Tasks)
      BY <1>1, LeavesQueue
    <3> QED BY <1>1, <1>9, <3>1 DEF Cancel, Leave
  <2> QED BY <1>9, <2>1, <2>2 DEF Cancel, Unlock, TypeOK, Calls
<1>10. CASE UNCHANGED vars
  BY <1>10 DEF vars, TypeOK
<1> QED
  BY <1>7, <1>8, <1>9, <1>10 DEF Next

\* The manager keeps its types; a call that opens or forgets one connection has the
\* name of a database for it.
THEOREM DatabaseTypeTheorem == Spec => []TypeOK
<1> QED
  BY TypesAtFirst, TypesKept, PTL DEF Spec

-----------------------------------------------------------------------------
(* The turns.                                                              *)

Waiting == {t \in Tasks : call[t].at \notin {"idle", "provider"}}

\* The lock is with the task that is at the provider, the queue has every task that
\* waits in it once, and no other: a task that goes, for whatever reason, takes neither
\* the lock nor a place in the queue with it.
Turns ==
    /\ \A t \in Tasks : call[t].at = "provider" <=> lock = t
    /\ IsInjective(queue)
    /\ Range(queue) = Waiting

\* From here on only where a call waits matters, and not for what.
At(t, at) ==
    /\ call'[t].at = at
    /\ \A u \in Tasks \ {t} : call'[u] = call[u]

LEMMA AwaitIsAt ==
    ASSUME TypeOK, NEW t \in Tasks
    PROVE  /\ \A at, db : Await(t, at, db) => At(t, at)
           /\ Return(t) => At(t, "idle")
BY DEF TypeOK, Await, Return, Idle, At

\* A task that begins to wait comes last.
LEMMA TurnsAfterInvoke ==
    ASSUME TypeOK, Turns, NEW t \in Tasks, call[t].at = "idle",
           NEW at \in {"read", "clear", "invalidate"}, At(t, at),
           queue' = Append(queue, t), lock' = lock
    PROVE  Turns'
<1>1. queue \in Seq(Tasks) /\ t \notin Range(queue)
  BY DEF TypeOK, Turns, Waiting
<1>2. IsInjective(queue') /\ Range(queue') = Range(queue) \cup {t}
  BY <1>1, JoinsQueue DEF Turns
<1>3. Waiting' = Waiting \cup {t}
  BY DEF Waiting, At
<1>4. \A u \in Tasks : call'[u].at = "provider" <=> lock' = u
  BY DEF At, Turns
<1> QED
  BY <1>2, <1>3, <1>4 DEF Turns

\* A task that has its turn, and then returns or keeps the lock.
LEMMA TurnsAfterTurn ==
    ASSUME TypeOK, Turns, NEW t \in Tasks, call[t].at # "idle", Granted(t),
           NEW at \in {"idle", "provider"}, At(t, at),
           queue' = Tail(queue), lock' = IF at = "provider" THEN t ELSE lock
    PROVE  Turns'
<1>1. queue \in Seq(Tasks) /\ queue # <<>> /\ Head(queue) = t /\ lock = None
  BY DEF TypeOK, Granted
<1>2. IsInjective(queue') /\ Range(queue') = Range(queue) \ {t}
  BY <1>1, HeadLeavesQueue DEF Turns
<1>3. Waiting' = Waiting \ {t}
  BY DEF Waiting, At
<1>4. \A u \in Tasks : call'[u].at = "provider" <=> lock' = u
  BY <1>1, TaskAssumption DEF At, Turns
<1> QED
  BY <1>2, <1>3, <1>4 DEF Turns

\* A get whose database is not cached queues a second time.
LEMMA TurnsAfterMiss ==
    ASSUME TypeOK, Turns, NEW t \in Tasks, ReadMiss(t)
    PROVE  Turns'
<1>1. /\ queue \in Seq(Tasks) /\ queue # <<>> /\ Head(queue) = t /\ lock' = lock
      /\ call[t].at = "read" /\ queue' = Append(Tail(queue), t)
  BY DEF TypeOK, ReadMiss, Granted
<1>2. At(t, "write")
  BY AwaitIsAt DEF ReadMiss
<1>3. /\ Tail(queue) \in Seq(Tasks) /\ IsInjective(Tail(queue))
      /\ Range(Tail(queue)) = Range(queue) \ {t} /\ t \in Range(queue)
  BY <1>1, HeadLeavesQueue DEF Turns
<1>4. IsInjective(queue') /\ Range(queue') = Range(queue)
  <2>1. /\ t \notin Range(Tail(queue))
        /\ Range(queue') = Range(Tail(queue)) \cup {t}
        /\ t \notin Range(Tail(queue)) => IsInjective(queue')
    BY <1>1, <1>3, JoinsQueue
  <2> QED BY <1>3, <2>1
<1>5. Waiting' = Waiting
  BY <1>1, <1>2 DEF Waiting, At
<1>6. \A u \in Tasks : call'[u].at = "provider" <=> lock' = u
  BY <1>1, <1>2 DEF At, Turns
<1> QED
  BY <1>4, <1>5, <1>6 DEF Turns

\* A call that ends at the provider, or is cancelled wherever it waits.
LEMMA TurnsAfterEnd ==
    ASSUME TypeOK, Turns, NEW t \in Tasks, call[t].at # "idle", Unlock(t), At(t, "idle"),
           Leave(t)
    PROVE  Turns'
<1>1. \A u \in Tasks : call'[u].at = "provider" <=> lock' = u
  BY TaskAssumption DEF Unlock, At, Turns
<1>2. Waiting' = Waiting \ {t}
  BY DEF Waiting, At
<1>3. queue \in Seq(Tasks) /\ IsInjective(queue) /\ Range(queue) = Waiting
  BY DEF TypeOK, Turns
<1>4. CASE t \notin Range(queue) /\ UNCHANGED queue
  BY <1>1, <1>2, <1>3, <1>4 DEF Turns
<1>5. CASE \E place \in DOMAIN queue : queue[place] = t /\ queue' = RemoveAt(queue, place)
  <2>1. IsInjective(queue') /\ Range(queue') = Range(queue) \ {t}
    BY <1>3, <1>5, LeavesQueue
  <2> QED BY <1>1, <1>2, <1>3, <2>1 DEF Turns
<1> QED
  BY <1>4, <1>5 DEF Leave

LEMMA TurnsKept ==
    ASSUME TypeOK, Turns, [Next]_vars
    PROVE  Turns'
<1>1. ASSUME NEW t \in Tasks, Invoke(t) PROVE Turns'
  <2>1. ASSUME NEW at \in {"clear", "invalidate"}, NEW db, CallDrop(t, at, db) PROVE Turns'
    BY <2>1, AwaitIsAt, TurnsAfterInvoke DEF CallDrop
  <2>2. ASSUME NEW tenant \in Tenants, CallGet(t, tenant) PROVE Turns'
    BY <2>2, AwaitIsAt, TurnsAfterInvoke DEF CallGet
  <2>3. CASE ReadOnly(t)
    BY <2>3 DEF ReadOnly, vars, Turns, Waiting
  <2> QED BY <1>1, <2>1, <2>2, <2>3 DEF Invoke, CallClear, CallInvalidate
<1>2. ASSUME NEW t \in Tasks, Continue(t) PROVE Turns'
  <2>1. CASE ReadHit(t) \/ RecheckHit(t)
    BY <2>1, AwaitIsAt, TurnsAfterTurn DEF ReadHit, RecheckHit
  <2>2. CASE ReadMiss(t)
    BY <2>2, TurnsAfterMiss
  <2>3. CASE RecheckMiss(t)
    BY <2>3, AwaitIsAt, TurnsAfterTurn DEF RecheckMiss
  <2>4. CASE ProviderAnswers(t) \/ ProviderFails(t)
    <3>1. /\ call[t].at = "provider" /\ Unlock(t) /\ At(t, "idle") /\ queue' = queue
      BY <2>4, AwaitIsAt DEF ProviderAnswers, ProviderFails
    <3>2. t \notin Range(queue)
      BY <3>1 DEF Turns, Waiting
    <3> QED BY <3>1, <3>2, TurnsAfterEnd DEF Leave
  <2>5. ASSUME NEW dbs, Drop(t, dbs), call[t].at # "idle" PROVE Turns'
    BY <2>5, AwaitIsAt, TurnsAfterTurn DEF Drop
  <2> QED BY <1>2, <2>1, <2>2, <2>3, <2>4, <2>5 DEF Continue, Clear, Invalidate
<1>3. ASSUME NEW t \in Tasks, Cancel(t) PROVE Turns'
  BY <1>3, AwaitIsAt, TurnsAfterEnd DEF Cancel
<1>4. CASE UNCHANGED vars
  BY <1>4 DEF vars, Turns, Waiting
<1> QED
  BY <1>1, <1>2, <1>3, <1>4 DEF Next

LEMMA TurnsAtFirst == Init => Turns
BY TaskAssumption DEF Init, Idle, Turns, Waiting, Range, IsInjective

\* The queue is first come first served and nobody in it is gone, so the one at its
\* head has its turn as soon as the lock is free, and the lock is held by none but a
\* task at the provider.
LEMMA TurnsMove ==
    ASSUME TypeOK, Turns
    PROVE  SomebodyMoves
<1> SUFFICES ASSUME NEW t \in Tasks, call[t].at # "idle"
             PROVE  \E u \in Tasks :
                      call[u].at = "provider" \/ (Granted(u) /\ call[u].at # "idle")
  BY DEF SomebodyMoves
<1>1. CASE lock # None
  BY <1>1 DEF TypeOK, Turns
<1>2. CASE lock = None
  <2>1. t \in Range(queue)
    BY <1>2, TaskAssumption DEF Turns, Waiting
  <2>2. queue # <<>>
    BY <2>1 DEF Range
  <2>3. Head(queue) \in Range(queue)
    BY <2>2, HeadLeavesQueue DEF TypeOK, Turns
  <2>4. Head(queue) \in Tasks /\ call[Head(queue)].at # "idle"
    BY <2>3 DEF Turns, Waiting
  <2> QED BY <1>2, <2>2, <2>4 DEF Granted
<1> QED
  BY <1>1, <1>2

\* Calls never come to a standstill, for any number of tasks, whatever the provider
\* answers and whichever calls are cancelled.
THEOREM SomebodyMovesTheorem == Spec => []SomebodyMoves
<1> DEFINE Inv == TypeOK /\ Turns
<1>1. Init => Inv
  BY TypesAtFirst, TurnsAtFirst
<1>2. Inv /\ [Next]_vars => Inv'
  BY TypesKept, TurnsKept
<1>3. Inv => SomebodyMoves
  BY TurnsMove
<1> QED
  BY <1>1, <1>2, <1>3, PTL DEF Spec
=============================================================================
