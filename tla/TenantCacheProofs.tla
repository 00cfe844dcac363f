------------------------- MODULE TenantCacheProofs -------------------------
(***************************************************************************)
(* Proofs about CacheKey and TenantCache: the length in front of an id     *)
(* makes keys unambiguous, whatever ids and keys are made of, and so       *)
(* tenants that share a cache do not meet in it.                           *)
(***************************************************************************)
EXTENDS TenantCache, SequenceLemmas

-----------------------------------------------------------------------------
(* Keys.                                                                   *)

\* Two strings one after the other, byte by byte.
LEMMA Joined ==
    ASSUME NEW s \in Seq(Bytes), NEW t \in Seq(Bytes), NEW u, u = s \o t
    PROVE  /\ u \in Seq(Bytes)
           /\ Len(u) = Len(s) + Len(t)
           /\ \A i \in 1 .. Len(s) : u[i] = s[i]
           /\ \A i \in 1 .. Len(t) : u[Len(s) + i] = t[i]
OBVIOUS

\* A key, byte by byte.
LEMMA KeyBytes ==
    ASSUME NEW id \in TenantIds, NEW key \in Strings
    PROVE  LET d == Decimal[Len(id)]
               s == cache_key(id, key) IN
           /\ d \in Seq(Digits)
           /\ s \in Strings
           /\ Len(s) = Len(d) + Len(id) + Len(key) + 3
           /\ \A i \in 1 .. Len(d) : s[i + 1] = d[i]
           /\ s[Len(d) + 2] = ":"
           /\ \A i \in 1 .. Len(id) : s[Len(d) + 2 + i] = id[i]
           /\ \A i \in 1 .. Len(key) : s[Len(d) + Len(id) + 3 + i] = key[i]
<1> DEFINE d == Decimal[Len(id)]
           start == <<"tenant:">>
           colon == <<":">>
           s1 == start \o d
           s2 == s1 \o colon
           s3 == s2 \o id
           s4 == s3 \o colon
           s5 == s4 \o key
           n == Len(d)
           m == Len(id)
<1>1. /\ d \in Seq(Digits) /\ d \in Seq(Bytes) /\ n \in Nat /\ m \in Nat
      /\ start \in Seq(Bytes) /\ Len(start) = 1
      /\ colon \in Seq(Bytes) /\ Len(colon) = 1 /\ colon[1] = ":"
      /\ id \in Seq(Bytes) /\ key \in Seq(Bytes)
  <2>1. Len(id) \in Lengths /\ id \in Seq(Bytes) /\ key \in Seq(Bytes)
    BY DEF TenantIds, Strings
  <2>2. d \in Seq(Digits) /\ Digits \subseteq Bytes /\ ":" \in Bytes /\ "tenant:" \in Bytes
    BY <2>1, DecimalAssumption, BytesAssumption
  <2>3. d \in Seq(Bytes)
    BY <2>2
  <2> QED
    BY <2>1, <2>2, <2>3
<1>7. s5 = cache_key(id, key)
  BY DEF cache_key
<1> HIDE DEF d, start, colon
<1>j. /\ s1 = start \o d /\ s2 = s1 \o colon /\ s3 = s2 \o id
      /\ s4 = s3 \o colon /\ s5 = s4 \o key /\ n = Len(d) /\ m = Len(id)
  OBVIOUS
<1> HIDE DEF s1, s2, s3, s4, s5, n, m
<1>2. /\ s1 \in Seq(Bytes) /\ Len(s1) = n + 1
      /\ \A i \in 1 .. n : s1[1 + i] = d[i]
  <2>0. start \in Seq(Bytes) /\ d \in Seq(Bytes) /\ s1 = start \o d
    BY <1>1, <1>j
  <2>1. /\ s1 \in Seq(Bytes) /\ Len(s1) = Len(start) + Len(d)
        /\ \A i \in 1 .. Len(d) : s1[Len(start) + i] = d[i]
    BY <2>0, Joined
  <2> QED
    BY <1>1, <1>j, <2>1
<1>3. /\ s2 \in Seq(Bytes) /\ Len(s2) = n + 2
      /\ \A i \in 1 .. n + 1 : s2[i] = s1[i]
      /\ s2[n + 2] = ":"
  <2>0. s1 \in Seq(Bytes) /\ colon \in Seq(Bytes) /\ s2 = s1 \o colon
    BY <1>1, <1>2, <1>j
  <2>1. /\ s2 \in Seq(Bytes) /\ Len(s2) = Len(s1) + Len(colon)
        /\ \A i \in 1 .. Len(s1) : s2[i] = s1[i]
        /\ \A i \in 1 .. Len(colon) : s2[Len(s1) + i] = colon[i]
    BY <2>0, Joined
  <2>2. n + 1 + 1 = n + 2 /\ 1 \in 1 .. Len(colon)
    BY <1>1
  <2> QED
    BY <1>1, <1>2, <2>1, <2>2
<1>4. /\ s3 \in Seq(Bytes) /\ Len(s3) = n + 2 + m
      /\ \A i \in 1 .. n + 2 : s3[i] = s2[i]
      /\ \A i \in 1 .. m : s3[n + 2 + i] = id[i]
  <2>0. s2 \in Seq(Bytes) /\ id \in Seq(Bytes) /\ s3 = s2 \o id
    BY <1>1, <1>3, <1>j
  <2>1. /\ s3 \in Seq(Bytes) /\ Len(s3) = Len(s2) + Len(id)
        /\ \A i \in 1 .. Len(s2) : s3[i] = s2[i]
        /\ \A i \in 1 .. Len(id) : s3[Len(s2) + i] = id[i]
    BY <2>0, Joined
  <2> QED
    BY <1>3, <1>j, <2>1
<1>5. /\ s4 \in Seq(Bytes) /\ Len(s4) = n + m + 3
      /\ \A i \in 1 .. n + 2 + m : s4[i] = s3[i]
  <2>0. s3 \in Seq(Bytes) /\ colon \in Seq(Bytes) /\ s4 = s3 \o colon
    BY <1>1, <1>4, <1>j
  <2>1. /\ s4 \in Seq(Bytes) /\ Len(s4) = Len(s3) + Len(colon)
        /\ \A i \in 1 .. Len(s3) : s4[i] = s3[i]
    BY <2>0, Joined
  <2> QED
    BY <1>1, <1>4, <2>1
<1>6. /\ s5 \in Seq(Bytes) /\ Len(s5) = n + m + 3 + Len(key)
      /\ \A i \in 1 .. n + m + 3 : s5[i] = s4[i]
      /\ \A i \in 1 .. Len(key) : s5[n + m + 3 + i] = key[i]
  <2>0. s4 \in Seq(Bytes) /\ key \in Seq(Bytes) /\ s5 = s4 \o key
    BY <1>1, <1>5, <1>j
  <2>1. /\ s5 \in Seq(Bytes) /\ Len(s5) = Len(s4) + Len(key)
        /\ \A i \in 1 .. Len(s4) : s5[i] = s4[i]
        /\ \A i \in 1 .. Len(key) : s5[Len(s4) + i] = key[i]
    BY <2>0, Joined
  <2> QED
    BY <1>5, <2>1
<1>8. ASSUME NEW i \in 1 .. n
      PROVE  s5[i + 1] = d[i]
  <2>1. /\ 1 + i = i + 1 /\ i + 1 \in 1 .. n + 1 /\ i + 1 \in 1 .. n + 2
        /\ i + 1 \in 1 .. n + 2 + m /\ i + 1 \in 1 .. n + m + 3
    BY <1>1
  <2> QED
    BY <1>2, <1>3, <1>4, <1>5, <1>6, <2>1
<1>9. s5[n + 2] = ":"
  <2>1. n + 2 \in 1 .. n + 2 /\ n + 2 \in 1 .. n + 2 + m /\ n + 2 \in 1 .. n + m + 3
    BY <1>1
  <2> QED
    BY <1>3, <1>4, <1>5, <1>6, <2>1
<1>10. ASSUME NEW i \in 1 .. m
       PROVE  s5[n + 2 + i] = id[i]
  <2>1. n + 2 + i \in 1 .. n + 2 + m /\ n + 2 + i \in 1 .. n + m + 3
    BY <1>1
  <2> QED
    BY <1>4, <1>5, <1>6, <2>1
<1>11. Len(s5) = n + m + Len(key) + 3
  BY <1>1, <1>6
<1> QED
  BY <1>1, <1>6, <1>7, <1>8, <1>9, <1>10, <1>11 DEF Strings, d, n, m

\* What a prefix shares with the whole, byte by byte.
LEMMA PrefixBytes ==
    ASSUME NEW s \in Strings, NEW t \in Strings, IsPrefix(s, t)
    PROVE  Len(s) <= Len(t) /\ \A i \in 1 .. Len(s) : s[i] = t[i]
<1>1. /\ Len(s) \in Nat /\ Len(t) \in Nat /\ Len(s) <= Len(t)
      /\ SubSeq(s, 1, Len(s)) = SubSeq(t, 1, Len(s))
  BY DEF Strings, IsPrefix
<1>2. ASSUME NEW i \in 1 .. Len(s)
      PROVE  s[i] = t[i]
  <2>1. SubSeq(s, 1, Len(s))[i] = s[i]
    BY <1>1 DEF Strings
  <2>2. SubSeq(t, 1, Len(s))[i] = t[i]
    BY <1>1 DEF Strings
  <2> QED
    BY <1>1, <2>1, <2>2
<1> QED
  BY <1>1, <1>2

\* Two keys that agree up to the end of the id of the first have the same id.
LEMMA HeadTells ==
    ASSUME NEW a \in TenantIds, NEW b \in TenantIds, NEW k \in Strings, NEW l \in Strings,
           Len(Decimal[Len(a)]) + Len(a) + 2 <= Len(cache_key(b, l)),
           \A i \in 1 .. Len(Decimal[Len(a)]) + Len(a) + 2 :
             cache_key(a, k)[i] = cache_key(b, l)[i]
    PROVE  a = b
<1> DEFINE da == Decimal[Len(a)]
           db == Decimal[Len(b)]
           s == cache_key(a, k)
           t == cache_key(b, l)
<1>1. /\ da \in Seq(Digits)
      /\ \A i \in 1 .. Len(da) : s[i + 1] = da[i]
      /\ s[Len(da) + 2] = ":"
      /\ \A i \in 1 .. Len(a) : s[Len(da) + 2 + i] = a[i]
  BY KeyBytes
<1>2. /\ db \in Seq(Digits)
      /\ Len(t) = Len(db) + Len(b) + Len(l) + 3
      /\ \A i \in 1 .. Len(db) : t[i + 1] = db[i]
      /\ t[Len(db) + 2] = ":"
      /\ \A i \in 1 .. Len(b) : t[Len(db) + 2 + i] = b[i]
  BY KeyBytes
<1>3. /\ Len(da) + Len(a) + 2 <= Len(t)
      /\ \A i \in 1 .. Len(da) + Len(a) + 2 : s[i] = t[i]
  OBVIOUS
<1>4. /\ Len(da) \in Nat /\ Len(db) \in Nat /\ Len(a) \in Nat /\ Len(b) \in Nat
      /\ Len(a) \in Lengths /\ Len(b) \in Lengths
      /\ a \in Seq(Bytes) /\ b \in Seq(Bytes)
  BY <1>1, <1>2 DEF TenantIds, Strings
<1>5. /\ \A i \in 1 .. Len(da) : da[i] # ":"
      /\ \A i \in 1 .. Len(db) : db[i] # ":"
  BY <1>1, <1>2, BytesAssumption
<1> HIDE DEF da, db, s, t
<1>6. Len(da) = Len(db)
  <2>1. CASE Len(da) < Len(db)
    <3>1. Len(da) + 1 \in 1 .. Len(db) /\ Len(da) + 2 \in 1 .. Len(da) + Len(a) + 2
      BY <1>4, <2>1
    <3>2. t[Len(da) + 1 + 1] = db[Len(da) + 1] /\ s[Len(da) + 2] = t[Len(da) + 2]
      BY <1>2, <1>3, <3>1
    <3>3. Len(da) + 1 + 1 = Len(da) + 2
      BY <1>4
    <3> QED
      BY <1>1, <1>5, <3>1, <3>2, <3>3
  <2>2. CASE Len(db) < Len(da)
    <3>1. Len(db) + 1 \in 1 .. Len(da) /\ Len(db) + 2 \in 1 .. Len(da) + Len(a) + 2
      BY <1>4, <2>2
    <3>2. s[Len(db) + 1 + 1] = da[Len(db) + 1] /\ s[Len(db) + 2] = t[Len(db) + 2]
      BY <1>1, <1>3, <3>1
    <3>3. Len(db) + 1 + 1 = Len(db) + 2
      BY <1>4
    <3> QED
      BY <1>2, <1>5, <3>1, <3>2, <3>3
  <2> QED
    BY <1>4, <2>1, <2>2
<1>7. \A i \in 1 .. Len(da) : da[i] = db[i]
  <2> SUFFICES ASSUME NEW i \in 1 .. Len(da) PROVE da[i] = db[i]
    OBVIOUS
  <2>1. i + 1 \in 1 .. Len(da) + Len(a) + 2
    BY <1>4
  <2> QED
    BY <1>1, <1>2, <1>3, <1>6, <2>1
<1>8. da = db
  BY <1>1, <1>2, <1>6, <1>7
<1>9. Len(a) = Len(b)
  BY <1>4, <1>8, DecimalAssumption DEF da, db
<1>10. \A i \in 1 .. Len(a) : a[i] = b[i]
  <2> SUFFICES ASSUME NEW i \in 1 .. Len(a) PROVE a[i] = b[i]
    OBVIOUS
  <2>1. Len(da) + 2 + i \in 1 .. Len(da) + Len(a) + 2
    BY <1>4
  <2> QED
    BY <1>1, <1>2, <1>3, <1>6, <1>9, <2>1
<1> QED
  BY <1>4, <1>9, <1>10

\* No key of one tenant starts with the prefix of another: clear_tenant, which
\* goes by that prefix, cannot meet a key that is not its tenant's.
THEOREM PrefixTells ==
    ASSUME NEW a \in TenantIds, NEW b \in TenantIds, NEW key \in Strings,
           IsPrefix(KeyPrefix(a), cache_key(b, key))
    PROVE  a = b
<1> DEFINE n == Len(Decimal[Len(a)]) + Len(a)
<1>1. <<>> \in Strings /\ Len(<<>>) = 0
  BY DEF Strings
<1>2. /\ KeyPrefix(a) \in Strings /\ cache_key(b, key) \in Strings
      /\ Len(KeyPrefix(a)) = n + 3 /\ n \in Nat
  <2>1. Decimal[Len(a)] \in Seq(Digits)
    BY <1>1, KeyBytes
  <2>2. n \in Nat
    BY <2>1 DEF TenantIds, Strings
  <2>3. KeyPrefix(a) \in Strings /\ Len(KeyPrefix(a)) = n + 0 + 3
    BY <1>1, KeyBytes DEF KeyPrefix
  <2>4. cache_key(b, key) \in Strings
    BY KeyBytes
  <2> QED
    BY <2>2, <2>3, <2>4
<1>3. /\ n + 2 <= Len(cache_key(b, key))
      /\ \A i \in 1 .. n + 2 : KeyPrefix(a)[i] = cache_key(b, key)[i]
  <2>1. /\ n + 3 <= Len(cache_key(b, key))
        /\ \A i \in 1 .. n + 3 : KeyPrefix(a)[i] = cache_key(b, key)[i]
    BY <1>2, PrefixBytes
  <2>2. Len(cache_key(b, key)) \in Nat
    BY <1>2 DEF Strings
  <2> HIDE DEF n
  <2> QED
    BY <1>2, <2>1, <2>2
<1> QED
  BY <1>1, <1>3, HeadTells DEF KeyPrefix

\* Two keys are the same only if tenant and key are: "no id/key content can
\* ever produce a colliding key".
THEOREM KeyTells ==
    ASSUME NEW a \in TenantIds, NEW b \in TenantIds, NEW k \in Strings, NEW l \in Strings,
           cache_key(a, k) = cache_key(b, l)
    PROVE  a = b /\ k = l
<1> DEFINE n == Len(Decimal[Len(a)]) + Len(a)
           s == cache_key(a, k)
<1>1. /\ n \in Nat /\ Len(k) \in Nat /\ Len(l) \in Nat
      /\ Len(s) = n + Len(k) + 3
      /\ \A i \in 1 .. Len(k) : s[n + 3 + i] = k[i]
  <2>1. Decimal[Len(a)] \in Seq(Digits) /\ Len(s) = n + Len(k) + 3
        /\ \A i \in 1 .. Len(k) : s[n + 3 + i] = k[i]
    BY KeyBytes
  <2> QED
    BY <2>1 DEF TenantIds, Strings
<1>2. a = b
  <2>1. n + 2 <= Len(s)
    BY <1>1
  <2> QED
    BY <2>1, HeadTells
<1>3. Len(s) = n + Len(l) + 3 /\ \A i \in 1 .. Len(l) : s[n + 3 + i] = l[i]
  <2>1. s = cache_key(a, l)
    BY <1>2
  <2> HIDE DEF s
  <2> QED
    BY <2>1, KeyBytes
<1> HIDE DEF n, s
<1>4. Len(k) = Len(l)
  BY <1>1, <1>3
<1>5. \A i \in 1 .. Len(k) : k[i] = l[i]
  BY <1>1, <1>3, <1>4
<1> QED
  BY <1>2, <1>4, <1>5 DEF Strings

-----------------------------------------------------------------------------
(* The cache.                                                              *)

\* Every entry is under the key its tenant and parts make.
EntriesFit ==
    \A k \in DOMAIN data : /\ data[k] \in Entry
                            /\ k = cache_key(data[k].tenant, build(data[k].parts))

\* What a call of clear_tenant still has to delete is its tenant's, and covers
\* what it owes.
CallFits(c) ==
    /\ call[c].at \in {"scan", "delete", "cleared"} => call[c].tenant \in Ids
    /\ \A k \in call[c].left : k \in Strings /\ IsPrefix(KeyPrefix(call[c].tenant), k)
    /\ \A k \in call[c].due : k \in Strings /\ IsPrefix(KeyPrefix(call[c].tenant), k)
    /\ call[c].at = "delete" => call[c].due \cap DOMAIN data \subseteq call[c].left
    /\ call[c].at = "cleared" => call[c].due \cap DOMAIN data = {}

Calls == [at : {"idle", "scan", "delete", "cleared"}, tenant : Ids \cup {None},
          left : SUBSET Strings, due : SUBSET Strings]

\* ClearedIsClear is not inductive: while the loop runs, the keys that it owes
\* must be among those left to it, and those must be its tenant's.
CacheInv ==
    /\ EntriesFit
    /\ call \in [Callers -> Calls]
    /\ \A c \in Callers : CallFits(c)

\* Parts that are joined make a string.
LEMMA BuildType ==
    ASSUME NEW parts \in Seq(Strings)
    PROVE  build(parts) \in Strings
<1> DEFINE piece(i) == IF i = 1 THEN parts[i] ELSE <<":">> \o parts[i]
           seqs == [i \in DOMAIN parts |-> piece(i)]
           n == Len(parts)
<1>1. n \in Nat /\ DOMAIN parts = 1 .. n /\ \A i \in 1 .. n : parts[i] \in Seq(Bytes)
  BY LenProperties, ElementOfSeq DEF Strings
<1>2. ASSUME NEW i \in 1 .. n PROVE piece(i) \in Seq(Bytes)
  <2>1. <<":">> \in Seq(Bytes)
    BY BytesAssumption
  <2>2. parts[i] \in Seq(Bytes) /\ <<":">> \o parts[i] \in Seq(Bytes)
    BY <1>1, <2>1, ConcatProperties
  <2> QED BY <2>2
<1>3. build(parts) = FlattenSeq(seqs)
  BY DEF build
<1> HIDE DEF piece, n
<1>4. seqs \in Seq(Seq(Bytes)) /\ Len(seqs) = n
  <2>1. [i \in 1 .. n |-> piece(i)] \in Seq(Seq(Bytes))
    BY <1>1, <1>2, IsASeq
  <2>2. seqs = [i \in 1 .. n |-> piece(i)]
    BY <1>1
  <2> QED BY <1>1, <2>1, <2>2
<1> HIDE DEF seqs
<1>5. CASE n = 0
  <2>1. FlattenSeq(seqs) = seqs
    BY <1>4, <1>5 DEF FlattenSeq
  <2>2. seqs = <<>>
    BY <1>4, <1>5, EmptySeq
  <2>3. <<>> \in Seq(Bytes)
    BY EmptySeq
  <2> QED BY <1>3, <2>1, <2>2, <2>3 DEF Strings
<1>6. CASE n # 0
  <2>1. PICK flat \in [1 .. n -> Seq(Bytes)] : FlattenSeq(seqs) = flat[n]
    BY <1>4, <1>6, Flattened
  <2>2. n \in 1 .. n
    BY <1>1, <1>6
  <2> QED BY <1>3, <2>1, <2>2 DEF Strings
<1> QED BY <1>5, <1>6

\* Keys that requests ask for are strings.
LEMMA KeyType ==
    ASSUME NEW id \in Ids, NEW parts \in PartLists
    PROVE  /\ id \in TenantIds /\ build(parts) \in Strings
           /\ cache_key(id, build(parts)) \in Strings
<1>1. id \in TenantIds /\ build(parts) \in Strings
  BY IdsAssumption, PartsAssumption, BuildType
<1> QED
  BY <1>1, KeyBytes

\* An empty cache without calls satisfies the invariant.
LEMMA CacheInit == Init => CacheInv
BY DEF Init, Idle, CacheInv, EntriesFit, CallFits, Calls

\* What is in the cache under a tenant's prefix are strings.
LEMMA KeysType ==
    ASSUME CacheInv
    PROVE  DOMAIN data \subseteq Strings
BY KeyType DEF CacheInv, EntriesFit, Entry

\* Entries may go at any time.
LEMMA LessData ==
    ASSUME CacheInv, NEW keys, data' = Without(keys), UNCHANGED call
    PROVE  CacheInv'
<1>1. DOMAIN data' = DOMAIN data \ keys /\ \A k \in DOMAIN data' : data'[k] = data[k]
  BY DEF Without
<1>2. EntriesFit'
  BY <1>1 DEF CacheInv, EntriesFit
<1>3. \A c \in Callers : CallFits(c)'
  BY <1>1 DEF CacheInv, CallFits
<1> QED
  BY <1>2, <1>3 DEF CacheInv

\* A step of one call that adds no entry.
LEMMA OneCall ==
    ASSUME CacheInv, NEW c \in Callers, call'[c] \in Calls, CallFits(c)',
           call' = [call EXCEPT ![c] = call'[c]],
           DOMAIN data' \subseteq DOMAIN data,
           \A k \in DOMAIN data' : data'[k] = data[k]
    PROVE  CacheInv'
<1>1. EntriesFit'
  BY DEF CacheInv, EntriesFit
<1>2. call' \in [Callers -> Calls] /\ \A d \in Callers \ {c} : call'[d] = call[d]
  BY DEF CacheInv
<1>3. \A d \in Callers : CallFits(d)'
  BY <1>2 DEF CacheInv, CallFits
<1> QED
  BY <1>1, <1>2, <1>3 DEF CacheInv

\* A step that starts a call, or does a whole one.
LEMMA CacheInvoke ==
    ASSUME CacheInv, NEW c \in Callers, Invoke(c)
    PROVE  CacheInv'
<1>1. ASSUME NEW id \in Ids, NEW parts \in PartLists, Set(c, id, parts)
      PROVE  CacheInv'
  <2> DEFINE key == cache_key(id, build(parts))
  <2>1. /\ DOMAIN data' = DOMAIN data \cup {key}
        /\ data'[key] = [tenant |-> id, parts |-> parts]
        /\ \A k \in DOMAIN data : k # key => data'[k] = data[k]
    BY <1>1 DEF Set
  <2>2. \A d \in Callers : call'[d] = [call[d] EXCEPT !.due = @ \ {key}]
    BY <1>1 DEF Set
  <2>3. EntriesFit'
    BY <2>1 DEF CacheInv, EntriesFit, Entry
  <2>4. ASSUME NEW d \in Callers
        PROVE  call'[d] \in Calls /\ CallFits(d)'
    <3>1. call[d] \in Calls /\ CallFits(d)
      BY DEF CacheInv
    <3>2. /\ call'[d] \in Calls /\ call'[d].at = call[d].at
          /\ call'[d].tenant = call[d].tenant
          /\ call'[d].left = call[d].left /\ call'[d].due = call[d].due \ {key}
      <4> HIDE DEF key
      <4>1. call'[d] = [call[d] EXCEPT !.due = @ \ {key}]
        BY <2>2
      <4> QED
        BY <3>1, <4>1 DEF Calls
    <3> QED
      BY <2>1, <3>1, <3>2 DEF CallFits
  <2>5. call' \in [Callers -> Calls]
    BY <1>1, <2>4 DEF Set
  <2> QED
    BY <2>3, <2>4, <2>5 DEF CacheInv
<1>2. ASSUME NEW id \in Ids, NEW parts \in PartLists, Delete(c, id, parts)
      PROVE  CacheInv'
  BY <1>2, LessData DEF Delete
<1>3. ASSUME NEW id \in Ids, ClearTenant(c, id)
      PROVE  CacheInv'
  <2>1. /\ call' = [call EXCEPT ![c] = call'[c]]
        /\ call'[c] = [at |-> "scan", tenant |-> id, left |-> {}, due |-> Keys(id)]
        /\ UNCHANGED data
    BY <1>3 DEF ClearTenant, CacheInv
  <2>2. Keys(id) \subseteq Strings /\ \A k \in Keys(id) : IsPrefix(KeyPrefix(id), k)
    BY KeysType DEF Keys
  <2>3. call'[c] \in Calls /\ CallFits(c)'
    BY <2>1, <2>2 DEF Calls, CallFits, Keys
  <2> QED
    BY <2>1, <2>3, OneCall
<1>4. CASE ReadOnly(c)
  BY <1>4 DEF ReadOnly, vars, CacheInv, EntriesFit, CallFits
<1> QED
  BY <1>1, <1>2, <1>3, <1>4 DEF Invoke

\* A step of a call in progress, or its end.
LEMMA CacheContinue ==
    ASSUME CacheInv, NEW c \in Callers, Continue(c) \/ Cancel(c)
    PROVE  CacheInv'
<1>0. call[c] \in Calls /\ CallFits(c) /\ call \in [Callers -> Calls]
  BY DEF CacheInv
<1>1. CASE ScanAnswers(c)
  <2>1. PICK keys \in SUBSET (call[c].due \cup Keys(call[c].tenant)) :
          /\ call[c].due \cap DOMAIN data \subseteq keys
          /\ call' = [call EXCEPT ![c].at = "delete", ![c].left = keys]
    BY <1>1 DEF ScanAnswers
  <2>2. \A k \in keys : k \in Strings /\ IsPrefix(KeyPrefix(call[c].tenant), k)
    BY <1>0, KeysType DEF Keys, CallFits
  <2>3. /\ call'[c] = [call[c] EXCEPT !.at = "delete", !.left = keys]
        /\ call' = [call EXCEPT ![c] = call'[c]] /\ call[c].at = "scan" /\ UNCHANGED data
    BY <1>0, <1>1, <2>1 DEF ScanAnswers
  <2>4. /\ call'[c].at = "delete" /\ call'[c].left = keys
        /\ call'[c].tenant = call[c].tenant /\ call'[c].due = call[c].due
        /\ call'[c] \in Calls
    BY <1>0, <2>2, <2>3 DEF Calls
  <2>5. CallFits(c)'
    BY <1>0, <2>1, <2>2, <2>3, <2>4 DEF CallFits
  <2> QED
    BY <2>3, <2>4, <2>5, OneCall
<1>2. CASE DeleteNext(c)
  <2>1. PICK key \in call[c].left :
          /\ data' = Without({key})
          /\ call' = [call EXCEPT ![c].left = @ \ {key}]
    BY <1>2 DEF DeleteNext
  <2>2. /\ DOMAIN data' = DOMAIN data \ {key}
        /\ \A k \in DOMAIN data' : data'[k] = data[k]
    BY <2>1 DEF Without
  <2>3. /\ call'[c] = [call[c] EXCEPT !.left = @ \ {key}]
        /\ call' = [call EXCEPT ![c] = call'[c]] /\ call[c].at = "delete"
    BY <1>0, <1>2, <2>1 DEF DeleteNext
  <2>4. /\ call'[c].at = "delete" /\ call'[c].left = call[c].left \ {key}
        /\ call'[c].tenant = call[c].tenant /\ call'[c].due = call[c].due
        /\ call'[c] \in Calls
    BY <1>0, <2>3 DEF Calls
  <2>5. CallFits(c)'
    BY <1>0, <2>2, <2>3, <2>4 DEF CallFits
  <2> QED
    BY <2>2, <2>3, <2>4, <2>5, OneCall
<1>3. CASE ClearReturns(c)
  <2>1. /\ call'[c] = [call[c] EXCEPT !.at = "cleared"]
        /\ call' = [call EXCEPT ![c] = call'[c]]
        /\ call[c].at = "delete" /\ call[c].left = {} /\ UNCHANGED data
    BY <1>0, <1>3 DEF ClearReturns
  <2>2. /\ call'[c].at = "cleared" /\ call'[c].left = {}
        /\ call'[c].tenant = call[c].tenant /\ call'[c].due = call[c].due
        /\ call'[c] \in Calls
    BY <1>0, <2>1 DEF Calls
  <2>3. CallFits(c)'
    BY <1>0, <2>1, <2>2 DEF CallFits
  <2> QED
    BY <2>1, <2>2, <2>3, OneCall
<1>4. CASE ProviderError(c) \/ Cancel(c)
  <2>1. call'[c] = Idle /\ call' = [call EXCEPT ![c] = call'[c]] /\ UNCHANGED data
    BY <1>0, <1>4 DEF ProviderError, Cancel
  <2>2. call'[c] \in Calls /\ CallFits(c)'
    BY <2>1 DEF Idle, Calls, CallFits
  <2> QED
    BY <2>1, <2>2, OneCall
<1> QED
  BY <1>1, <1>2, <1>3, <1>4 DEF Continue

\* Every step keeps the invariant.
LEMMA CacheNext == CacheInv /\ [Next]_vars => CacheInv'
<1> SUFFICES ASSUME CacheInv, [Next]_vars PROVE CacheInv'
  OBVIOUS
<1>1. CASE UNCHANGED vars
  BY <1>1 DEF vars, CacheInv, EntriesFit, CallFits
<1>2. CASE Expire
  BY <1>2, LessData DEF Expire
<1> QED
  BY <1>1, <1>2, CacheInvoke, CacheContinue DEF Next

\* The invariant holds in every state, for any tenants, keys and callers.
THEOREM CacheInvariance == Spec => []CacheInv
BY CacheInit, CacheNext, PTL DEF Spec

\* What the types need beside it: the cache is a map, and a caller without a call
\* keeps nothing of the last one.
Tidy ==
    /\ data \in [DOMAIN data -> Entry]
    /\ \A c \in Callers : call[c].at = "idle" => call[c] = Idle

LEMMA TidyKept ==
    ASSUME CacheInv, Tidy, [Next]_vars
    PROVE  Tidy'
<1>1. ASSUME NEW keys, data' = Without(keys) PROVE (data \in [DOMAIN data -> Entry])'
  BY <1>1 DEF Without, Tidy
<1>2. ASSUME UNCHANGED data PROVE (data \in [DOMAIN data -> Entry])'
  BY <1>2 DEF Tidy
<1>3. ASSUME NEW id \in Ids, NEW parts \in PartLists, NEW c \in Callers, Set(c, id, parts)
      PROVE  Tidy'
  <2> DEFINE key == cache_key(id, build(parts))
  <2>1. (data \in [DOMAIN data -> Entry])'
    BY <1>3 DEF Set, Tidy, Entry
  <2>2. ASSUME NEW d \in Callers, call'[d].at = "idle" PROVE call'[d] = Idle
    <3>1. call'[d] = [call[d] EXCEPT !.due = @ \ {key}] /\ call[d] \in Calls
      BY <1>3 DEF Set, CacheInv
    <3> HIDE DEF key
    <3>2. call'[d].at = call[d].at
      BY <3>1 DEF Calls
    <3>3. call[d] = Idle
      BY <2>2, <3>2 DEF Tidy
    <3> QED BY <3>1, <3>3 DEF Idle
  <2> QED BY <2>1, <2>2 DEF Tidy
<1>4. ASSUME NEW c \in Callers, NEW new, call' = [call EXCEPT ![c] = new],
             new.at = "idle" => new = Idle, (data \in [DOMAIN data -> Entry])'
      PROVE  Tidy'
  BY <1>4 DEF CacheInv, Tidy
<1>5. ASSUME UNCHANGED call, (data \in [DOMAIN data -> Entry])' PROVE Tidy'
  BY <1>5 DEF Tidy
<1>6. ASSUME NEW c \in Callers, Invoke(c) PROVE Tidy'
  <2>1. ASSUME NEW id \in Ids, ClearTenant(c, id) PROVE Tidy'
    BY <1>2, <1>4, <2>1 DEF ClearTenant
  <2>2. ASSUME NEW id \in Ids, NEW parts \in PartLists, Delete(c, id, parts) PROVE Tidy'
    BY <1>1, <1>5, <2>2 DEF Delete
  <2> QED BY <1>2, <1>3, <1>5, <1>6, <2>1, <2>2 DEF Invoke, ReadOnly, vars
<1>7. ASSUME NEW c \in Callers, Continue(c) \/ Cancel(c) PROVE Tidy'
  <2>0. call \in [Callers -> Calls] /\ call[c] \in Calls
    BY DEF CacheInv
  <2>1. CASE ScanAnswers(c)
    <3>1. PICK keys : call' = [call EXCEPT ![c].at = "delete", ![c].left = keys]
      BY <2>1 DEF ScanAnswers
    <3>2. call' = [call EXCEPT ![c] = [call[c] EXCEPT !.at = "delete", !.left = keys]]
      BY <2>0, <3>1
    <3>3. [call[c] EXCEPT !.at = "delete", !.left = keys].at = "delete"
      BY <2>0 DEF Calls
    <3> QED BY <1>2, <1>4, <2>1, <3>2, <3>3 DEF ScanAnswers
  <2>2. CASE DeleteNext(c)
    <3>1. PICK key : /\ data' = Without({key})
                     /\ call' = [call EXCEPT ![c].left = @ \ {key}]
      BY <2>2 DEF DeleteNext
    <3>2. call' = [call EXCEPT ![c] = [call[c] EXCEPT !.left = @ \ {key}]]
      BY <2>0, <3>1
    <3>3. [call[c] EXCEPT !.left = @ \ {key}].at = "delete"
      BY <2>0, <2>2 DEF Calls, DeleteNext
    <3> QED BY <1>1, <1>4, <3>1, <3>2, <3>3
  <2>3. CASE ClearReturns(c)
    <3>1. call' = [call EXCEPT ![c] = [call[c] EXCEPT !.at = "cleared"]]
      BY <2>0, <2>3 DEF ClearReturns
    <3>2. [call[c] EXCEPT !.at = "cleared"].at = "cleared"
      BY <2>0 DEF Calls
    <3> QED BY <1>2, <1>4, <2>3, <3>1, <3>2 DEF ClearReturns
  <2>4. CASE ProviderError(c) \/ Cancel(c)
    BY <1>2, <1>4, <2>4 DEF ProviderError, Cancel
  <2> QED BY <1>7, <2>1, <2>2, <2>3, <2>4 DEF Continue
<1>8. CASE Expire
  BY <1>1, <1>5, <1>8 DEF Expire
<1>9. CASE UNCHANGED vars
  BY <1>2, <1>5, <1>9 DEF vars
<1> QED
  BY <1>6, <1>7, <1>8, <1>9 DEF Next

\* The cache keeps its types, and a clear never lists a key without its prefix.
THEOREM CacheTypeTheorem == Spec => []TypeOK
<1>1. Init => Tidy
  BY DEF Init, Idle, Tidy
<1>2. CacheInv /\ Tidy /\ [Next]_vars => Tidy'
  BY TidyKept
<1>3. CacheInv /\ Tidy => TypeOK
  <2> SUFFICES ASSUME CacheInv, Tidy PROVE TypeOK
    OBVIOUS
  <2>1. ASSUME NEW c \in Callers, call[c] # Idle
        PROVE  /\ DOMAIN call[c] = DOMAIN Idle
               /\ call[c].at \in {"scan", "delete", "cleared"}
               /\ call[c].tenant \in Ids
               /\ \A k \in call[c].left \cup call[c].due :
                    IsPrefix(KeyPrefix(call[c].tenant), k)
    <3>1. call[c] \in Calls /\ CallFits(c) /\ call[c].at # "idle"
      BY <2>1 DEF CacheInv, Tidy
    <3>2. call[c].at \in {"scan", "delete", "cleared"} /\ DOMAIN call[c] = DOMAIN Idle
      BY <3>1 DEF Calls, Idle
    <3> QED BY <3>1, <3>2 DEF CallFits
  <2> QED BY <2>1, KeysType DEF Tidy, TypeOK
<1> QED
  BY <1>1, <1>2, <1>3, CacheInvariance, PTL DEF Spec

\* A tenant never gets an entry of another tenant, or of another key.
THEOREM Isolation == Spec => []ReadsOwn
<1>1. CacheInv => ReadsOwn
  <2> SUFFICES ASSUME CacheInv, NEW id \in Ids, NEW parts \in PartLists,
                      cache_key(id, build(parts)) \in DOMAIN data
               PROVE  LET e == data[cache_key(id, build(parts))] IN
                      e.tenant = id /\ build(e.parts) = build(parts)
    BY DEF ReadsOwn
  <2> DEFINE e == data[cache_key(id, build(parts))]
  <2>1. /\ e.tenant \in Ids /\ e.parts \in PartLists
        /\ cache_key(id, build(parts)) = cache_key(e.tenant, build(e.parts))
    BY DEF CacheInv, EntriesFit, Entry
  <2> QED
    BY <2>1, KeyType, KeyTells
<1> QED
  BY <1>1, CacheInvariance, PTL

\* What clear_tenant found when it was called is gone when it has succeeded.
THEOREM ClearIsComplete == Spec => []ClearedIsClear
<1>1. CacheInv => ClearedIsClear
  BY DEF CacheInv, CallFits, ClearedIsClear
<1> QED
  BY <1>1, CacheInvariance, PTL

\* clear_tenant deletes nothing of another tenant, whatever their ids.
THEOREM ClearIsolation == Spec => ClearTouchesOwn
<1> DEFINE Own == \A c \in Callers :
                    call'[c].left # call[c].left =>
                      \A k \in DOMAIN data \ DOMAIN data' : data[k].tenant = call[c].tenant
<1>1. ASSUME CacheInv, [Next]_vars
      PROVE  Own
  <2> SUFFICES ASSUME NEW c \in Callers, call'[c].left # call[c].left,
                      NEW k \in DOMAIN data, k \notin DOMAIN data'
               PROVE  data[k].tenant = call[c].tenant
    OBVIOUS
  <2>0. call \in [Callers -> Calls]
    BY <1>1 DEF CacheInv
  <2>1. PICK d \in Callers : DeleteNext(d)
    BY <1>1 DEF Next, Invoke, Continue, Set, Delete, ReadOnly, ClearTenant, ScanAnswers,
                ClearReturns, ProviderError, Cancel, Expire, vars
  <2>2. PICK key \in call[d].left :
          /\ data' = Without({key})
          /\ call' = [call EXCEPT ![d].left = @ \ {key}]
    BY <2>1 DEF DeleteNext
  <2>3. d = c /\ k = key
    BY <2>0, <2>2 DEF Without
  <2>4. /\ data[k].tenant \in Ids /\ data[k].parts \in PartLists
        /\ k = cache_key(data[k].tenant, build(data[k].parts))
    BY <1>1 DEF CacheInv, EntriesFit, Entry
  <2>5. call[c].tenant \in Ids /\ IsPrefix(KeyPrefix(call[c].tenant), k)
    BY <1>1, <2>1, <2>2, <2>3 DEF CacheInv, CallFits, DeleteNext
  <2> QED
    BY <2>4, <2>5, KeyType, PrefixTells, IdsAssumption
<1> QED
  BY <1>1, CacheInvariance, PTL DEF Spec, ClearTouchesOwn

-----------------------------------------------------------------------------
(* To each tenant, the shared cache is one of its own.                     *)

Caches == [id \in Ids |-> get(id)]

\* What get returns for one key.
LEMMA GetReturns ==
    ASSUME NEW id \in Ids
    PROVE  /\ Caches[id] = get(id)
           /\ DOMAIN get(id) = {key \in Built : cache_key(id, key) \in DOMAIN data}
           /\ \A key \in DOMAIN get(id) : get(id)[key] = data[cache_key(id, key)]
BY DEF Caches, get

\* The same of the next state.
LEMMA GetReturnsNext ==
    ASSUME NEW id \in Ids
    PROVE  /\ Caches'[id] = get(id)'
           /\ DOMAIN get(id)' = {key \in Built : cache_key(id, key) \in DOMAIN data'}
           /\ \A key \in DOMAIN get(id)' : get(id)'[key] = data'[cache_key(id, key)]
BY DEF Caches, get

\* Keys that tenants ask for are strings.
LEMMA BuiltType ==
    ASSUME NEW key \in Built
    PROVE  key \in Strings
BY PartsAssumption, BuildType DEF Built

\* A step that leaves all keys of a tenant but one alone.
LEMMA OthersSeeNothing ==
    ASSUME NEW id \in Ids, NEW k,
           \A key \in Built : cache_key(id, key) # k,
           DOMAIN data' \ {k} = DOMAIN data \ {k},
           \A l \in DOMAIN data \ {k} : data'[l] = data[l]
    PROVE  get(id)' = get(id)
<1>1. {key \in Built : cache_key(id, key) \in DOMAIN data'}
        = {key \in Built : cache_key(id, key) \in DOMAIN data}
  OBVIOUS
<1>2. \A key \in Built : cache_key(id, key) \in DOMAIN data =>
        data'[cache_key(id, key)] = data[cache_key(id, key)]
  OBVIOUS
<1> QED
  BY <1>1, <1>2 DEF get

\* A key of one tenant is none of another's, nor is it another of its own.
LEMMA KeyIsOne ==
    ASSUME NEW id \in Ids, NEW key \in Built, NEW other \in Ids, NEW l \in Built,
           cache_key(other, l) = cache_key(id, key)
    PROVE  other = id /\ l = key
BY BuiltType, IdsAssumption, KeyTells

\* A step that changes what one tenant gets.
LEMMA OneChanges ==
    ASSUME NEW id \in Ids, \A other \in Ids \ {id} : get(other)' = get(other)
    PROVE  /\ Caches' = [Caches EXCEPT ![id] = get(id)']
           /\ Caches[id] = get(id)
BY DEF Caches

\* An entry goes: its tenant loses it, and nobody anything else.
LEMMA EntryGoes ==
    ASSUME CacheInv, NEW k \in DOMAIN data, data' = Without({k})
    PROVE  Private!Next
<1>1. PICK id \in Ids, key \in Built : k = cache_key(id, key)
  <2>1. data[k].tenant \in Ids /\ build(data[k].parts) \in Built
    BY DEF CacheInv, EntriesFit, Entry, Built
  <2> QED BY <2>1 DEF CacheInv, EntriesFit
<1>2. /\ DOMAIN data' = DOMAIN data \ {k}
      /\ \A l \in DOMAIN data \ {k} : data'[l] = data[l]
  BY DEF Without
<1>3. ASSUME NEW other \in Ids, other # id PROVE get(other)' = get(other)
  <2>1. \A l \in Built : cache_key(other, l) # k
    BY <1>1, <1>3, KeyIsOne
  <2> QED BY <1>2, <2>1, OthersSeeNothing
<1>4. key \in DOMAIN get(id)
  BY <1>1, GetReturns
<1>5. get(id)' = [l \in DOMAIN get(id) \ {key} |-> get(id)[l]]
  <2>1. ASSUME NEW l \in Built
        PROVE  cache_key(id, l) \in DOMAIN data' <=>
                 cache_key(id, l) \in DOMAIN data /\ l # key
    BY <1>1, <1>2, KeyIsOne
  <2>2. DOMAIN get(id)' = DOMAIN get(id) \ {key}
    BY <1>1, <2>1, GetReturns, GetReturnsNext
  <2>3. ASSUME NEW l \in DOMAIN get(id) \ {key} PROVE get(id)'[l] = get(id)[l]
    <3>1. l \in Built /\ cache_key(id, l) \in DOMAIN data
      BY <1>1, GetReturns
    <3>2. cache_key(id, l) # k
      BY <1>1, <2>3, <3>1, KeyIsOne
    <3>3. data'[cache_key(id, l)] = data[cache_key(id, l)]
      BY <1>2, <3>1, <3>2
    <3> QED BY <1>1, <2>2, <3>3, GetReturns, GetReturnsNext
  <2>4. get(id)' = [l \in DOMAIN get(id)' |-> get(id)'[l]]
    BY DEF get
  <2> QED BY <2>2, <2>3, <2>4
<1>6. Caches' = [Caches EXCEPT ![id] = [l \in DOMAIN @ \ {key} |-> @[l]]]
  BY <1>1, <1>3, <1>5, OneChanges
<1> QED
  BY <1>1, <1>4, <1>6, GetReturns DEF Private!Next, Private!Lose, Caches

\* An entry is set: its tenant gets it from now on, and nobody anything else.
LEMMA EntryComes ==
    ASSUME CacheInv, NEW c \in Callers, NEW id \in Ids, NEW parts \in PartLists,
           Set(c, id, parts)
    PROVE  Private!Next
<1>1. PICK key \in Built : key = build(parts)
  BY DEF Built
<1>2. PICK k : k = cache_key(id, key)
  OBVIOUS
<1>3. PICK entry \in Written(id, key) : entry = [tenant |-> id, parts |-> parts]
  BY <1>1 DEF Written, Entry
<1>4. /\ DOMAIN data' = DOMAIN data \cup {k}
      /\ data'[k] = entry
      /\ \A l \in DOMAIN data \ {k} : data'[l] = data[l]
  BY <1>1, <1>2, <1>3 DEF Set
<1>5. ASSUME NEW other \in Ids, other # id PROVE get(other)' = get(other)
  <2>1. \A l \in Built : cache_key(other, l) # k
    BY <1>2, <1>5, KeyIsOne
  <2> QED BY <1>4, <2>1, OthersSeeNothing
<1>6. get(id)' = [l \in DOMAIN get(id) \cup {key} |-> IF l = key THEN entry ELSE get(id)[l]]
  <2>1. ASSUME NEW l \in Built
        PROVE  cache_key(id, l) \in DOMAIN data' <=>
                 cache_key(id, l) \in DOMAIN data \/ l = key
    BY <1>2, <1>4, KeyIsOne
  <2>2. DOMAIN get(id)' = DOMAIN get(id) \cup {key}
    BY <1>1, <2>1, GetReturns, GetReturnsNext
  <2>3. ASSUME NEW l \in DOMAIN get(id)'
        PROVE  get(id)'[l] = IF l = key THEN entry ELSE get(id)[l]
    <3>0. l \in Built /\ get(id)'[l] = data'[cache_key(id, l)]
      BY GetReturnsNext
    <3>1. CASE l = key
      BY <1>2, <1>4, <3>0, <3>1
    <3>2. CASE l # key
      <4>1. l \in DOMAIN get(id) /\ cache_key(id, l) \in DOMAIN data
        BY <2>2, <3>2, GetReturns
      <4>2. cache_key(id, l) # k
        BY <1>1, <1>2, <3>0, <3>2, KeyIsOne
      <4>3. data'[cache_key(id, l)] = data[cache_key(id, l)]
        BY <1>4, <4>1, <4>2
      <4> QED BY <3>0, <3>2, <4>1, <4>3, GetReturns
    <3> QED BY <3>1, <3>2
  <2>4. get(id)' = [l \in DOMAIN get(id)' |-> get(id)'[l]]
    BY DEF get
  <2> QED BY <2>2, <2>3, <2>4
<1>7. Caches' = [Caches EXCEPT ![id] =
                   [l \in DOMAIN @ \cup {key} |-> IF l = key THEN entry ELSE @[l]]]
  BY <1>5, <1>6, OneChanges
<1>8. [o \in Ids |-> [l \in Built |-> Written(o, l)]][id][key] = Written(id, key)
  BY <1>1
<1>9. Private!Set(id, key)
  BY <1>3, <1>7, <1>8, Zenon DEF Private!Set, Caches
<1> QED
  BY <1>1, <1>9 DEF Private!Next

\* Each step is a step of private caches, or one that no tenant sees.
LEMMA PrivateStep == CacheInv /\ [Next]_vars => [Private!Next]_Caches
<1> SUFFICES ASSUME CacheInv, [Next]_vars PROVE Private!Next \/ Caches' = Caches
  OBVIOUS
<1>1. ASSUME UNCHANGED data PROVE Caches' = Caches
  BY <1>1 DEF Caches, get
<1>2. ASSUME NEW k, data' = Without({k}) PROVE Private!Next \/ Caches' = Caches
  <2>1. CASE k \in DOMAIN data
    BY <1>2, <2>1, EntryGoes
  <2>2. CASE k \notin DOMAIN data
    <3>1. DOMAIN data' = DOMAIN data /\ \A l \in DOMAIN data : data'[l] = data[l]
      BY <1>2, <2>2 DEF Without
    <3> QED BY <3>1 DEF Caches, get
  <2> QED BY <2>1, <2>2
<1>3. ASSUME NEW c \in Callers, Invoke(c) PROVE Private!Next \/ Caches' = Caches
  BY <1>1, <1>2, <1>3, EntryComes DEF Invoke, Delete, ClearTenant, ReadOnly, vars
<1>4. ASSUME NEW c \in Callers, Continue(c) \/ Cancel(c)
      PROVE  Private!Next \/ Caches' = Caches
  BY <1>1, <1>2, <1>4
     DEF Continue, ScanAnswers, DeleteNext, ClearReturns, ProviderError, Cancel
<1> QED
  BY <1>1, <1>2, <1>3, <1>4 DEF Next, Expire, vars

\* To each tenant the shared cache is one of its own: whatever other tenants set,
\* delete and clear at the same time, it sees none of it.
THEOREM CachesArePrivate == Spec => ImplementsPrivateCaches
<1>1. Init => Private!Init
  BY DEF Init, Private!Init, get
<1>2. CacheInv /\ [Next]_vars => [Private!Next]_Caches
  BY PrivateStep
<1> QED
  BY <1>1, <1>2, CacheInvariance, PTL
     DEF Spec, ImplementsPrivateCaches, Private!Spec, Caches
=============================================================================
