--------------------------- MODULE SequenceLemmas ---------------------------
(***************************************************************************)
(* What the strings of this crate are put together with: sequences made of *)
(* others, one after another.  What holds of one after another is shown by *)
(* counting up from the first: were there one of which it does not hold,   *)
(* there would be a least.                                                 *)
(***************************************************************************)
EXTENDS SequencesExt, FiniteSetTheorems, WellFoundedInduction, SequenceTheorems, TLAPS

\* Among numbers there is a least.
LEMMA LeastNatural ==
    ASSUME NEW T, T \subseteq Nat, T # {}
    PROVE  \E n \in T : \A m \in T : n <= m
<1>1. PICK t \in T : TRUE
  OBVIOUS
<1> DEFINE Below == {0 .. m : m \in {n \in T : n <= t}}
<1>2. IsFiniteSet(0 .. t)
  BY <1>1, FS_Interval
<1>3. Below \subseteq SUBSET (0 .. t) /\ Below # {}
  BY <1>1, SMT
<1>4. Below \subseteq FiniteSubsetsOf(0 .. t)
  BY <1>2, <1>3, FS_FiniteSubsetsOfFinite
<1>5. PICK x \in Below : \A y \in Below : ~(<<y, x>> \in StrictSubsetOrdering(0 .. t))
  <2> HIDE DEF Below
  <2>1. IsWellFoundedOn(StrictSubsetOrdering(0 .. t), FiniteSubsetsOf(0 .. t))
    BY FS_StrictSubsetOrderingWellFounded
  <2> QED BY <1>3, <1>4, <2>1, WFMin
<1>6. PICK n \in T : n <= t /\ x = 0 .. n
  BY <1>5
<1>7. ASSUME NEW m \in T, m < n PROVE FALSE
  <2>1. 0 .. m \in Below /\ 0 .. m \subseteq 0 .. n /\ 0 .. m # 0 .. n
    BY <1>1, <1>6, <1>7
  <2> QED BY <2>1, <1>3, <1>5, <1>6 DEF StrictSubsetOrdering
<1> QED BY <1>6, <1>7

\* Counting up from one reaches every number.
LEMMA CountingUp ==
    ASSUME NEW n \in Nat, NEW S, 1 \in S, \A k \in S : k + 1 \in 1 .. n => k + 1 \in S
    PROVE  1 .. n \subseteq S
<1> SUFFICES ASSUME (1 .. n) \ S # {} PROVE FALSE
  OBVIOUS
<1>1. PICK m \in (1 .. n) \ S : \A k \in (1 .. n) \ S : m <= k
  <2>1. (1 .. n) \ S \subseteq Nat
    OBVIOUS
  <2> QED BY <2>1, LeastNatural
<1>2. m - 1 \in 1 .. n /\ m - 1 \in S
  BY <1>1
<1> QED
  BY <1>1, <1>2

\* One sequence made of many, one after another.
LEMMA Flattened ==
    ASSUME NEW Symbol, NEW seqs \in Seq(Seq(Symbol)), Len(seqs) # 0
    PROVE  \E flat \in [1 .. Len(seqs) -> Seq(Symbol)] :
             /\ FlattenSeq(seqs) = flat[Len(seqs)]
             /\ flat[1] = seqs[1]
             /\ \A i \in 1 .. Len(seqs) - 1 : flat[i + 1] = flat[i] \o seqs[i + 1]
<1> DEFINE n == Len(seqs)
           Is(f, m) == f = [i \in 1 .. m |-> IF i = 1 THEN seqs[i] ELSE f[i - 1] \o seqs[i]]
<1>1. n \in Nat \ {0} /\ \A i \in 1 .. n : seqs[i] \in Seq(Symbol)
  BY LenProperties, ElementOfSeq
<1> HIDE DEF n
<1> DEFINE Reached == {m \in 1 .. n : \E f : Is(f, m)}
<1>2. 1 \in Reached
  <2> DEFINE f == [i \in 1 .. 1 |-> seqs[1]]
  <2>1. \A i \in 1 .. 1 : i = 1
    OBVIOUS
  <2>2. f = [i \in 1 .. 1 |-> IF i = 1 THEN seqs[i] ELSE f[i - 1] \o seqs[i]]
    <3> QED BY <2>1, Zenon
  <2>3. \E h : Is(h, 1)
    <3> HIDE DEF f
    <3> QED BY <2>2
  <2>4. 1 \in 1 .. n
    BY <1>1
  <2> HIDE DEF Is
  <2> QED BY <2>3, <2>4
<1>3. ASSUME NEW k \in Reached, k + 1 \in 1 .. n PROVE k + 1 \in Reached
  <2>1. PICK f : Is(f, k)
    BY <1>3
  <2> DEFINE g == [i \in 1 .. k + 1 |-> IF i = k + 1 THEN f[k] \o seqs[k + 1] ELSE f[i]]
  <2>0. k \in 1 .. n /\ k + 1 # 1
    BY <1>1, <1>3
  <2>2. \A i \in 1 .. k : g[i] = IF i = 1 THEN seqs[i] ELSE g[i - 1] \o seqs[i]
    <3> SUFFICES ASSUME NEW i \in 1 .. k
                 PROVE  g[i] = IF i = 1 THEN seqs[i] ELSE g[i - 1] \o seqs[i]
      OBVIOUS
    <3>1. i \in 1 .. k + 1 /\ i # k + 1 /\ g[i] = f[i]
      BY <2>0
    <3>2. f[i] = IF i = 1 THEN seqs[i] ELSE f[i - 1] \o seqs[i]
      <4> HIDE DEF g
      <4> QED BY <2>1
    <3>3. i # 1 => i - 1 \in 1 .. k + 1 /\ i - 1 # k + 1
      BY <2>0
    <3>4. i # 1 => g[i - 1] = f[i - 1]
      BY <3>3
    <3> HIDE DEF g
    <3>5. CASE i = 1
      BY <3>1, <3>2, <3>5
    <3>6. CASE i # 1
      <4>1. f[i] = f[i - 1] \o seqs[i]
        BY <3>2, <3>6, Zenon
      <4>2. g[i] = f[i - 1] \o seqs[i]
        BY <3>1, <4>1, Zenon
      <4>3. g[i - 1] = f[i - 1]
        BY <3>4, <3>6, Zenon
      <4>4. g[i] = g[i - 1] \o seqs[i]
        BY <4>2, <4>3, Zenon
      <4> QED BY <3>6, <4>4, Zenon
    <3> QED BY <3>5, <3>6
  <2>3. g[k + 1] = g[k] \o seqs[k + 1]
    <3>1. k + 1 \in 1 .. k + 1 /\ k \in 1 .. k + 1 /\ k # k + 1
      BY <2>0
    <3> QED BY <3>1
  <2>4. \A i \in 1 .. k + 1 : g[i] = IF i = 1 THEN seqs[i] ELSE g[i - 1] \o seqs[i]
    <3> SUFFICES ASSUME NEW i \in 1 .. k + 1
                 PROVE  g[i] = IF i = 1 THEN seqs[i] ELSE g[i - 1] \o seqs[i]
      OBVIOUS
    <3>1. i \in 1 .. k \/ i = k + 1
      BY <2>0
    <3>2. k + 1 - 1 = k
      BY <2>0
    <3> HIDE DEF g
    <3>3. CASE i \in 1 .. k
      BY <2>2, <3>3
    <3>4. CASE i = k + 1
      <4>1. i - 1 = k /\ i # 1
        BY <2>0, <3>2, <3>4
      <4>2. g[i] = g[i - 1] \o seqs[i]
        BY <2>3, <3>4, <4>1, Zenon
      <4> QED BY <4>1, <4>2, Zenon
    <3> QED BY <3>1, <3>3, <3>4
  <2>5. g = [i \in 1 .. k + 1 |-> g[i]]
    OBVIOUS
  <2>6. Is(g, k + 1)
    <3> HIDE DEF g
    <3> QED BY <2>4, <2>5, Zenon
  <2> HIDE DEF g
  <2> QED BY <1>3, <2>6
<1>4. n \in Reached
  <2> HIDE DEF Reached
  <2>1. 1 .. n \subseteq Reached
    BY <1>1, <1>2, <1>3, CountingUp
  <2> QED BY <1>1, <2>1
<1> DEFINE flat == CHOOSE f : Is(f, n)
<1>5. Is(flat, n)
  BY <1>4
<1>6. FlattenSeq(seqs) = flat[n]
  BY <1>1 DEF FlattenSeq, n
<1> HIDE DEF flat
<1>7. \A i \in 1 .. n : flat[i] = IF i = 1 THEN seqs[i] ELSE flat[i - 1] \o seqs[i]
  BY <1>5
<1> DEFINE Sound == {i \in 1 .. n : flat[i] \in Seq(Symbol)}
<1>8. 1 .. n \subseteq Sound
  <2>1. 1 \in Sound
    BY <1>1, <1>7
  <2>2. ASSUME NEW k \in Sound, k + 1 \in 1 .. n PROVE k + 1 \in Sound
    <3>1. k \in 1 .. n /\ k + 1 # 1 /\ k + 1 - 1 = k /\ flat[k] \in Seq(Symbol)
      BY <1>1, <2>2
    <3>2. flat[k + 1] = flat[k] \o seqs[k + 1]
      <4>1. flat[k + 1] = IF k + 1 = 1 THEN seqs[k + 1] ELSE flat[k + 1 - 1] \o seqs[k + 1]
        BY <1>7, <2>2
      <4> QED BY <3>1, <4>1, Zenon
    <3>3. flat[k + 1] \in Seq(Symbol)
      BY <1>1, <2>2, <3>1, <3>2, ConcatProperties
    <3> QED BY <2>2, <3>3
  <2> HIDE DEF Sound
  <2> QED BY <1>1, <2>1, <2>2, CountingUp
<1>9. flat \in [1 .. n -> Seq(Symbol)]
  BY <1>5, <1>8
<1>10. flat[1] = seqs[1] /\ \A i \in 1 .. n - 1 : flat[i + 1] = flat[i] \o seqs[i + 1]
  <2>1. 1 \in 1 .. n
    BY <1>1
  <2>2. \A i \in 1 .. n - 1 : i + 1 \in 1 .. n /\ i + 1 # 1 /\ i + 1 - 1 = i
    BY <1>1
  <2>3. ASSUME NEW i \in 1 .. n - 1 PROVE flat[i + 1] = flat[i] \o seqs[i + 1]
    <3> DEFINE j == i + 1
    <3>1. j \in 1 .. n /\ j # 1 /\ j - 1 = i
      BY <2>2
    <3> HIDE DEF j
    <3>2. flat[j] = flat[j - 1] \o seqs[j]
      BY <1>7, <3>1, Zenon
    <3> QED BY <3>1, <3>2 DEF j
  <2> QED BY <1>7, <2>1, <2>3, Zenon
<1> QED
  BY <1>6, <1>9, <1>10 DEF n

\* Two parts of the same lengths are told from the whole.
LEMMA ConcatParts ==
    ASSUME NEW Symbol, NEW a \in Seq(Symbol), NEW b \in Seq(Symbol),
           NEW c \in Seq(Symbol), NEW d \in Seq(Symbol),
           Len(a) <= Len(c), Len(b) <= Len(d), a \o b = c \o d
    PROVE  a = c /\ b = d
<1>1. /\ Len(a) \in Nat /\ Len(b) \in Nat /\ Len(c) \in Nat /\ Len(d) \in Nat
  BY LenProperties
<1>2. Len(a) = Len(c) /\ Len(b) = Len(d)
  <2>1. Len(a) + Len(b) = Len(c) + Len(d)
    BY ConcatProperties
  <2> QED BY <1>1, <2>1
<1>3. ASSUME NEW i \in 1 .. Len(a) PROVE a[i] = c[i]
  <2>1. i \in 1 .. Len(a) + Len(b) /\ i <= Len(a)
    BY <1>1
  <2>2. (a \o b)[i] = a[i] /\ (c \o d)[i] = c[i]
    BY <1>2, <2>1, ConcatProperties
  <2> QED BY <2>2
<1>4. ASSUME NEW i \in 1 .. Len(b) PROVE b[i] = d[i]
  <2> DEFINE j == i + Len(a)
  <2>1. j \in 1 .. Len(a) + Len(b) /\ ~(j <= Len(a)) /\ j - Len(a) = i
    BY <1>1
  <2> HIDE DEF j
  <2>2. (a \o b)[j] = b[j - Len(a)]
    BY <2>1, ConcatProperties
  <2>3. (c \o d)[j] = d[j - Len(c)]
    <3>1. j \in 1 .. Len(c) + Len(d) /\ ~(j <= Len(c))
      BY <1>2, <2>1
    <3> QED BY <3>1, ConcatProperties
  <2> QED BY <1>2, <2>1, <2>2, <2>3
<1> QED
  BY <1>2, <1>3, <1>4, SeqEqual
=============================================================================
