------------------------ MODULE SchemaSessionProofs ------------------------
(***************************************************************************)
(* A query sees the schema of its tenant, and dropping one schema does not *)
(* take another away: for any number of tasks, connections and tenants,    *)
(* any names, and any length at which identifiers are cut.                 *)
(***************************************************************************)
EXTENDS SchemaSession, SequenceLemmas

-----------------------------------------------------------------------------
(* Names: what str::replace makes of a pattern.                            *)

\* What replace puts together, one piece for each symbol.
Pieces(string, placeholder, by) ==
    [i \in DOMAIN string |->
        IF i \in Starts(string, placeholder) THEN by
        ELSE IF i \in Inside(string, placeholder) THEN <<>>
        ELSE <<string[i]>>]

\* There is a piece for each symbol, and each piece is a string, of what is put in
\* and of the symbols at which no placeholder starts.
LEMMA PiecesAreStrings ==
    ASSUME NEW Symbol, NEW string \in Seq(Symbol), NEW Result, NEW by \in Seq(Result),
           NEW placeholder,
           \A i \in DOMAIN string \ Starts(string, placeholder) : string[i] \in Result
    PROVE  /\ Pieces(string, placeholder, by) \in Seq(Seq(Result))
           /\ Len(Pieces(string, placeholder, by)) = Len(string)
<1> DEFINE n == Len(string)
           piece(i) == IF i \in Starts(string, placeholder) THEN by
                       ELSE IF i \in Inside(string, placeholder) THEN <<>>
                       ELSE <<string[i]>>
<1>1. n \in Nat /\ DOMAIN string = 1 .. n
  BY LenProperties
<1>2. \A i \in 1 .. n : piece(i) \in Seq(Result)
  BY <1>1
<1>3. Pieces(string, placeholder, by) = [i \in 1 .. n |-> piece(i)]
  BY <1>1 DEF Pieces
<1>4. [i \in 1 .. n |-> piece(i)] \in Seq(Seq(Result))
  <2> HIDE DEF n, piece
  <2> QED BY <1>1, <1>2, IsASeq
<1>5. Len([i \in 1 .. n |-> piece(i)]) = n
  <2> HIDE DEF piece
  <2> QED BY <1>1, <1>4, LenProperties
<1> QED
  BY <1>3, <1>4, <1>5

\* A string becomes one of what is put in and of the symbols at which no placeholder
\* starts.
LEMMA ReplaceMakesStrings ==
    ASSUME NEW Symbol, NEW string \in Seq(Symbol), NEW Result, NEW by \in Seq(Result),
           NEW placeholder,
           \A i \in DOMAIN string \ Starts(string, placeholder) : string[i] \in Result
    PROVE  replace(string, placeholder, by) \in Seq(Result)
<1> DEFINE seqs == Pieces(string, placeholder, by)
<1>1. seqs \in Seq(Seq(Result)) /\ Len(seqs) = Len(string) /\ Len(seqs) \in Nat
  BY PiecesAreStrings, LenProperties
<1>2. replace(string, placeholder, by) = FlattenSeq(seqs)
  BY DEF replace, Pieces
<1> HIDE DEF seqs
<1>3. CASE Len(seqs) = 0
  <2>1. FlattenSeq(seqs) = seqs
    BY <1>3 DEF FlattenSeq
  <2>2. seqs = <<>>
    BY <1>1, <1>3, EmptySeq
  <2> QED BY <1>2, <2>1, <2>2
<1>4. CASE Len(seqs) # 0
  <2> DEFINE n == Len(seqs)
  <2>1. n \in 1 .. n
    BY <1>1, <1>4
  <2> HIDE DEF n
  <2>2. PICK flat \in [1 .. n -> Seq(Result)] : FlattenSeq(seqs) = flat[n]
    BY <1>1, <1>4, Flattened DEF n
  <2> QED BY <1>2, <2>1, <2>2
<1> QED BY <1>3, <1>4

\* Without the placeholder, a string stays as it is.
LEMMA ReplaceNothing ==
    ASSUME NEW Symbol, NEW string \in Seq(Symbol), NEW by \in Seq(Symbol),
           NEW placeholder, Starts(string, placeholder) = {}
    PROVE  replace(string, placeholder, by) = string
<1> DEFINE seqs == Pieces(string, placeholder, by)
           n == Len(string)
<1>0. n \in Nat /\ DOMAIN string = 1 .. n /\ \A i \in 1 .. n : string[i] \in Symbol
  BY LenProperties, ElementOfSeq
<1>1. /\ seqs \in Seq(Seq(Symbol)) /\ Len(seqs) = n /\ n \in Nat
      /\ DOMAIN string = 1 .. n
      /\ \A i \in 1 .. n : string[i] \in Symbol
  <2> HIDE DEF seqs, n
  <2> QED BY <1>0, PiecesAreStrings DEF seqs, n
<1>2. \A i \in 1 .. n : seqs[i] = <<string[i]>>
  BY <1>0 DEF Pieces, Inside
<1>3. replace(string, placeholder, by) = FlattenSeq(seqs)
  BY DEF replace, Pieces
<1> HIDE DEF seqs, n
<1>4. CASE n = 0
  <2>1. FlattenSeq(seqs) = seqs
    BY <1>1, <1>4 DEF FlattenSeq
  <2>2. seqs = <<>> /\ string = <<>>
    BY <1>1, <1>4, EmptySeq
  <2> QED BY <1>3, <2>1, <2>2
<1>5. CASE n # 0
  <2>1. PICK flat \in [1 .. n -> Seq(Symbol)] :
          /\ FlattenSeq(seqs) = flat[n]
          /\ flat[1] = seqs[1]
          /\ \A i \in 1 .. n - 1 : flat[i + 1] = flat[i] \o seqs[i + 1]
    <3>1. seqs \in Seq(Seq(Symbol)) /\ Len(seqs) # 0
      BY <1>1, <1>5
    <3>2. \E flat \in [1 .. Len(seqs) -> Seq(Symbol)] :
            /\ FlattenSeq(seqs) = flat[Len(seqs)]
            /\ flat[1] = seqs[1]
            /\ \A i \in 1 .. Len(seqs) - 1 : flat[i + 1] = flat[i] \o seqs[i + 1]
      BY <3>1, Flattened, Zenon
    <3>3. Len(seqs) = n
      BY <1>1
    <3> QED BY <3>2, <3>3, Zenon
  <2> DEFINE Kept == {k \in 1 .. n : Len(flat[k]) = k /\ \A i \in 1 .. k : flat[k][i] = string[i]}
  <2>2. 1 \in Kept
    <3>1. 1 \in 1 .. n /\ \A i \in 1 .. 1 : i = 1
      BY <1>1, <1>5
    <3>2. flat[1] = <<string[1]>> /\ string[1] \in Symbol
      BY <1>1, <1>2, <2>1, <3>1
    <3>3. Len(<<string[1]>>) = 1 /\ <<string[1]>>[1] = string[1]
      OBVIOUS
    <3>4. Len(flat[1]) = 1 /\ flat[1][1] = string[1]
      BY <3>2, <3>3, Zenon
    <3>5. \A i \in 1 .. 1 : flat[1][i] = string[i]
      BY <3>1, <3>4, Zenon
    <3> QED BY <3>1, <3>4, <3>5
  <2>3. ASSUME NEW k \in Kept, k + 1 \in 1 .. n PROVE k + 1 \in Kept
    <3> DEFINE one == <<string[k + 1]>>
    <3>1. k \in 1 .. n /\ k \in 1 .. n - 1 /\ flat[k] \in Seq(Symbol) /\ string[k + 1] \in Symbol
      BY <1>1, <2>1, <2>3
    <3>2. one \in Seq(Symbol) /\ Len(one) = 1 /\ one[1] = string[k + 1]
      BY <3>1
    <3> HIDE DEF one
    <3>3. flat[k + 1] = flat[k] \o one
      <4>1. flat[k + 1] = flat[k] \o seqs[k + 1]
        BY <2>1, <3>1, Zenon
      <4>2. seqs[k + 1] = one
        BY <1>2, <2>3 DEF one
      <4> QED BY <4>1, <4>2, Zenon
    <3>4. /\ Len(flat[k + 1]) = k + 1
          /\ \A i \in 1 .. k + 1 : flat[k + 1][i] = IF i <= k THEN flat[k][i] ELSE one[i - k]
      <4> DEFINE whole == flat[k]
      <4>1. whole \in Seq(Symbol) /\ Len(whole) = k
        BY <2>3, <3>1
      <4> HIDE DEF whole
      <4>2. /\ Len(whole \o one) = k + 1
            /\ \A i \in 1 .. k + 1 :
                 (whole \o one)[i] = IF i <= k THEN whole[i] ELSE one[i - k]
        <5>1. /\ Len(whole \o one) = Len(whole) + Len(one)
              /\ \A i \in 1 .. Len(whole) + Len(one) :
                   (whole \o one)[i] = IF i <= Len(whole) THEN whole[i] ELSE one[i - Len(whole)]
          BY <3>2, <4>1, ConcatProperties, Zenon
        <5>2. Len(whole) = k /\ Len(one) = 1
          BY <3>2, <4>1
        <5> QED BY <5>1, <5>2, Zenon
      <4> QED BY <3>3, <4>2 DEF whole
    <3>5. ASSUME NEW i \in 1 .. k + 1 PROVE flat[k + 1][i] = string[i]
      <4>1. CASE i <= k
        BY <2>3, <3>1, <3>4, <4>1
      <4>2. CASE ~(i <= k)
        <5>1. i = k + 1 /\ i - k = 1
          BY <3>1, <4>2
        <5> QED BY <3>2, <3>4, <4>2, <5>1
      <4> QED BY <4>1, <4>2
    <3> QED BY <2>3, <3>4, <3>5
  <2>4. n \in Kept
    <3>1. n \in 1 .. n
      BY <1>1, <1>5
    <3> HIDE DEF Kept
    <3>2. 1 .. n \subseteq Kept
      BY <1>1, <2>2, <2>3, CountingUp
    <3> QED BY <3>1, <3>2
  <2>5. flat[n] \in Seq(Symbol) /\ Len(flat[n]) = n /\ \A i \in 1 .. n : flat[n][i] = string[i]
    BY <1>1, <2>1, <2>4
  <2>6. flat[n] = string
    BY <2>5, SeqEqual DEF n
  <2> QED BY <1>3, <2>1, <2>6
<1> QED BY <1>4, <1>5

\* A string that holds a placeholder tells from the result what was put in.
LEMMA ReplaceTellsApart ==
    ASSUME NEW Symbol, NEW string \in Seq(Symbol), NEW placeholder,
           Starts(string, placeholder) # {},
           NEW by \in Seq(Symbol), NEW other \in Seq(Symbol),
           replace(string, placeholder, by) = replace(string, placeholder, other)
    PROVE  by = other
<1>1. ASSUME NEW a \in Seq(Symbol), NEW b \in Seq(Symbol), Len(a) <= Len(b),
             replace(string, placeholder, a) = replace(string, placeholder, b)
      PROVE  a = b
  <2> DEFINE as == Pieces(string, placeholder, a)
             bs == Pieces(string, placeholder, b)
             n == Len(string)
  <2>1. /\ as \in Seq(Seq(Symbol)) /\ bs \in Seq(Seq(Symbol))
        /\ Len(as) = n /\ Len(bs) = n /\ n \in Nat
        /\ DOMAIN string = 1 .. n
    <3>1. n \in Nat /\ DOMAIN string = 1 .. n /\ \A i \in 1 .. n : string[i] \in Symbol
      BY LenProperties, ElementOfSeq
    <3> HIDE DEF as, bs, n
    <3> QED BY <3>1, PiecesAreStrings DEF as, bs, n
  <2>2. PICK at \in 1 .. n : at \in Starts(string, placeholder)
    BY <2>1 DEF Starts
  <2>3. as[at] = a /\ bs[at] = b
    BY <2>1, <2>2 DEF Pieces
  <2>4. FlattenSeq(as) = FlattenSeq(bs)
    BY <1>1 DEF replace, Pieces
  <2>5. ASSUME NEW i \in 1 .. n
        PROVE  as[i] \in Seq(Symbol) /\ bs[i] \in Seq(Symbol) /\ Len(as[i]) <= Len(bs[i])
    <3>1. as[i] \in Seq(Symbol) /\ bs[i] \in Seq(Symbol)
      BY <2>1, ElementOfSeq
    <3>2. Len(as[i]) <= Len(bs[i])
      <4>1. CASE i \in Starts(string, placeholder)
        <5>1. as[i] = a /\ bs[i] = b
          BY <2>1, <4>1 DEF Pieces
        <5> QED BY <1>1, <5>1
      <4>2. CASE i \notin Starts(string, placeholder)
        <5>1. as[i] = bs[i]
          BY <2>1, <4>2 DEF Pieces
        <5> QED BY <3>1, <5>1, LenProperties
      <4> QED BY <4>1, <4>2
    <3> QED BY <3>1, <3>2
  <2> HIDE DEF as, bs, n
  <2>0. n # 0
    BY <2>1, <2>2
  <2>6. PICK fa \in [1 .. n -> Seq(Symbol)] :
          /\ FlattenSeq(as) = fa[n]
          /\ fa[1] = as[1]
          /\ \A i \in 1 .. n - 1 : fa[i + 1] = fa[i] \o as[i + 1]
    <3>1. as \in Seq(Seq(Symbol)) /\ Len(as) = n /\ Len(as) # 0
      BY <2>0, <2>1
    <3> QED BY <3>1, Flattened
  <2>7. PICK fb \in [1 .. n -> Seq(Symbol)] :
          /\ FlattenSeq(bs) = fb[n]
          /\ fb[1] = bs[1]
          /\ \A i \in 1 .. n - 1 : fb[i + 1] = fb[i] \o bs[i + 1]
    <3>1. bs \in Seq(Seq(Symbol)) /\ Len(bs) = n /\ Len(bs) # 0
      BY <2>0, <2>1
    <3> QED BY <3>1, Flattened
  <2> DEFINE Apart == {k \in 1 .. n : /\ Len(fa[k]) <= Len(fb[k])
                                      /\ fa[k] = fb[k] => \A i \in 1 .. k : as[i] = bs[i]}
  <2>8. 1 \in Apart
    <3>1. \A i \in 1 .. 1 : i = 1
      OBVIOUS
    <3>2. 1 \in 1 .. n
      BY <2>1, <2>2
    <3> QED BY <2>5, <2>6, <2>7, <3>1, <3>2
  <2>9. ASSUME NEW k \in Apart, k + 1 \in 1 .. n PROVE k + 1 \in Apart
    <3>1. k \in 1 .. n /\ k \in 1 .. n - 1
      BY <2>1, <2>9
    <3>2. fa[k + 1] = fa[k] \o as[k + 1] /\ fb[k + 1] = fb[k] \o bs[k + 1]
      BY <2>6, <2>7, <3>1, Zenon
    <3>3. /\ fa[k] \in Seq(Symbol) /\ fb[k] \in Seq(Symbol)
          /\ as[k + 1] \in Seq(Symbol) /\ bs[k + 1] \in Seq(Symbol)
          /\ Len(fa[k]) <= Len(fb[k]) /\ Len(as[k + 1]) <= Len(bs[k + 1])
      BY <2>5, <2>9, <3>1
    <3>4. Len(fa[k + 1]) <= Len(fb[k + 1])
      <4>1. /\ Len(fa[k + 1]) = Len(fa[k]) + Len(as[k + 1])
            /\ Len(fb[k + 1]) = Len(fb[k]) + Len(bs[k + 1])
        <5>1. Len(fa[k] \o as[k + 1]) = Len(fa[k]) + Len(as[k + 1])
          BY <3>3, ConcatProperties, Zenon
        <5>2. Len(fb[k] \o bs[k + 1]) = Len(fb[k]) + Len(bs[k + 1])
          BY <3>3, ConcatProperties, Zenon
        <5> QED BY <3>2, <5>1, <5>2, Zenon
      <4>2. /\ Len(fa[k]) \in Nat /\ Len(fb[k]) \in Nat
            /\ Len(as[k + 1]) \in Nat /\ Len(bs[k + 1]) \in Nat
        BY <3>3, LenProperties
      <4>3. \A w, x, y, z \in Nat : w <= y /\ x <= z => w + x <= y + z
        OBVIOUS
      <4>4. Len(fa[k]) + Len(as[k + 1]) <= Len(fb[k]) + Len(bs[k + 1])
        BY <3>3, <4>2, <4>3
      <4> QED BY <4>1, <4>4, Zenon
    <3>5. ASSUME fa[k + 1] = fb[k + 1], NEW i \in 1 .. k + 1 PROVE as[i] = bs[i]
      <4>1. fa[k] = fb[k] /\ as[k + 1] = bs[k + 1]
        <5> DEFINE a1 == fa[k]
                   a2 == as[k + 1]
                   b1 == fb[k]
                   b2 == bs[k + 1]
        <5>1. /\ a1 \in Seq(Symbol) /\ a2 \in Seq(Symbol)
              /\ b1 \in Seq(Symbol) /\ b2 \in Seq(Symbol)
              /\ Len(a1) <= Len(b1) /\ Len(a2) <= Len(b2)
          BY <3>3
        <5>2. a1 \o a2 = b1 \o b2
          BY <3>2, <3>5
        <5> HIDE DEF a1, a2, b1, b2
        <5>3. a1 = b1 /\ a2 = b2
          BY <5>1, <5>2, ConcatParts
        <5> QED BY <5>3 DEF a1, a2, b1, b2
      <4>2. i \in 1 .. k \/ i = k + 1
        BY <3>1
      <4> QED BY <2>9, <4>1, <4>2
    <3> QED BY <2>9, <3>4, <3>5
  <2>10. n \in Apart
    <3>1. n \in Nat /\ n \in 1 .. n
      BY <2>1, <2>2
    <3> HIDE DEF Apart
    <3>2. 1 .. n \subseteq Apart
      BY <2>8, <2>9, <3>1, CountingUp
    <3> QED BY <3>1, <3>2
  <2>11. as[at] = bs[at]
    BY <2>2, <2>4, <2>6, <2>7, <2>10
  <2> QED BY <2>3, <2>11
<1>2. Len(by) \in Nat /\ Len(other) \in Nat
  BY LenProperties
<1>3. Len(by) <= Len(other) \/ Len(other) <= Len(by)
  BY <1>2
<1> QED
  BY <1>1, <1>3

\* A string without a symbol is made of the others.
LEMMA MadeOfOthers ==
    ASSUME NEW Symbol, NEW string \in Seq(Symbol), NEW other, other \notin Range(string)
    PROVE  string \in Seq(Symbol \ {other})
<1>1. Len(string) \in Nat /\ string \in [1 .. Len(string) -> Symbol]
  BY LenProperties
<1>2. \A i \in 1 .. Len(string) : string[i] # other
  BY <1>1 DEF Range
<1>3. string \in [1 .. Len(string) -> Symbol \ {other}]
  BY <1>1, <1>2
<1> QED
  BY <1>1, <1>3, SeqDef

\* "{name}" starts with "{".
LEMMA NamePlaceStart == 1 \in DOMAIN NamePlace /\ NamePlace[1] = "{"
<1>1. \A a, b, c, d, e, f : /\ 1 \in DOMAIN <<a, b, c, d, e, f>>
                           /\ <<a, b, c, d, e, f>>[1] = a
  OBVIOUS
<1> QED
  BY <1>1, Zenon DEF NamePlace

\* So "{name}" starts only where "{" is.
LEMMA NamePlaceStarts ==
    ASSUME NEW string, NEW n \in Nat, NEW i \in 1 .. n, i \in Starts(string, NamePlace)
    PROVE  string[i] = "{"
<1>1. i + 1 - 1 = i
  OBVIOUS
<1> QED
  BY <1>1, NamePlaceStart DEF Starts

\* A pattern with "{id}" alone, as the default is, gives two tenants names that
\* differ as their ids do, whatever their names: no id can spell another one out.
THEOREM NamesApart ==
    ASSUME NEW Symbol, NEW pattern \in Seq(Symbol), NEW tenant, NEW other,
           tenant.id \in Seq(Symbol), tenant.name \in Seq(Symbol),
           other.id \in Seq(Symbol), other.name \in Seq(Symbol),
           Starts(pattern, IdPlace) # {},
           \A i \in DOMAIN pattern : pattern[i] = "{" => i \in Starts(pattern, IdPlace),
           "{" \notin Range(tenant.id), "{" \notin Range(other.id),
           tenant.id # other.id
    PROVE  /\ schema_name(pattern, tenant) # schema_name(pattern, other)
           /\ database_name(pattern, tenant) # database_name(pattern, other)
<1>1. ASSUME NEW one, one.id \in Seq(Symbol), one.name \in Seq(Symbol),
             "{" \notin Range(one.id)
      PROVE  replace(replace(pattern, IdPlace, one.id), NamePlace, one.name)
               = replace(pattern, IdPlace, one.id)
  <2> DEFINE string == replace(pattern, IdPlace, one.id)
             Others == Symbol \ {"{"}
  <2>1. \A i \in DOMAIN pattern \ Starts(pattern, IdPlace) : pattern[i] \in Others
    <3>1. DOMAIN pattern = 1 .. Len(pattern) /\ \A i \in 1 .. Len(pattern) : pattern[i] \in Symbol
      BY LenProperties, ElementOfSeq
    <3> QED BY <3>1
  <2>2. one.id \in Seq(Others)
    BY <1>1, MadeOfOthers
  <2>3. string \in Seq(Others)
    <3> HIDE DEF Others
    <3> QED BY <2>1, <2>2, ReplaceMakesStrings
  <2> HIDE DEF string
  <2>4. \A i \in DOMAIN string : string[i] \in Symbol /\ string[i] # "{"
    <3>1. DOMAIN string = 1 .. Len(string) /\ \A i \in 1 .. Len(string) : string[i] \in Others
      <4> HIDE DEF Others
      <4> QED BY <2>3, LenProperties, ElementOfSeq
    <3> QED BY <3>1
  <2>5. string \in Seq(Symbol)
    <3>1. Len(string) \in Nat /\ string \in [1 .. Len(string) -> Symbol]
      BY <2>3, <2>4, LenProperties
    <3> QED BY <3>1, SeqDef
  <2>6. Starts(string, NamePlace) = {}
    <3>1. DOMAIN string = 1 .. Len(string) /\ Len(string) \in Nat
      BY <2>5, LenProperties
    <3>2. \A i \in DOMAIN string : i \notin Starts(string, NamePlace)
      BY <2>4, <3>1, NamePlaceStarts
    <3> QED BY <3>2 DEF Starts
  <2>7. replace(string, NamePlace, one.name) = string
    BY <1>1, <2>5, <2>6, ReplaceNothing
  <2> QED BY <2>7 DEF string
<1>2. replace(pattern, IdPlace, tenant.id) # replace(pattern, IdPlace, other.id)
  BY ReplaceTellsApart
<1> QED
  BY <1>1, <1>2 DEF schema_name, database_name

-----------------------------------------------------------------------------
(* Sessions.                                                               *)

\* A name that with_schema has accepted reaches the server as it is: it is not
\* longer than what the server keeps of an identifier.
LEMMA NameIsKept ==
    ASSUME NEW tenant \in Tenants, NEW name \in with_schema(tenant)
    PROVE  /\ Identifier(name) = name
           /\ name \in Seq(Bytes)
           /\ name # None
<1>1. name \in AllNames /\ Len(name) \in 1 .. MAX_IDENTIFIER_LEN
  BY DEF with_schema, is_valid_schema_name, AllNames
<1>2. name \in Seq(Bytes) /\ name # None
  BY <1>1, NamesAssumption, NoneAssumption
<1>3. ~(Len(name) > MAX_IDENTIFIER_LEN)
  BY <1>1, <1>2, LengthAssumption
<1> QED
  BY <1>2, <1>3 DEF Identifier

\* What the calls rely on: the types and the two properties together.
IndInv == TypeOK /\ QueriesOwnSchema /\ SchemaStays

\* A call in progress asks the server for the very schema of its tenant.
LEMMA AskedIsOwn ==
    ASSUME TypeOK, NEW t \in Tasks, call[t] # Idle
    PROVE  /\ Asked(t) = schema[call[t].tenant]
           /\ Asked(t) \in Seq(Bytes)
           /\ call[t].tenant \in Tenants
           /\ call[t].conn \in Conns
<1>1. call[t].tenant \in Tenants /\ call[t].conn \in Conns
  BY DEF TypeOK
<1>2. schema[call[t].tenant] \in with_schema(call[t].tenant)
  BY <1>1 DEF TypeOK, Schemas
<1> QED
  BY <1>1, <1>2, NameIsKept DEF Asked

\* No call is in progress at first, and every connection has the public path.
LEMMA InitInvariant == Init => IndInv
<1> SUFFICES ASSUME Init PROVE IndInv
  OBVIOUS
<1>1. \A t \in Tasks : call[t] = Idle
  BY DEF Init
<1>2. TypeOK
  BY <1>1, NamesAssumption DEF AllNames, TypeOK, Init, Idle
<1>3. QueriesOwnSchema /\ SchemaStays
  BY <1>1 DEF QueriesOwnSchema, SchemaStays, Init, Idle
<1> QED
  BY <1>2, <1>3 DEF IndInv

\* What a step that ends the call of t owes to the calls that go on.
ReturnKeeps(t) ==
    /\ call' \in [Tasks -> {Idle} \cup [at : {"set", "query", "create", "drop"},
                                        conn : Conns, tenant : Tenants]]
    /\ \A u \in Tasks : call'[u] # Idle => schema'[call'[u].tenant] # None
    /\ \A u, v \in Tasks :
         call'[u].conn = call'[v].conn => u = v \/ call'[u] = Idle
    /\ QueriesOwnSchema'

\* A call that ends, and leaves the paths alone, disturbs no other call.
LEMMA Returning ==
    ASSUME IndInv, NEW t \in Tasks, Return(t), UNCHANGED <<schema, path>>
    PROVE  ReturnKeeps(t)
<1>0. TypeOK /\ QueriesOwnSchema
  BY DEF IndInv
<1>1. /\ call' \in [Tasks -> {Idle} \cup [at : {"set", "query", "create", "drop"},
                                         conn : Conns, tenant : Tenants]]
      /\ call'[t] = Idle
      /\ \A u \in Tasks : u # t => call'[u] = call[u]
  BY <1>0 DEF Return, TypeOK
<1>2. \A u \in Tasks : call'[u] # Idle => schema'[call'[u].tenant] # None
  BY <1>0, <1>1 DEF TypeOK
<1>3. \A u \in Tasks : call[u] # Idle => call[u].conn # None
  BY <1>0, NoneAssumption DEF TypeOK
<1>4. \A u, v \in Tasks : call'[u].conn = call'[v].conn => u = v \/ call'[u] = Idle
  BY <1>0, <1>1, <1>3 DEF TypeOK, Idle
<1>5. QueriesOwnSchema'
  BY <1>0, <1>1 DEF QueriesOwnSchema, Idle
<1> QED
  BY <1>1, <1>2, <1>4, <1>5 DEF ReturnKeeps

\* Each step keeps the invariant: only the call that has a connection changes the
\* path of that connection, and it changes it to the schema of its own tenant.
LEMMA NextInvariant == IndInv /\ [Next]_vars => IndInv'
<1> SUFFICES ASSUME IndInv, [Next]_vars PROVE IndInv'
  OBVIOUS
<1> USE DEF IndInv
<1>0. CASE UNCHANGED vars
  BY <1>0 DEF vars, TypeOK, QueriesOwnSchema, SchemaStays
<1>1. ASSUME NEW t \in Tasks, NEW at \in {"set", "create", "drop"},
             NEW conn \in Conns, NEW tenant \in Tenants, Call(t, at, conn, tenant)
      PROVE  IndInv'
  <2>1. TypeOK'
    BY <1>1, NoneAssumption DEF Call, Await, Free, TypeOK, Idle
  <2>2. QueriesOwnSchema' /\ SchemaStays'
    BY <1>1 DEF Call, Await, QueriesOwnSchema, SchemaStays, TypeOK, Idle
  <2> QED BY <2>1, <2>2
<1>2. ASSUME NEW t \in Tasks, PathSet(t) PROVE IndInv'
  <2>0. /\ call[t] # Idle
        /\ Asked(t) = schema[call[t].tenant]
        /\ Asked(t) \in Seq(Bytes)
        /\ call[t].tenant \in Tenants
        /\ call[t].conn \in Conns
    BY <1>2, AskedIsOwn DEF PathSet, Idle
  <2>1. TypeOK'
    BY <1>2, <2>0 DEF PathSet, Await, TypeOK, Idle
  <2>2. QueriesOwnSchema'
    <3> SUFFICES ASSUME NEW u \in Tasks, call'[u].at = "query"
                 PROVE  path'[call'[u].conn] = schema'[call'[u].tenant]
      BY DEF QueriesOwnSchema
    <3>1. CASE u = t
      BY <1>2, <2>0, <3>1 DEF PathSet, Await, TypeOK
    <3>2. CASE u # t
      <4>1. call'[u] = call[u] /\ call[u] # Idle
        BY <1>2, <3>2 DEF PathSet, Await, TypeOK, Idle
      <4>2. call[u].conn # call[t].conn
        BY <3>2, <4>1 DEF TypeOK
      <4> QED BY <1>2, <4>1, <4>2 DEF PathSet, QueriesOwnSchema, TypeOK
    <3> QED BY <3>1, <3>2
  <2>3. SchemaStays'
    BY <1>2 DEF PathSet, SchemaStays
  <2> QED BY <2>1, <2>2, <2>3
<1>3. ASSUME NEW t \in Tasks, PathError(t) PROVE IndInv'
  <2>0. /\ call[t] # Idle
        /\ Asked(t) \in Seq(Bytes)
        /\ call[t].conn \in Conns
    BY <1>3, AskedIsOwn DEF PathError, Idle
  <2>1. TypeOK'
    <3>1. path' \in [Conns -> Seq(Bytes)]
      BY <1>3, <2>0 DEF PathError, TypeOK
    <3> QED
      BY <1>3, <3>1, NoneAssumption DEF PathError, Return, TypeOK, Idle
  <2>2. QueriesOwnSchema'
    <3> SUFFICES ASSUME NEW u \in Tasks, call'[u].at = "query"
                 PROVE  path'[call'[u].conn] = schema'[call'[u].tenant]
      BY DEF QueriesOwnSchema
    <3>1. u # t /\ call'[u] = call[u] /\ call[u] # Idle
      BY <1>3 DEF PathError, Return, TypeOK, Idle
    <3>2. call[u].conn # call[t].conn /\ call[u].conn \in Conns
      BY <3>1 DEF TypeOK
    <3>3. path'[call[u].conn] = path[call[u].conn]
      BY <1>3, <3>2 DEF PathError, TypeOK
    <3> QED BY <1>3, <3>1, <3>3 DEF PathError, QueriesOwnSchema
  <2>3. SchemaStays'
    BY <1>3 DEF PathError, SchemaStays
  <2> QED BY <2>1, <2>2, <2>3
<1>4. ASSUME NEW t \in Tasks, QueryEnds(t) \/ ProviderError(t) PROVE IndInv'
  <2>1. Return(t) /\ UNCHANGED <<schema, path, created, owners>>
    BY <1>4 DEF QueryEnds, ProviderError
  <2>2. ReturnKeeps(t)
    BY <2>1, Returning
  <2>3. TypeOK' /\ QueriesOwnSchema' /\ SchemaStays'
    BY <2>1, <2>2 DEF ReturnKeeps, TypeOK, SchemaStays
  <2> QED BY <2>3
<1>5. ASSUME NEW t \in Tasks, SchemaCreated(t) \/ SchemaDropped(t) PROVE IndInv'
  <2>0. /\ call[t] # Idle
        /\ Asked(t) = schema[call[t].tenant]
        /\ Asked(t) \in Seq(Bytes)
        /\ call[t].tenant \in Tenants
    BY <1>5, AskedIsOwn DEF SchemaCreated, SchemaDropped, Idle
  <2>1. Return(t) /\ UNCHANGED <<schema, path>>
    BY <1>5 DEF SchemaCreated, SchemaDropped
  <2>2. ReturnKeeps(t)
    BY <2>1, Returning
  <2>3. created' \subseteq Seq(Bytes) /\ owners' \subseteq Tenants
    BY <1>5, <2>0 DEF SchemaCreated, SchemaDropped, TypeOK
  <2>4. TypeOK' /\ QueriesOwnSchema'
    BY <2>1, <2>2, <2>3 DEF ReturnKeeps, TypeOK
  <2>5. SchemaStays'
    BY <1>5, <2>0 DEF SchemaCreated, SchemaDropped, SchemaStays
  <2> QED BY <2>4, <2>5
<1>6. ASSUME NEW conn \in Conns, Reconnect(conn) PROVE IndInv'
  <2>1. TypeOK'
    BY <1>6, NamesAssumption DEF AllNames, Reconnect, TypeOK
  <2>2. QueriesOwnSchema'
    BY <1>6 DEF Reconnect, Free, QueriesOwnSchema, TypeOK
  <2>3. SchemaStays'
    BY <1>6 DEF Reconnect, SchemaStays
  <2> QED BY <2>1, <2>2, <2>3
<1> QED
  BY <1>0, <1>1, <1>2, <1>3, <1>4, <1>5, <1>6 DEF Next, ReadOnly

\* The invariant holds in every reachable state.
THEOREM Invariance == Spec => []IndInv
<1> QED
  BY InitInvariant, NextInvariant, PTL DEF Spec

\* The variables keep their types; above all, a connection is lent to one call, and
\* a call is for a tenant with a schema.
THEOREM TypeTheorem == Spec => []TypeOK
<1> QED
  BY Invariance, PTL DEF IndInv

\* A query that TenantQuery runs sees the schema of its tenant, however many
\* tasks share the pool, whatever fails or is dropped.
THEOREM QueriesTheorem == Spec => []QueriesOwnSchema
<1> QED
  BY Invariance, PTL DEF IndInv

\* The schema of a tenant stays until it is dropped by its name.
THEOREM SchemaStaysTheorem == Spec => []SchemaStays
<1> QED
  BY Invariance, PTL DEF IndInv

\* Tenants that the configuration names apart never query in one schema: each query
\* sees the schema of its tenant, and two ids never make one name of schema.
THEOREM TenantsApartTheorem == Spec => []TenantsApart
<1>1. ASSUME NEW tenant \in Tenants, NEW other \in Tenants, ToldApart(tenant, other)
      PROVE  Configured(tenant) # Configured(other)
  <2>1. /\ Starts(Pattern, IdPlace) # {}
        /\ \A i \in DOMAIN Pattern : Pattern[i] = "{" => i \in Starts(Pattern, IdPlace)
        /\ Identity[tenant].id # Identity[other].id
        /\ "{" \notin Range(Identity[tenant].id)
        /\ "{" \notin Range(Identity[other].id)
    BY <1>1 DEF ToldApart
  <2> QED
    BY <2>1, PatternAssumption, NamesApart DEF Configured
<1>2. IndInv => TenantsApart
  <2> SUFFICES ASSUME IndInv, NEW t \in Tasks, NEW u \in Tasks,
                      call[t].at = "query", call[u].at = "query",
                      schema[call[t].tenant] = Configured(call[t].tenant),
                      schema[call[u].tenant] = Configured(call[u].tenant),
                      ToldApart(call[t].tenant, call[u].tenant)
               PROVE  path[call[t].conn] # path[call[u].conn]
    BY DEF TenantsApart
  <2>1. call[t].tenant \in Tenants /\ call[u].tenant \in Tenants
    BY DEF IndInv, TypeOK, Idle
  <2>2. /\ path[call[t].conn] = schema[call[t].tenant]
        /\ path[call[u].conn] = schema[call[u].tenant]
    BY DEF IndInv, QueriesOwnSchema
  <2> QED BY <1>1, <2>1, <2>2
<1> QED
  BY <1>2, Invariance, PTL
=============================================================================
