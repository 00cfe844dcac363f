------------------------------ MODULE CacheKey ------------------------------
(***************************************************************************)
(* The keys under which tenants share one cache: Tenant::cache_key and     *)
(* CacheKeyBuilder.  A string is a sequence of bytes, for clear_tenant     *)
(* tells the keys of tenants apart by a prefix, byte by byte.              *)
(***************************************************************************)
EXTENDS Naturals, Sequences, SequencesExt

CONSTANTS
    Bytes,    \* what strings are made of, ":" included
    Digits,   \* the bytes a number is written with
    Lengths,  \* lengths of ids
    Decimal   \* Decimal[n]: how Rust formats the length n

\* The literal that every key starts with counts as one byte.
ASSUME BytesAssumption == {":", "tenant:"} \subseteq Bytes /\ Digits \subseteq Bytes \ {":"}
ASSUME LengthsAssumption == Lengths \subseteq Nat
ASSUME DecimalAssumption ==
    /\ DOMAIN Decimal = Lengths
    /\ \A n \in Lengths : /\ Decimal[n] \in Seq(Digits)
                          /\ \A m \in Lengths : Decimal[m] = Decimal[n] => m = n

Strings == Seq(Bytes)

\* Tenant::new takes any string as an id.
TenantIds == {id \in Strings : Len(id) \in Lengths}

\* Slip: the length of the id is left out.
CacheKeyWithoutLength(id, key) == <<"tenant:">> \o id \o <<":">> \o key

\* format!("tenant:{}:{}:{}", self.id.len(), self.id, key)
cache_key(id, key) ==
    <<"tenant:">> \o Decimal[Len(id)] \o <<":">> \o id \o <<":">> \o key

\* Tenant::cache_key of the empty key.
KeyPrefix(id) == cache_key(id, <<>>)

\* CacheKeyBuilder::build, parts.join(":")
build(parts) ==
    FlattenSeq([i \in DOMAIN parts |-> IF i = 1 THEN parts[i] ELSE <<":">> \o parts[i]])
=============================================================================
