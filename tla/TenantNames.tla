---------------------------- MODULE TenantNames ----------------------------
(***************************************************************************)
(* Names of schemas and databases made from a pattern and a tenant         *)
(* (SchemaConfig in src/schema.rs, TenantDatabaseConfig in                 *)
(* src/database.rs).  Strings are sequences of bytes; the placeholders are *)
(* looked for in all of a string, so also in what was put in for another.  *)
(***************************************************************************)
EXTENDS Naturals, Sequences, SequencesExt

IdPlace == <<"{", "i", "d", "}">>
NamePlace == <<"{", "n", "a", "m", "e", "}">>

\* Where a placeholder starts.  It has "{" at its start alone, so that no two of one
\* placeholder overlap.
Starts(string, placeholder) ==
    {i \in DOMAIN string :
        \A k \in DOMAIN placeholder :
            i + k - 1 \in DOMAIN string /\ string[i + k - 1] = placeholder[k]}

\* The bytes after the first one of a placeholder.
Inside(string, placeholder) ==
    {i \in DOMAIN string :
        \E s \in Starts(string, placeholder) : s < i /\ i < s + Len(placeholder)}

\* str::replace: every occurrence, and not what has been put in.
replace(string, placeholder, by) ==
    FlattenSeq([i \in DOMAIN string |->
                  IF i \in Starts(string, placeholder) THEN by
                  ELSE IF i \in Inside(string, placeholder) THEN <<>>
                  ELSE <<string[i]>>])

\* Slip: the name takes the place of both.
SchemaNameOnly(pattern, tenant) ==
    replace(replace(pattern, IdPlace, tenant.name), NamePlace, tenant.name)

\* The id first, so a "{name}" that the id makes is replaced as well.
schema_name(pattern, tenant) ==
    replace(replace(pattern, IdPlace, tenant.id), NamePlace, tenant.name)

database_name(pattern, tenant) ==
    replace(replace(pattern, IdPlace, tenant.id), NamePlace, tenant.name)
=============================================================================
