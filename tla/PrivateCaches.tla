--------------------------- MODULE PrivateCaches ---------------------------
(***************************************************************************)
(* What TenantCache promises (src/cache.rs): to a tenant, the cache it     *)
(* shares looks like one of its own.  An entry appears in it only when the *)
(* tenant sets it, under the key it is set, and one at a time; it may go   *)
(* at any time, deleted, cleared or expired, and takes no other with it.   *)
(***************************************************************************)

CONSTANTS
    Tenants,
    Asked,  \* keys that tenants ask for
    Writes  \* Writes[tenant][key]: what a tenant may set under a key

VARIABLE cache  \* cache[tenant]: the entries of a tenant, by key

Init == cache = [tenant \in Tenants |-> [key \in {} |-> key]]

Set(tenant, key) ==
    \E value \in Writes[tenant][key] :
        cache' = [cache EXCEPT ![tenant] =
                    [k \in DOMAIN @ \cup {key} |-> IF k = key THEN value ELSE @[k]]]

Lose(tenant, key) ==
    /\ key \in DOMAIN cache[tenant]
    /\ cache' = [cache EXCEPT ![tenant] = [k \in DOMAIN @ \ {key} |-> @[k]]]

Next == \E tenant \in Tenants, key \in Asked : Set(tenant, key) \/ Lose(tenant, key)

Spec == Init /\ [][Next]_cache
=============================================================================
