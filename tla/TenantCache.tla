---------------------------- MODULE TenantCache ----------------------------
(***************************************************************************)
(* TenantCache (src/cache.rs): tenants share one cache, each under its own *)
(* keys.  get, set, delete and exists are one call of the provider.        *)
(* clear_tenant is many: it lists the keys with the tenant's prefix and    *)
(* deletes them one by one, while other calls go on.                       *)
(*                                                                         *)
(* What the provider keeps (external) is a map from keys to entries.  A    *)
(* value is not looked at, it is known by who set it: the tenant and the   *)
(* parts its key was built from.                                           *)
(***************************************************************************)
EXTENDS CacheKey

CONSTANTS
    Callers,       \* tasks that share the cache
    Ids,           \* ids of tenants
    PartLists,     \* what keys are built from
    ProviderFails, \* whether the provider may return an error
    None           \* no tenant

ASSUME IdsAssumption == Ids \subseteq TenantIds /\ None \notin Ids
ASSUME PartsAssumption == PartLists \subseteq Seq(Strings)
ASSUME FailsAssumption == ProviderFails \in BOOLEAN

VARIABLES
    data,  \* the entries the provider keeps, by key
    call   \* the clear_tenant each caller has in progress, or the last to succeed

vars == <<data, call>>

\* left: keys it has yet to delete.  due: history, the keys that were there when
\* it began and that nobody has set since.
Idle == [at |-> "idle", tenant |-> None, left |-> {}, due |-> {}]

Init ==
    /\ data = <<>>
    /\ call = [c \in Callers |-> Idle]

Without(keys) == [k \in DOMAIN data \ keys |-> data[k]]

Keys(id) == {k \in DOMAIN data : IsPrefix(KeyPrefix(id), k)}

CanCall(c) == call[c].at \in {"idle", "cleared"}

-----------------------------------------------------------------------------
(* Calls of one step.                                                      *)

Set(c, id, parts) ==
    LET key == cache_key(id, build(parts)) IN
    /\ CanCall(c)
    /\ data' = [k \in DOMAIN data \cup {key} |->
                  IF k = key THEN [tenant |-> id, parts |-> parts] ELSE data[k]]
    /\ call' = [d \in Callers |-> [call[d] EXCEPT !.due = @ \ {key}]]

Delete(c, id, parts) ==
    /\ CanCall(c)
    /\ data' = Without({cache_key(id, build(parts))})
    /\ UNCHANGED call

\* get, exists, get_json, and every call the provider fails.
ReadOnly(c) == CanCall(c) /\ UNCHANGED vars

\* The time to live of an entry is over.
Expire == \E key \in DOMAIN data : data' = Without({key}) /\ UNCHANGED call

-----------------------------------------------------------------------------
(* clear_tenant                                                            *)

ClearTenant(c, id) ==
    /\ CanCall(c)
    /\ call' = [call EXCEPT ![c] =
                  [at |-> "scan", tenant |-> id, left |-> {}, due |-> Keys(id)]]
    /\ UNCHANGED data

\* Slip: a provider that lists every key.
ScanAnswersAll(c) ==
    /\ call[c].at = "scan"
    /\ call' = [call EXCEPT ![c].at = "delete", ![c].left = DOMAIN data]
    /\ UNCHANGED data

\* keys_with_prefix need not be atomic: of the keys that come or go in the
\* meantime it lists some.
ScanAnswers(c) ==
    /\ call[c].at = "scan"
    /\ \E keys \in SUBSET (call[c].due \cup Keys(call[c].tenant)) :
         /\ call[c].due \cap DOMAIN data \subseteq keys
         /\ call' = [call EXCEPT ![c].at = "delete", ![c].left = keys]
    /\ UNCHANGED data

\* delete_many: a loop over the keys that were listed.
DeleteNext(c) ==
    /\ call[c].at = "delete"
    /\ \E key \in call[c].left :
         /\ data' = Without({key})
         /\ call' = [call EXCEPT ![c].left = @ \ {key}]

\* Slip: the keys are listed again until there are none.
ClearReturnsWhenEmpty(c) ==
    /\ call[c].at = "delete"
    /\ call[c].left = {}
    /\ call' = [call EXCEPT ![c].at = IF Keys(call[c].tenant) = {} THEN "cleared"
                                      ELSE "scan"]
    /\ UNCHANGED data

ClearReturns(c) ==
    /\ call[c].at = "delete"
    /\ call[c].left = {}
    /\ call' = [call EXCEPT ![c].at = "cleared"]
    /\ UNCHANGED data

\* Slip: delete_many goes on after an error.
ProviderErrorSkipped(c) ==
    /\ ProviderFails
    /\ call[c].at \in {"scan", "delete"}
    /\ call' = [call EXCEPT ![c].at = "delete",
                            ![c].left = IF @ = {} THEN {} ELSE @ \ {CHOOSE k \in @ : TRUE}]
    /\ UNCHANGED data

\* The first error of the provider ends the call; what is deleted stays deleted.
\* A provider that cannot list keys fails here every time.
ProviderError(c) ==
    /\ ProviderFails
    /\ call[c].at \in {"scan", "delete"}
    /\ call' = [call EXCEPT ![c] = Idle]
    /\ UNCHANGED data

\* The future of the call is dropped.
Cancel(c) ==
    /\ call[c].at \in {"scan", "delete"}
    /\ call' = [call EXCEPT ![c] = Idle]
    /\ UNCHANGED data

-----------------------------------------------------------------------------
Invoke(c) ==
    \/ \E id \in Ids, parts \in PartLists : Set(c, id, parts) \/ Delete(c, id, parts)
    \/ \E id \in Ids : ClearTenant(c, id)
    \/ ReadOnly(c)

Continue(c) ==
    \/ ScanAnswers(c)
    \/ DeleteNext(c)
    \/ ClearReturns(c)
    \/ ProviderError(c)

Next ==
    \/ \E c \in Callers : Invoke(c) \/ Continue(c) \/ Cancel(c)
    \/ Expire

\* A task whose provider call has ended is polled, and provider calls end.
Fairness == \A c \in Callers : WF_vars(Continue(c))

Spec == Init /\ [][Next]_vars /\ Fairness

-----------------------------------------------------------------------------
(* Properties.                                                             *)

Entry == [tenant : Ids, parts : PartLists]

\* The variables keep their types; what a clear has listed are keys of its tenant.
TypeOK ==
    /\ DOMAIN data \subseteq Strings
    /\ data \in [DOMAIN data -> Entry]
    /\ \A c \in Callers :
         \/ call[c] = Idle
         \/ /\ DOMAIN call[c] = DOMAIN Idle
            /\ call[c].at \in {"scan", "delete", "cleared"}
            /\ call[c].tenant \in Ids
            /\ \A k \in call[c].left \cup call[c].due :
                 IsPrefix(KeyPrefix(call[c].tenant), k)

\* What a tenant gets for a key is what the same tenant has set for that key,
\* whatever bytes, separators included, ids and keys are made of.
ReadsOwn ==
    \A id \in Ids, parts \in PartLists :
        LET key == cache_key(id, build(parts)) IN
        key \in DOMAIN data =>
            data[key].tenant = id /\ build(data[key].parts) = build(parts)

\* clear_tenant deletes entries of its tenant only, although it goes by a prefix
\* of their keys and acts on a list that is out of date.
ClearTouchesOwn ==
    [][ \A c \in Callers :
          call'[c].left # call[c].left =>
            \A k \in DOMAIN data \ DOMAIN data' : data[k].tenant = call[c].tenant ]_vars

\* When clear_tenant has returned Ok, no entry that was there when it was called
\* is left, unless somebody has set it again since.
ClearedIsClear ==
    \A c \in Callers : call[c].at = "cleared" => call[c].due \cap DOMAIN data = {}

\* clear_tenant ends, although others keep setting keys of the tenant.
ClearEnds ==
    \A c \in Callers : call[c].at \in {"scan", "delete"} ~> call[c].at \in {"idle", "cleared"}

-----------------------------------------------------------------------------
(* To each tenant, the shared cache is one of its own.                     *)

Built == {build(parts) : parts \in PartLists}

\* The entries of a tenant, as get returns them.
get(id) ==
    [key \in {key \in Built : cache_key(id, key) \in DOMAIN data} |->
        data[cache_key(id, key)]]

\* What a tenant sets under a key.
Written(id, key) == {entry \in Entry : entry.tenant = id /\ build(entry.parts) = key}

Private == INSTANCE PrivateCaches WITH
    Tenants <- Ids,
    Asked <- Built,
    Writes <- [id \in Ids |-> [key \in Built |-> Written(id, key)]],
    cache <- [id \in Ids |-> get(id)]

\* A step changes what at most one tenant gets, for one key: what any other does,
\* clearing and setting at the same time included, it does not see.
ImplementsPrivateCaches == Private!Spec
=============================================================================
