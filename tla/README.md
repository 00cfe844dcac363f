# armature-tenancy: TLA+ models and proofs

The crate `armature-tenancy` gives a web application tenants: it keeps their
records and drives their life cycle, finds the tenant a request is for and
checks that the caller belongs to it, and hands out per-tenant database
connections, schemas and cache entries. This directory holds TLA+ modules of its
stateful parts, TLC configurations that check them on small instances, and TLAPS
proofs of the properties that matter most, for every value of the constants.
Line numbers refer to the files under `src/`.

    tlc -workers 2 -config TenantManager_concurrent.cfg MCTenantManager.tla
    tlapm TenantManagerProofs.tla

`PROJECT.json` lists, in machine-readable form, the components, the runs, the
lines each definition stands for, the hazards, and for every checked property a
plausible slip of the code that breaks it (the definitions commented "Slip:").

## 1. Inventory

| Component | State | Operations | Interacts with |
|---|---|---|---|
| `TenantManager` (`management.rs` 537-810) | none of its own | create, get, get_by_slug, update, list, count, suspend, activate, terminate, delete, get_usage, update_usage, check_limits | awaits `ManagedTenantStore` and `TenantProvisioner` |
| `ManagedTenantStore`, `InMemoryManagedTenantStore` (450-475, 814-947) | `HashMap<id, ManagedTenant>` behind a lock | create, get, get_by_slug, update, delete, list, count, update_usage, get_usage | called by any number of managers and tasks |
| `TenantProvisioner` (413-440) | external resources | provision, deprovision, suspend, resume | called by the manager, may fail |
| `TenantLimits`, `TenantUsage` (114-220) | values | for_plan, exceeds_limits | records of the manager |
| `TenantDatabaseManager` (`database.rs`) | `connection_cache`: name to connection, behind a tokio `RwLock` | get_connection, clear_cache, invalidate_tenant; pass-through database_exists, create_database | awaits the `DatabaseProvider` under the lock |
| `TenantDatabaseConfig` (`database.rs` 158-205) | values | database name from a pattern | what tenants are configured with |
| `TenantCache` (`cache.rs`) | an external key-value store | get, set, delete, exists, JSON forms, clear_tenant | awaits the `CacheProvider` |
| Cache keys (`tenant.rs` 188-190, `cache.rs` 215-240) | values | `Tenant::cache_key`, `CacheKeyBuilder` | the only thing that keeps tenants' entries apart |
| Resolvers (`resolver.rs`) | none | header, subdomain, JWT and path resolver | read the request, await the `TenantStore`, reject inactive tenants |
| `TenantMiddleware`, `TenantMembership` (`middleware.rs`) | the request's extensions | handle, tenants_of | resolver, authentication before it, handlers and layers after it |
| `TenantContext` (`tenant.rs` 195-266) | tenant, binding to the principal | new, bound_to_principal, set_tenant | read by handlers |
| `SchemaManager`, `TenantQuery` (`schema.rs` 73-155, 208-234) | the `search_path` of a connection, the schemas of the server | set_search_path, schema_exists, create_schema, drop_schema, execute | awaits the `SchemaProvider` |
| `SchemaConfig` (`schema.rs` 158-203) | values | schema name from a pattern | what tenants are configured with |
| `TenantFilter`, list and count (`management.rs` 478-532, 826-935) | values | filter, order, pages | the in-memory store |

What is hard here:

* **Overlapping calls.** The manager takes `&self` and awaits between reading a
  record and writing it back whole. The store serialises accesses, not calls.
* **Calls that end early.** A future may be dropped at any await; a store
  access or the provisioner may fail. Nothing resumes what was half done.
* **A lock kept across an await** in `get_connection`, with a second look under
  the write lock, and invalidations that arrive in the meantime.
* **A loop of single deletions** in `clear_tenant`, while entries come, go and
  expire, over keys whose parts may contain the separator.
* **Connections that are used again** keep the `search_path` of the tenant they
  served before, and the server cuts long identifiers.
* **Pages** cut from an order that `created_at` alone does not fix, with word
  arithmetic that goes round, while tenants come and go between pages.
* **Requests in the meantime.** Resolvers look at `active` alone, which suspend and
  terminate change in their last write, while requests come in and go on.
* **Names from patterns**, which the server may cut and tenants may share.
* **Layers in any order.** The request's context may be preset, left by an outer
  layer, or resolved before there is a principal; tenants change between the
  look-up and the handler.

What makes each part correct: records are coherent and limits belong to the
plan, slugs are unique, the life cycle is followed, resources follow the status
(manager); one connection per database, none from before an invalidation
(database); a tenant reads what it has written, clearing is complete and touches
nothing else (cache); a bound context is of a tenant of the principal, a handler
finds the context of the last tenant layer, strangers stay out, a suspension
takes effect (middleware); nobody is admitted for a tenant that is suspended or
terminated, and a terminated one drains (manager and middleware together); no two
tenants are given one schema, a query sees the schema of its tenant (schemas); pages
show every match once (listing).

## 2. Modules

| Module | Contents |
|---|---|
| `TenantLifecycle` | abstract specification: a phase and a slug for each id, one step per change of phase |
| `TenantLimits` | the figures of the plans, and what exceeds them; pure |
| `TenantManager` | the manager over the in-memory store and the provisioner, and the refinement mapping to `TenantLifecycle` |
| `TenantManagerProofs` | its proofs: calls that overlap, calls that do not, the refinement |
| `TenantDatabaseManager`, `TenantDatabaseProofs` | the connection cache; proofs |
| `CacheKey` | `cache_key`, `build` over sequences of bytes |
| `TenantCache`, `TenantCacheProofs` | calls of the cache over `CacheKey`, and the refinement mapping to `PrivateCaches`; proofs |
| `PrivateCaches` | abstract specification: a cache for each tenant, which only that tenant fills |
| `TenantMiddleware`, `TenantMiddlewareProofs` | requests through layers: authentication, resolvers, membership, handler; tenants that change; proofs |
| `TenantAccess`, `TenantAccessProofs` | the composition: `TenantManager`, with an instance of `TenantMiddleware` whose tenants are those the manager stores; proofs |
| `TenantNames` | names of schemas and databases from a pattern; pure |
| `SchemaSession`, `SchemaSessionProofs` | tenants with a schema each, over connections that are used again; proofs |
| `TenantPages`, `TenantPagesProofs` | list and count of the in-memory store, and a caller that goes through the pages; proofs |
| `SequenceLemmas` | lemmas about sequences put together from others, for cache keys and names |
| `MC...` | names and small values for TLC |

### TenantManager

A call is cut at its awaits: one action is the code from one await to the next,
with the store access or provisioner call it ends in. So `create` is
`CreateCheck` (look-up of the slug, drawing the id, building the record),
`CreateInsert` (`store.create`), `CreateProvision` or `CreateProvisionFails`,
then `Write` (`store.update`) or `CreateRollback` (`store.delete`). A method that
its first read rejects changes nothing; those calls and the queries are the
stuttering action `ReadOnly`.

| Variable | Code |
|---|---|
| `store` | the `HashMap` of `InMemoryManagedTenantStore` |
| `issued` | history: `Uuid::new_v4` has returned these, and returns none twice |
| `resources` | what the external provisioner keeps for each id |
| `call[c]` | the call that task c has in progress: `at`, where it waits; `id`; `tenant`, its local variable `managed` |

Store accesses are atomic since the in-memory store takes its lock for the whole
of each. `Put` replaces the whole record, as `HashMap::insert` does: that, and
`call[c].tenant` being a copy, is what makes overlapping calls interesting.
Requests and records are whole: profile, metadata, owner, plan, limits, usage, status;
timestamps are left out, since no decision of the manager reads them. What a request
asks for is a constant (`CreateRequests`, `UpdateRequests`), any of those that the
builders of the code can make; the domain of an update tells "leave" from "remove".
`suspension_reason` is kept as present or absent. A call of the provisioner that
fails is taken to have had no effect; one that is interrupted may have had its
effect or not (`Abort` before or after the action).

`UpdatedLimits` follows lines 651-663 as they are: a request that changes the plan
and carries no limits resets negotiated limits to the plan's, also when the new plan
is `Custom`, whose own limits are none at all. The comment "Update limits if not
custom" (653) can be read as a statement about the request or about the tenant; the
code does the former and the model with it.

### TenantLimits

The table of `for_plan`, with storage in gigabytes, and `exceeds_limits` as the set of
metrics in excess. `UpgradeRelieves` is stated for the usage and the limits that
`TenantManager` stores: a step to a plan at least as large adds nothing to what
`check_limits` reports. `Starter` in the small instance is exceeded by one user.

### TenantLifecycle

What the doc comments of `TenantStatus` and of the manager's methods promise, as
a graph of phases over `Unborn`, the five statuses and `Gone`. It keeps slugs
unique among tenants that are there. `PhaseOf` and `SlugOf` in `TenantManager`
map the store to it; an id that was drawn and not yet stored is still `Unborn`.

### TenantDatabaseManager

`queue` is the fair queue of tokio's `RwLock`; `lock` is held only across the
await of the provider, and the critical sections without an await are one action
each. `opened` and `overtaken` are history variables: how many connections were
opened since the database was last dropped from the cache, and which openings an
invalidation has overtaken. A call is for a tenant; the `database` of each is a
constant, in the small instance what `TenantNames` makes of a pattern, and `None` for
one tenant. `ReadOnly` stands for `database_exists`, `create_database`, and the calls
that a tenant without a database makes. `Cancel` drops a future wherever it waits: it
leaves the queue (`Leave`) or gives the lock back.

### CacheKey and TenantCache

Strings are sequences of bytes, since a prefix of bytes is what tells tenants
apart. The literal `tenant:` is one symbol. How a length is written
(`Decimal`) is a constant, of which only this is assumed: lengths are written
without colons, and differently (`DecimalAssumption`). An entry is known by the
tenant and parts it was set for. `clear_tenant` is a scan and then one deletion
at a time, the default `delete_many` (`cache.rs` 32-37); the scan need not be atomic.

### PrivateCaches

What isolation means to a tenant, said without keys: a cache of its own, in which an
entry appears only when that tenant sets it and where it sets it, one at a time, and
from which entries may go at any time. `TenantCache` maps to it by what `get` would
return to each tenant for each key it can build. Deleting, clearing step by step and
expiring are all `Lose`; what other tenants do must not be seen at all. When a clear
is complete is not part of it (`ClearedIsClear` says that).

### TenantMiddleware

A request passes a stack of layers; the stacks are a constant, so each order of
authentication and tenant layers can be given. The layer's resolver reads a key
from the request (`Extracted`), then the store answers (`Found`), then
membership is checked (`Bound`); `Administer` changes the store between any two
of these steps. The authentication layer (external) attaches the principal of a
valid token and rejects other requests. A subdomain is compared with the base
domain by case, as in the code. `carries.internal` is a header whose name begins with
`__tenant`; `Handle` removes it with the context, before the resolver reads anything.
A context may be on the request when it arrives, empty or of any tenant.

### TenantAccess

The crate leaves it to the application to put a `TenantStore` over what the manager
stores; `management.rs:448` says how it is meant: "Extend your TenantStore with
management operations". The composition does the direct thing: `View` gives the
resolvers the `Tenant` inside each `ManagedTenant`, that is `slug` and `active`, and
nothing of the status. A step is one of the manager (`Manage`), which leaves requests
alone, or one of a request (`Serve`), which leaves the manager alone. So the
`Administer` of the middleware, which may do anything to the tenants, becomes the
steps of the manager; `AccessImplementsMiddleware` proves it.

A tenant that is Provisioning or Terminating is active, and requests are let in for
it. `can_accept_requests` (396-401) would refuse a Terminating one, but nothing in the
crate calls it. `ShutTenantsAdmitNobody` therefore says nothing of a tenant in operation
that is Terminating: it is about tenants that are not registered, suspended, terminated,
or suspended before they were Terminating, since a termination that begins (and perhaps
is cut short) must not open what a suspension had shut.

### TenantNames

Strings are sequences of bytes, and `replace` is `str::replace`: it looks for the
placeholder byte by byte (`Starts`) and not in what it puts in. The id is put in first, and
the second replacement looks through the result: `{name}` in an id is replaced, and so is
one that an id completes, as the id `name` does in the pattern `{{id}}`.

### SchemaSession

`schema` is `Tenant::schema`, which only names that `with_schema` accepts can be.
`path` is the `search_path` in force on each connection, and `created` the schemas on
the server; both are external, and the code acts on them through the provider.
A call has its connection to itself (`&mut P::Connection`). `Call` is the code up
to the await of the provider, where a tenant without a schema is refused. `PathSet`
and `QueryEnds` are the two awaits of `execute`; `PathError` is the `?` between
them, whether the server has set the path or not. `owners` is a history variable.
The server cuts identifiers at the same length (`Identifier`) as the code's limit.
Names are of one case: what a provider that does not quote them makes of case is
its own. A tenant's schema is one the application names, or the one that
`SchemaConfig` gives it (`Configured`), if `with_schema` accepts it; the default
pattern `tenant_{id}` with the uuids of `TenantManager` gives names with hyphens,
which it does not. `TenantsApart` is stated for ids without `{` and a pattern with `{`
in its `{id}` alone, since with `tenant_{id}` the ids `x{name}` and `xy` give one name of
schema for two tenants called `y`.

### TenantPages

`bucket` says where the `HashMap` keeps each key, and so in which order it goes through
them: `insert`, of `store.create` and of `store.update` alike, may move all of them, as it
makes room before it looks for the key; `remove` moves none, and `update_usage`, which
changes a record in place (`get_mut`), is not seen here. A tenant is what filters and order
look at. `created_at` of a tenant is any instant: it is taken when the record is built, before
`store.create`, and creates may overtake each other. `NewestFirst` is the stable sort on it.
Offset and limit are words of `WORDS` values, added and subtracted as a release build
does on a platform whose `usize` is as wide as `u64`; with overflow checks `list`
panics where the arithmetic goes round. `walk` is a caller, which counts and then lists
until a page is not full; the caller is not part of the crate. What it cannot know is
history: `due`, the tenants that have matched all along, `grown` and `removed`, what
came and went, `moved`, whether an update has inserted, `tied`, whether two tenants were
created at one instant.

`WalkIsComplete` is for a listing nothing comes into or goes out of, and either no update
between its pages or no two tenants of one instant (`Undisturbed`). Without that last
condition it is false, and TLC says so when it is taken out: two tenants of one instant,
pages of one; the first page shows one of them, an update of either moves the keys, and the
second page shows the same tenant again, so that the other is never seen. No text of the
crate promises an order among tenants of one instant.

Pages by offset cannot be exact while the listing changes. `RemovalHidesOne` says how
far off they are: a tenant that comes hides none, one that goes hides at most one, when
`created_at` tells the tenants apart.

## 3. Runs

| Run | States | What it asks |
|---|---|---|
| `concurrent` | 388 440 (up to symmetry) | two callers that overlap, fail, are cut short: `RecordCoherent`, `SlugRaceBounded`, `IdentityIsForLife` |
| `serial` | 148 556 | one call at a time, whole requests, failures: `SlugUnique`, `LimitsMatchPlan`, `ResourcesFollowStatus`, `WritesTouchOwnFields`, `UpgradeRelieves`, `RollbackFreesSlug`, `ProvisioningEnds` |
| `access` | 184 124 | one call of the manager at a time, cut short anywhere, and a request: `NoOrphanResources`, `ImplementsLifecycle`, `ShutTenantsAdmitNobody`, `TerminationDrains` |
| `database_calls` | 9 412 | three tasks, three tenants, two databases: `OneConnectionPerDatabase`, `InvalidationIsFinal`, `SomebodyMoves`, `EveryCallEnds` |
| `cache_clear` | 16 984 | two tasks, two confusable tenants: `ReadsOwn`, `ClearedIsClear`, `ClearTouchesOwn`, `ImplementsPrivateCaches`, `ClearEnds` |
| `requests` | 33 275 | twelve stacks of layers, each kind of token, changing tenants: `BoundIsMember`, `HandlerContext`, `ForbiddenStaysOut`, `RevocationSettles` |
| `schema_sessions` | 22 429 | two tasks, two connections, two tenants: `QueriesOwnSchema`, `SchemaStays`, `TenantsApart` |
| `tenant_pages` | 305 169 (up to symmetry) | pages while tenants come, change and go: `PageIsExact`, `WalkIsComplete`, `RemovalHidesOne` |
| `slug_race`, `stale_termination`, `orphaned`, `unprovisioned` | violations | see section 5 |

**Bounds.** `Ids` bounds how many uuids are ever drawn, the only unbounded
counter of the manager. Two callers are the smallest number whose calls overlap;
two overlapping calls suffice for a stale write, since a write goes back over
what one other call did. `concurrent` has three ids so that a third record of
one slug could be stored, which is what `SlugRaceBounded` excludes for two
callers. `serial` has two ids so that a second create can take a freed slug, two slugs
and two usages so that a record can be told from another and from an old version,
and two plans and negotiated limits for `LimitsMatchPlan` and `UpgradeRelieves`; that
these hold when calls overlap, and for every plan and usage, is proved
(`LimitsCorrect`, `UpgradeTheorem`). `RollbackFreesSlug` is checked there too; that no
overlapping call brings the record back is `IdentityIsForLife`. `access` has one
caller of the manager, as
the life cycle and the drain hold only without overlap (section 5); admission with any
number of callers and requests is proved. Its request is made with the token of one
tenant, by the header or, on a public page, by the slug, which a second tenant may
take over after the first is deleted. Three database tasks are one opener,
one that waits for the second look and one that invalidates. The cache ids `x`
and `x:y` with parts `z` and `y:z` collide byte by byte but for the length. One
request is enough, as requests share only the store of tenants, which
`Administer` changes at will. `requests` has eight stacks of authentication before
each resolver, optional or not, two with the tenant layer first, and two with a
public subdomain layer below a JWT one. `schema_sessions` cuts identifiers at two
bytes, with names of zero to three bytes, two of which are the same once cut, and the
pattern `a{id}`, under which two tenants of one name get names of two bytes.
`tenant_pages` has words of four values, so that sums go round, and three ids and
three instants, so that two tenants that match and one that is created in between
can have creation times of their own; three buckets give every order of three tenants, and
one tenant may go in one walk (`Removals`; that any number hide no more than they are is
proved). Symmetry is used in `concurrent` and
`tenant_pages`, which check no liveness.

**Deadlock** is checked in every run: a call may always be started.

**Fairness.** `SchemaSession` and `TenantPages` state no liveness and assume none.
Elsewhere the only assumption is weak fairness of `Continue` for each task:
an executor polls a task that is ready, and stores, providers and provisioners
answer or fail; in `TenantAccess`, of `Continue` of the manager for each caller and of
the middleware for each request, as in the parts. Nothing obliges a caller to start a
call (`Invoke`), and no call is obliged to be cut short, nor the cache to be scanned at any given moment. The
outcome of a provider call is not constrained: it may fail each time.
`EveryCallEnds` rests besides on tokio's documented first-come first-served queue,
which is part of the model. `ProvisioningEnds` and `RollbackFreesSlug` are
checked with `CallsAbort = FALSE`, because a create that is cut short does leave
its record behind (hazard at `management.rs:598`).

## 4. What is proved

TLAPS checks these for every value of the constants that satisfies the named
assumptions: any number of callers, ids, slugs, databases, any bytes and lengths.

*TenantManager, calls overlapping at will* (`Invariance`). The properties are
not inductive on their own, because a stale record is written back over the
store. `IndInv` strengthens them to what callers hold:

* `TypeOK`; ids in the store have been issued (`DOMAIN store \subseteq issued`);
* `CallShape`: a call that waits to write holds a record of the status it is
  about to write, with an issued id;
* `RecordCoherent` and `LimitsMatchPlan` for the store, and `CallsFit`, which says
  the same of every record that a call holds: a stale record is an old record,
  not an incoherent one;
* `DrawnIsFresh`: an id that a create has drawn and not yet inserted is held by
  no other call and is not in the store, so inserting it never brings a deleted
  tenant back.

From it follow `TypeCorrect`, `RecordsCoherent`, `LimitsCorrect` and
`IdentityTheorem` (an action property), and with the lemma `PlanLadder` (a plan at
least as large allows at least as much, metric by metric) `UpgradeTheorem`.

`SlugRaceTheorem` adds a count, for any finite number of callers
(`CallersAssumption`): a step of any call leaves a slug no more taken than it was
(stored or about to be), claims it when nobody has stored it, or turns one claim into
one record (`RaceStep`). The lemmas of `FiniteSetTheorems` do the rest.

*TenantManager, one call at a time* (under `Serial`, interruptions included).
`SerialInv` adds `SlugUnique`, `NoOrphanResources`, and for the call in progress
`InProgress(c)`: what it holds is what the store has, and how far the provisioner
has come. From it follow `SerialSlugs`, `SerialResources`, and
`SerialImplementsLifecycle`: each step maps to a step of `TenantLifecycle` or to
none. `Serial` (at most one caller) is what a lock around the manager would
give; without it these three are false (section 5).

`FreshInv` says of every point of a call how the record it holds comes from the stored
one (`Derived`); so a write changes no field but the call's own (`SerialWrites`).
`KeptInv` says what the provisioner keeps at every point (`ResourcesHeld`);
`SerialKept` follows for calls that are not cut short, as a create that is leaves a
tenant Provisioning for good.

Each finding of section 5 has its other half proved: `SerialSlugs`, `SerialTermination`
(nothing revives a terminated tenant) and `SerialDeprovisions` hold when calls do not
overlap, `SerialActivation` when besides none is cut short. So overlap, or for the last
one a call cut short, is all that the findings come from.

*Middleware* (`TenantMiddlewareProofs`): `BoundTheorem` and `ForbiddenTheorem`, for any
stack of layers, any number of requests and any store. The invariant adds to the two
properties what is true of a request at any layer, not only in the handler: a bound
context names a tenant among the principal's, and so does every tenant that a layer
with a membership has resolved. `HandlerTheorem` is for stacks with a tenant layer in
them (`Guarded`). Its invariant, `Passage`, says that a request that looks up its tenant
has no context and no internal header, and that behind the last tenant layer it has
what that layer was configured to make (`Settled`), which authentication leaves alone.
`MiddlewareTypeTheorem` is proved of one request at a time (`RequestType`): requests share
only the tenants, and a step changes one of them or the tenants.

*Manager and middleware* (`TenantAccessProofs`): `AccessImplementsMiddleware`, each
step of the manager being a step or a stutter of `Administer`; and `AdmissionTheorem`, for any
number of overlapping calls and requests. It rests on `RecordCoherent`: what the
resolver finds active cannot be suspended or terminated, as no stale record that is
written back is incoherent. Since the refinement holds, what is proved of the middleware
over any store is had for managed tenants by citing its invariants:
`ManagedBoundTheorem` and `ManagedHandlerTheorem`, for which the proofs of the middleware
are instantiated (`Http`).
The assumptions they make of the constants are those of `AccessAssumption`.
`ManagedLifecycleTheorem` goes the other way: requests change nothing of the manager.

*TenantDatabaseManager*: `OneConnection` and `InvalidationTheorem`, for any number
of tasks. The invariant is `Typed` and `Exclusive` (a task that waits for the
provider holds the lock) besides the two properties. It does not use the order
of the queue, so it holds for any order in which the lock is granted.
`SomebodyMovesTheorem` does: its invariant, `Turns`, says that the lock is with the task
at the provider, and that the queue has each task that waits in it once and no other,
so that whoever is first exists, and is granted the lock or waits for one that has it.
The lemmas on `Append`, `Tail` and `RemoveAt` of a queue without repetitions also
carry `DatabaseTypeTheorem`.

*Cache*: `PrefixTells` (the prefix of one tenant begins no key of another) and
`KeyTells` (equal keys have equal tenant and key), for ids and keys of any bytes,
from `DecimalAssumption`: where the first colon comes tells the length, and the
length where the id ends. From these `Isolation`, `ClearIsComplete` and
`ClearIsolation`. `CacheTypeTheorem` adds `Tidy`: entries are of some tenant, and a task
without a call keeps no list. `CachesArePrivate` is the refinement: a step changes the
entry of one key, a key is that of one tenant and one built key (`KeyIsOne`), so what
every other tenant gets stays (`OthersSeeNothing`, `OneChanges`). That a built key is a
string (`BuildType`) is proved, by `ConcatParts`.

*Schemas*: `TypeTheorem`, `QueriesTheorem` and `SchemaStaysTheorem`. The invariant is the two
properties with the types, which hold that a connection is lent to one call and that
a call is for a tenant with a schema. The lemma `NameIsKept` is the reason: a name
that `with_schema` accepts is no longer than what the server keeps. It needs only
that the limit of the code is the length at which the server cuts.
`TenantsApartTheorem` rests on `NamesApart`, which is about the two replacements in
`schema_name` and `database_name`: with a pattern whose every `{` begins an `{id}`, and
ids without `{`, two names differ if the ids do. Nothing is left for the second replacement
(`NamePlaceStarts`); and of two equal names made piece by piece, where no piece of the one is longer than the same piece of the other, the
pieces are equal (`ReplaceTellsApart`). `SchemaNameOnly`, the slip, leaves out the id.

*Listing*: `PagesExact`, from `WrapsBack`: a sum that goes round comes back when the
offset is subtracted, for words of any width. `PagesAreComplete` and
`PagesHideNoMoreThanGo` rest on the places of tenants in a listing: `Before` is a total
order, so places are the numbers from 1 on and no two tenants share one
(`PlaceIsInjective`, `NewestFirstIsSorted`), and a page shows those at its places
(`PageShows`). The invariant adds `OnTheWay`: `Hidden`, the tenants that are due, not
seen, and stand where pages have been listed already, are no more than have gone;
a tenant that comes makes nobody's place smaller (`ComingHidesNone`), one that goes
makes places smaller by one (`GoingHidesOne`), and a page takes none in
(`WalkAfterPage`). As long as nothing came or went, what was seen is exactly what
stands before the offset: an update that moves keys changes no place if `created_at` tells
the tenants apart (`OrderWithoutTies`). `PagesTypeTheorem` has that an offset never goes round, for a
store holds fewer tenants than a word has values (`IdsAssumption`).

*Sequences*: the lemmas of `SequenceLemmas` say what a sequence put together from
others is made of. They are shown without induction theorems: were there a number at
which the claim fails there would be a least (`LeastNatural`, from the well-foundedness of
the subsets of a finite set), so what holds of 1, and of the next with each, holds of all
(`CountingUp`, for a set in place of a predicate).

TLC evaluates every assumption on the constants in the runs; `DecimalAssumption`
for the lengths 0 to 30.

Each invariant and each action property of a passing run is the statement of one of
these theorems, under the assumptions that its run makes (`Serial`, no interruptions).
Only model-checked is liveness, which is out of the prover's reach:
`RollbackFreesSlug`, `ProvisioningEnds`, `TerminationDrains`, `EveryCallEnds`, `ClearEnds`,
`RevocationSettles`. So are the counterexamples of section 5.

## 5. Where code and documentation disagree

* `slug_race`: two creates that overlap both find the slug free and both insert,
  since `store.create` checks the id only. `management.rs:231` promises a "Unique
  slug/identifier". `SlugRaceBounded` says how far it goes.
* `stale_termination`: create writes Active (`:606`) with the record it built before it
  awaited the provisioner, whatever is stored by then. A terminate that runs between the
  provisioning and that write takes the resources down and marks the tenant Terminated
  (`:756` "Mark as terminated", `:61` "Tenant has been terminated"); then it is Active
  again, with nothing running. This is TLC's shortest behaviour. In longer ones the last
  write of activate, suspend or update does the same with the record that it read before.
  A tenant revived that way between delete's check (`:772`) and its removal is deleted alive.
* `orphaned`: terminate accepts a tenant whose create still waits for the provisioner.
  It deprovisions, create provisions and writes Active, terminate writes Terminated:
  the resources run on, terminate refuses the tenant from now on, and delete forgets
  it. `:417` "Deprovision resources when tenant is terminated". The property asks only
  about tenants that no call is working on any more.
* `unprovisioned`: no overlap needed. A create or terminate is cut short, and
  activate, which refuses Terminated only, makes Active a tenant for which nothing
  is provisioned. `:707` "Activate a suspended tenant", `:55` "Tenant is active
  and operational".

`CacheKeyBuilder` does not escape colons: `["a:b"]` and `["a", "b"]` build the same
key within a tenant. No text of the crate promises otherwise, and `ReadsOwn` says no
more than that.

## 6. Not modelled

* Timestamps of records, the wording of errors and reasons, `custom` limits and usage,
  `auto_create`, `default_schema` and `max_connections` of the configurations: nothing
  in the crate decides by them.
* The substring test of a search; a search is a match or not.
* JSON forms of cache entries, `get_tenant_name`, `lib.rs`: they convert, pass a call
  on, or re-export.
* `is_operational` and `can_accept_requests`, which nothing in the crate calls; so no
  property says that a tenant in operation admits nobody once it is Terminating.
* What a provisioner leaves behind when it errs half way. The rollback of create
  (`management.rs:608-616`) deletes the record and does not deprovision, so what was set up
  is then nobody's; the trait `TenantProvisioner` does not say who must take it down.
* Letters of two cases in names of schemas, for a provider that does not quote them.
* Providers, stores of the application, the pool and the authentication are external;
  they are modelled as far as the code uses them.

The note of each component in `PROJECT.json` says what is left out of it.

## 7. Plan

Written: `TenantLifecycle`, `TenantLimits` and `TenantManager` (the core),
`TenantDatabaseManager`, `CacheKey` and `TenantCache`, `TenantMiddleware`,
`TenantAccess`, which composes the manager and the middleware, `TenantNames` and
`SchemaSession`, `TenantPages`, each with its proofs.

Every safety property of the runs is proved. Of the liveness properties, what can be
proved is the safety they rest on: `SomebodyMoves` for `EveryCallEnds` is. What is left:

1. for `ClearEnds`, that a list of a clear only gets shorter and its keys stay its own;
2. for `ProvisioningEnds` and `TerminationDrains`, that from each point of a call or of a
   request some step is enabled, and that each leads nearer to its end (the guards
   stated as such, since `ENABLED` is out of the prover's reach).
