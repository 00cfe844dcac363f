--------------------------- MODULE TenantManager ---------------------------
(***************************************************************************)
(* The life cycle of managed tenants: TenantManager (src/management.rs)    *)
(* over a ManagedTenantStore and a TenantProvisioner.                      *)
(*                                                                         *)
(* Every method of the manager is asynchronous and takes &self, so several *)
(* calls are in progress at once.  A call is cut at its awaits: one action *)
(* stands for the code from one await to the next, with the store access   *)
(* or provisioner call it ends in.  A store access is atomic (the in-      *)
(* memory store holds its lock for the whole of it); what a call keeps in  *)
(* its local variable `managed` between two awaits is call[c].tenant.      *)
(*                                                                         *)
(* Abstracted: timestamps, which no decision of the manager reads, and the *)
(* wording of reasons and errors.                                          *)
(***************************************************************************)
EXTENDS TenantLimits, FiniteSets

CONSTANTS
    Callers,          \* tasks that call the manager
    Ids,              \* BOUND: the uuids that may ever be drawn
    Slugs,            \* slugs that requests ask for
    Plans,            \* the TenantPlan values requests ask for
    CustomLimits,     \* negotiated limits a request may carry
    Usages,           \* usage reports
    Texts,            \* display names, domains, owners, values of metadata
    Keys,             \* keys of metadata
    CreateRequests,   \* requests to create, see CreateTenantRequest
    UpdateRequests,   \* requests to update, see UpdateTenantRequest
    ProvisionerFails, \* whether the provisioner may return an error
    CallsAbort        \* whether a call may end early (see Abort)

Option(S) == S \cup {None}

Metadata == UNION {[keys -> Texts] : keys \in SUBSET Keys}

\* What `new` and the with_ builders make.
CreateTenantRequest ==
    [slug : Slugs, display_name : Option(Texts), domain : Option(Texts), plan : Plans,
     owner_id : Option(Texts), metadata : Metadata, custom_limits : Option(CustomLimits)]

\* An absent field is left as it is; the domain may also be set to none.
UpdateTenantRequest ==
    [display_name : Option(Texts), domain : Option([to : Option(Texts)]),
     plan : Option(Plans), metadata : Option(Metadata), limits : Option(CustomLimits)]

AllLimits == {for_plan(p) : p \in Plans} \cup CustomLimits

TenantStatus ==
    {"Provisioning", "Active", "Suspended", "Terminating", "Terminated"}

ManagedTenant ==
    [slug : Slugs, display_name : Option(Texts), domain : Option(Texts),
     metadata : Metadata, owner_id : Option(Texts), active : BOOLEAN,
     status : TenantStatus, plan : Plans, limits : AllLimits, usage : Usages,
     suspension_reason : BOOLEAN]

\* Points at which a call waits.  A write point is followed by the final
\* store.update(&managed) of the method that reached it.
WritePoints == {"create.write", "update.write", "suspend.write",
                "activate.write", "terminate.write"}

Points == {"idle", "create.insert", "create.provision", "create.rollback",
           "suspend.provisioner", "activate.provisioner", "terminate.mark",
           "terminate.deprovision", "delete.remove"} \cup WritePoints

ASSUME CallersAssumption == IsFiniteSet(Callers)
ASSUME PlansAssumption == Plans \subseteq AllPlans
ASSUME UsagesAssumption == DefaultUsage \in Usages /\ Usages \subseteq TenantUsage
ASSUME LimitsAssumption == CustomLimits \subseteq TenantLimits
ASSUME RequestsAssumption == /\ CreateRequests \subseteq CreateTenantRequest
                             /\ UpdateRequests \subseteq UpdateTenantRequest
ASSUME FlagsAssumption == ProvisionerFails \in BOOLEAN /\ CallsAbort \in BOOLEAN
ASSUME NoneAssumption == /\ None \notin Ids
                         /\ None \notin ManagedTenant
                         /\ None \notin Slugs
                         /\ None \notin Plans
                         /\ None \notin CustomLimits
                         /\ None \notin Texts
                         /\ None \notin Nat

VARIABLES
    store,      \* the HashMap of the store: id -> ManagedTenant
    issued,     \* ids drawn so far; a uuid is never drawn twice
    resources,  \* what the provisioner keeps for each id
    call        \* the call each caller has in progress

vars == <<store, issued, resources, call>>

Idle == [at |-> "idle", id |-> None, tenant |-> None]

Init ==
    /\ store = <<>>
    /\ issued = {}
    /\ resources = [id \in Ids |-> "none"]
    /\ call = [c \in Callers |-> Idle]

-----------------------------------------------------------------------------
(* The store: every method is one atomic access.                           *)

\* store.create / store.update: HashMap::insert of a whole record.
Put(id, tenant) ==
    store' = [i \in DOMAIN store \cup {id} |-> IF i = id THEN tenant ELSE store[i]]

\* store.delete: HashMap::remove, which is Ok for an absent id too.
Remove(id) == store' = [i \in DOMAIN store \ {id} |-> store[i]]

\* Slip: an upsert.
UpdateStoredUpserts(id, tenant) == Put(id, tenant)

\* store.update fails with NotFound, and inserts nothing, for an absent id.
UpdateStored(id, tenant) ==
    IF id \in DOMAIN store THEN Put(id, tenant) ELSE UNCHANGED store

\* Slip: only tenants in operation hold a slug.
SlugTakenIfActive(slug) ==
    \E id \in DOMAIN store : store[id].slug = slug /\ store[id].status = "Active"

\* get_by_slug finds a record of any status.
SlugTaken(slug) == \E id \in DOMAIN store : store[id].slug = slug

(* The local state of a call.                                              *)

Await(c, at, id, tenant) ==
    call' = [call EXCEPT ![c] = [at |-> at, id |-> id, tenant |-> tenant]]

Return(c) == call' = [call EXCEPT ![c] = Idle]

(* The external provisioner.  A call of it that fails has had no effect;   *)
(* suspending and resuming what is not there is the default no-op.         *)

Provisioned(id) == resources' = [resources EXCEPT ![id] = "running"]
Deprovisioned(id) == resources' = [resources EXCEPT ![id] = "none"]
ResourcesSuspended(id) ==
    resources' = [resources EXCEPT ![id] = IF @ = "running" THEN "suspended" ELSE @]
ResourcesResumed(id) ==
    resources' = [resources EXCEPT ![id] = IF @ = "suspended" THEN "running" ELSE @]

-----------------------------------------------------------------------------
(* create                                                                  *)

WithLimits(tenant, limits) ==
    IF limits = None THEN tenant ELSE [tenant EXCEPT !.limits = limits]

\* Tenant::new with its builders, and ManagedTenant::from_tenant.
FromTenant(req) ==
    [slug |-> req.slug, display_name |-> req.display_name, domain |-> req.domain,
     metadata |-> req.metadata, owner_id |-> req.owner_id, active |-> TRUE,
     status |-> "Provisioning", plan |-> req.plan, limits |-> for_plan(req.plan),
     usage |-> DefaultUsage, suspension_reason |-> FALSE]

NewTenant(req) == WithLimits(FromTenant(req), req.custom_limits)

\* Slip: Tenant::new takes two Strings, and gets them in the wrong order.
CreateCheckSwapped(c, req) ==
    /\ call[c].at = "idle"
    /\ ~SlugTaken(req.slug)
    /\ \E id \in Ids \ issued :
         /\ issued' = issued \cup {id}
         /\ Await(c, "create.insert", req.slug, [NewTenant(req) EXCEPT !.slug = id])
    /\ UNCHANGED <<store, resources>>

\* The slug is looked up; if it is free an id is drawn and the record built.
CreateCheck(c, req) ==
    /\ call[c].at = "idle"
    /\ ~SlugTaken(req.slug)
    /\ \E id \in Ids \ issued :
         /\ issued' = issued \cup {id}
         /\ Await(c, "create.insert", id, NewTenant(req))
    /\ UNCHANGED <<store, resources>>

\* store.create rejects an id that is present, and looks at nothing else.
CreateInsert(c) ==
    /\ call[c].at = "create.insert"
    /\ IF call[c].id \in DOMAIN store
         THEN Return(c) /\ UNCHANGED store
         ELSE /\ Put(call[c].id, call[c].tenant)
              /\ Await(c, "create.provision", call[c].id, call[c].tenant)
    /\ UNCHANGED <<issued, resources>>

\* Slip: the status is not updated.
CreateProvisionKeepsStatus(c) ==
    /\ call[c].at = "create.provision"
    /\ Provisioned(call[c].id)
    /\ Await(c, "create.write", call[c].id, call[c].tenant)
    /\ UNCHANGED <<store, issued>>

CreateProvision(c) ==
    /\ call[c].at = "create.provision"
    /\ Provisioned(call[c].id)
    /\ Await(c, "create.write", call[c].id, [call[c].tenant EXCEPT !.status = "Active"])
    /\ UNCHANGED <<store, issued>>

CreateProvisionFails(c) ==
    /\ ProvisionerFails
    /\ call[c].at = "create.provision"
    /\ Await(c, "create.rollback", call[c].id, call[c].tenant)
    /\ UNCHANGED <<store, issued, resources>>

\* Slip: a Terminated tombstone stays where the record was.
CreateRollbackTombstone(c) ==
    /\ call[c].at = "create.rollback"
    /\ UpdateStored(call[c].id, [call[c].tenant EXCEPT !.status = "Terminated"])
    /\ Return(c)
    /\ UNCHANGED <<issued, resources>>

\* The record is deleted, whatever it has become in the meantime.
CreateRollback(c) ==
    /\ call[c].at = "create.rollback"
    /\ Remove(call[c].id)
    /\ Return(c)
    /\ UNCHANGED <<issued, resources>>

-----------------------------------------------------------------------------
(* update, update_usage, check_limits                                      *)

\* Slip: the limits of the old plan stay.
UpdatedLimitsKept(tenant, req) == IF req.limits = None THEN tenant.limits ELSE req.limits

\* A plan without limits resets the limits to the plan's own.
UpdatedLimits(tenant, req) ==
    IF req.limits # None THEN req.limits
    ELSE IF req.plan # None THEN for_plan(req.plan) ELSE tenant.limits

\* Slip: the request's map takes the place of the tenant's.
ExtendReplaces(map, other) == other

\* HashMap::extend: the other map wins.
Extend(map, other) ==
    [k \in DOMAIN map \cup DOMAIN other |->
        IF k \in DOMAIN other THEN other[k] ELSE map[k]]

ApplyUpdate(tenant, req) ==
    [tenant EXCEPT
       !.display_name = IF req.display_name = None THEN @ ELSE req.display_name,
       !.domain = IF req.domain = None THEN @ ELSE req.domain.to,
       !.plan = IF req.plan = None THEN @ ELSE req.plan,
       !.metadata = IF req.metadata = None THEN @ ELSE Extend(@, req.metadata),
       !.limits = UpdatedLimits(tenant, req)]

UpdateGet(c, id, req) ==
    /\ call[c].at = "idle"
    /\ id \in DOMAIN store
    /\ Await(c, "update.write", id, ApplyUpdate(store[id], req))
    /\ UNCHANGED <<store, issued, resources>>

\* The one modification the store makes itself, in place.
UpdateUsage(c, id, usage) ==
    /\ call[c].at = "idle"
    /\ id \in DOMAIN store
    /\ Put(id, [store[id] EXCEPT !.usage = usage])
    /\ UNCHANGED <<issued, resources, call>>

\* What a tenant is told it exceeds.
get_violations(tenant) == exceeds_limits(tenant.usage, tenant.limits)

-----------------------------------------------------------------------------
(* suspend, activate                                                       *)

\* Slip: the status is not looked at.
GetAnyStatus(c, id, at) ==
    /\ call[c].at = "idle"
    /\ id \in DOMAIN store
    /\ Await(c, at, id, store[id])
    /\ UNCHANGED <<store, issued, resources>>

\* The record a lifecycle call reads, and the status it refuses.
GetUnlessTerminated(c, id, at) ==
    /\ call[c].at = "idle"
    /\ id \in DOMAIN store
    /\ store[id].status # "Terminated"
    /\ Await(c, at, id, store[id])
    /\ UNCHANGED <<store, issued, resources>>

SuspendGet(c, id) == GetUnlessTerminated(c, id, "suspend.provisioner")

ActivateGet(c, id) == GetUnlessTerminated(c, id, "activate.provisioner")

AsSuspended(tenant) ==
    [tenant EXCEPT !.status = "Suspended", !.suspension_reason = TRUE, !.active = FALSE]

\* Slip: the reason stays.
AsActiveWithReason(tenant) == [tenant EXCEPT !.status = "Active", !.active = TRUE]

AsActive(tenant) ==
    [tenant EXCEPT !.status = "Active", !.suspension_reason = FALSE, !.active = TRUE]

SuspendResources(c) ==
    /\ call[c].at = "suspend.provisioner"
    /\ ResourcesSuspended(call[c].id)
    /\ Await(c, "suspend.write", call[c].id, AsSuspended(call[c].tenant))
    /\ UNCHANGED <<store, issued>>

ActivateResources(c) ==
    /\ call[c].at = "activate.provisioner"
    /\ ResourcesResumed(call[c].id)
    /\ Await(c, "activate.write", call[c].id, AsActive(call[c].tenant))
    /\ UNCHANGED <<store, issued>>

-----------------------------------------------------------------------------
(* terminate, delete                                                       *)

\* Only the status changes: the record stays active and keeps its reason.
AsTerminating(tenant) == [tenant EXCEPT !.status = "Terminating"]

\* Slip: the tenant is not made inactive.
AsTerminatedActive(tenant) ==
    [tenant EXCEPT !.status = "Terminated", !.suspension_reason = TRUE]

AsTerminated(tenant) ==
    [tenant EXCEPT !.status = "Terminated", !.suspension_reason = TRUE, !.active = FALSE]

TerminateGet(c, id) ==
    /\ call[c].at = "idle"
    /\ id \in DOMAIN store
    /\ store[id].status # "Terminated"
    /\ Await(c, "terminate.mark", id, AsTerminating(store[id]))
    /\ UNCHANGED <<store, issued, resources>>

TerminateMark(c) ==
    /\ call[c].at = "terminate.mark"
    /\ UpdateStored(call[c].id, call[c].tenant)
    /\ IF call[c].id \in DOMAIN store
         THEN Await(c, "terminate.deprovision", call[c].id, call[c].tenant)
         ELSE Return(c)
    /\ UNCHANGED <<issued, resources>>

TerminateDeprovision(c) ==
    /\ call[c].at = "terminate.deprovision"
    /\ Deprovisioned(call[c].id)
    /\ Await(c, "terminate.write", call[c].id, AsTerminated(call[c].tenant))
    /\ UNCHANGED <<store, issued>>

\* Slip: the error of suspend or resume is only logged.
ProvisionerErrorIgnored(c) ==
    /\ ProvisionerFails
    /\ \/ call[c].at = "suspend.provisioner"
          /\ Await(c, "suspend.write", call[c].id, AsSuspended(call[c].tenant))
       \/ call[c].at = "activate.provisioner"
          /\ Await(c, "activate.write", call[c].id, AsActive(call[c].tenant))
       \/ call[c].at = "terminate.deprovision" /\ Return(c)
    /\ UNCHANGED <<store, issued, resources>>

\* The `?` after provisioner.suspend, resume and deprovision.
ProvisionerError(c) ==
    /\ ProvisionerFails
    /\ call[c].at \in {"suspend.provisioner", "activate.provisioner",
                       "terminate.deprovision"}
    /\ Return(c)
    /\ UNCHANGED <<store, issued, resources>>

\* The final store.update of create, update, suspend, activate, terminate:
\* the whole local record replaces whatever is stored under its id.
Write(c) ==
    /\ call[c].at \in WritePoints
    /\ UpdateStored(call[c].id, call[c].tenant)
    /\ Return(c)
    /\ UNCHANGED <<issued, resources>>

\* Slip: a tenant on its way out may be deleted too.
DeleteGetTerminating(c, id) ==
    /\ call[c].at = "idle"
    /\ id \in DOMAIN store
    /\ store[id].status \in {"Terminating", "Terminated"}
    /\ Await(c, "delete.remove", id, None)
    /\ UNCHANGED <<store, issued, resources>>

DeleteGet(c, id) ==
    /\ call[c].at = "idle"
    /\ id \in DOMAIN store
    /\ store[id].status = "Terminated"
    /\ Await(c, "delete.remove", id, None)
    /\ UNCHANGED <<store, issued, resources>>

DeleteRemove(c) ==
    /\ call[c].at = "delete.remove"
    /\ Remove(call[c].id)
    /\ Return(c)
    /\ UNCHANGED <<issued, resources>>

-----------------------------------------------------------------------------
\* get, get_by_slug, list, count, get_usage and check_limits, and every call
\* that its first read rejects, change nothing.
ReadOnly(c) == call[c].at = "idle" /\ UNCHANGED vars

\* A call ends between two awaits: its future is dropped (the task that runs
\* it is cancelled or crashes), or a store access fails with `?`.
Abort(c) ==
    /\ CallsAbort
    /\ call[c].at # "idle"
    /\ Return(c)
    /\ UNCHANGED <<store, issued, resources>>

\* Callers start calls as they please.
Invoke(c) ==
    \/ \E req \in CreateRequests : CreateCheck(c, req)
    \/ \E id \in Ids, req \in UpdateRequests : UpdateGet(c, id, req)
    \/ \E id \in Ids, usage \in Usages : UpdateUsage(c, id, usage)
    \/ \E id \in Ids : SuspendGet(c, id)
    \/ \E id \in Ids : ActivateGet(c, id)
    \/ \E id \in Ids : TerminateGet(c, id)
    \/ \E id \in Ids : DeleteGet(c, id)
    \/ ReadOnly(c)

\* A call that has been started goes on to its next await.
Continue(c) ==
    \/ CreateInsert(c)
    \/ CreateProvision(c)
    \/ CreateProvisionFails(c)
    \/ CreateRollback(c)
    \/ SuspendResources(c)
    \/ ActivateResources(c)
    \/ TerminateMark(c)
    \/ TerminateDeprovision(c)
    \/ ProvisionerError(c)
    \/ Write(c)
    \/ DeleteRemove(c)

Next == \E c \in Callers : Invoke(c) \/ Continue(c) \/ Abort(c)

\* The executor polls a task that is ready, and stores and provisioners answer.
Fairness == \A c \in Callers : WF_vars(Continue(c))

Spec == Init /\ [][Next]_vars /\ Fairness

\* One call at a time: what &mut self or a lock around the manager would give.
Serial == \A c, d \in Callers : c = d

-----------------------------------------------------------------------------
(* Properties.                                                             *)

CallType ==
    [at : Points, id : Ids \cup {None}, tenant : ManagedTenant \cup {None}]

\* Every variable stays within its type.
TypeOK ==
    /\ DOMAIN store \subseteq Ids
    /\ store \in [DOMAIN store -> ManagedTenant]
    /\ issued \subseteq Ids
    /\ resources \in [Ids -> {"none", "running", "suspended"}]
    /\ call \in [Callers -> CallType]

Coherent(t) ==
    /\ t.active <=> ~t.suspension_reason
    /\ t.status \in {"Provisioning", "Active"} => t.active
    /\ t.status \in {"Suspended", "Terminated"} => ~t.active

\* What the resolvers read (tenant.active) and what operators read (status,
\* reason) agree: a suspended or terminated tenant is inactive, a new or an
\* active one is not, and a reason is kept exactly while it is inactive.  Three
\* methods assign the three fields; Terminating keeps what it finds.
RecordCoherent == \A id \in DOMAIN store : Coherent(store[id])

LimitsFit(t) == t.limits \in CustomLimits \cup {for_plan(t.plan)}

\* The limits enforced for a tenant are negotiated ones or those of the plan it
\* is on now, never those of a plan it has left, however calls interleave.
LimitsMatchPlan == \A id \in DOMAIN store : LimitsFit(store[id])

IdentityStep ==
    /\ \A id \in DOMAIN store \cap DOMAIN store' : store'[id].slug = store[id].slug
    /\ \A id \in DOMAIN store' \ DOMAIN store :
         \E c \in Callers : call[c].at = "create.insert" /\ call[c].id = id

\* A tenant keeps its slug, and once deleted it stays deleted: a call that still
\* holds its record cannot bring it back, for only a create adds a record.
IdentityIsForLife == [][IdentityStep]_vars

InUse(slug) == {id \in DOMAIN store : store[id].slug = slug}

Claims(slug) ==
    {c \in Callers : call[c].at = "create.insert" /\ call[c].tenant.slug = slug}

\* The look-up of a slug and the insertion are two accesses, so calls of create
\* that overlap may store one slug twice: but only as often as there are callers.
SlugRaceBounded ==
    \A slug \in Slugs :
        Cardinality(InUse(slug)) + Cardinality(Claims(slug)) <= Cardinality(Callers)

\* No two tenants have the same slug.
SlugUnique ==
    \A i, j \in DOMAIN store : store[i].slug = store[j].slug => i = j

\* When provisioning fails the record goes, for good: no tombstone keeps the slug.
RollbackFreesSlug ==
    \A id \in Ids :
        (\E c \in Callers : call[c].at = "create.rollback" /\ call[c].id = id)
            ~> [](id \notin DOMAIN store)

\* A terminated tenant is never made anything else again.
TerminatedIsFinal ==
    [][ \A id \in DOMAIN store \cap DOMAIN store' :
          store[id].status = "Terminated" => store'[id].status = "Terminated" ]_vars

AtRest(id) == \A c \in Callers : call[c].id # id

\* Whatever failed or was cut short, nothing is kept running for a tenant that
\* is terminated, was deleted, or was never registered.
NoOrphanResources ==
    \A id \in Ids :
        id \notin DOMAIN store \/ store[id].status = "Terminated"
            => resources[id] = "none"

\* "Deprovision resources when tenant is terminated": once no call is in progress
\* on a tenant that has been terminated or deleted, nothing runs for it.
TerminationDeprovisions ==
    \A id \in Ids :
        /\ AtRest(id)
        /\ id \notin DOMAIN store \/ store[id].status = "Terminated"
        => resources[id] = "none"

\* What the provisioner should keep for a tenant of each status.
Kept == [Provisioning |-> {}, Active |-> {"running"}, Suspended |-> {"suspended"},
         Terminating |-> {"running", "suspended"}, Terminated |-> {"none"}]

\* With no call in progress on a tenant, its status tells what the provisioner
\* keeps for it; in particular it has not been left Provisioning.
ResourcesFollowStatus ==
    \A id \in DOMAIN store :
        AtRest(id) => resources[id] \in Kept[store[id].status]

UpdatesProfile(old, new) ==
    /\ new = [old EXCEPT !.display_name = new.display_name, !.domain = new.domain,
                         !.metadata = new.metadata,
                         !.plan = new.plan, !.limits = new.limits]
    /\ DOMAIN old.metadata \subseteq DOMAIN new.metadata
    /\ old.display_name # None => new.display_name # None

UpdatesStatus(old, new) ==
    new = [old EXCEPT !.status = new.status, !.active = new.active,
                      !.suspension_reason = new.suspension_reason]

ReportsUsage(old, new) == new = [old EXCEPT !.usage = new.usage]

WritesStep ==
    \A id \in DOMAIN store \cap DOMAIN store' :
        \/ ReportsUsage(store[id], store'[id]) /\ UNCHANGED call
        \/ \E c \in Callers : call[c].id = id /\
             IF call[c].at = "update.write"
               THEN UpdatesProfile(store[id], store'[id])
               ELSE UpdatesStatus(store[id], store'[id])
        \/ store'[id] = store[id]

\* A call writes the fields it is about: update leaves life cycle, usage, slug and
\* owner alone, and loses no metadata and no display name; the life-cycle methods
\* leave profile, plan, limits and usage alone.
WritesTouchOwnFields == [][WritesStep]_vars

\* The plans offered from this one up.
NoSmaller(plan) ==
    CASE plan = "Free" -> AllPlans
      [] plan = "Starter" -> AllPlans \ {"Free"}
      [] plan = "Professional" -> AllPlans \ {"Free", "Starter"}
      [] OTHER -> {"Enterprise", "Custom"}

\* A tenant that moves up to a plan at least as large is told of no metric that it
\* did not exceed before, unless limits were negotiated.
UpgradeRelieves ==
    [][ \A id \in DOMAIN store \cap DOMAIN store' :
          LET old == store[id]
              new == store'[id] IN
          /\ new.usage = old.usage
          /\ new.plan \in NoSmaller(old.plan)
          /\ {old.limits, new.limits} \cap CustomLimits = {}
          => get_violations(new) \subseteq get_violations(old) ]_vars

\* A tenant that create has stored does not stay Provisioning.
ProvisioningEnds ==
    \A id \in Ids :
        (id \in DOMAIN store /\ store[id].status = "Provisioning")
            ~> ~(id \in DOMAIN store /\ store[id].status = "Provisioning")

\* A tenant that activate has just made Active has its resources running.
ActivatedIsOperational ==
    [][ \A c \in Callers :
          call[c].at = "activate.write" /\ call'[c].at = "idle" /\ store' # store
          => resources[call[c].id] = "running" ]_vars

-----------------------------------------------------------------------------
(* The abstract life cycle, seen through the store.  An id that a create   *)
(* has drawn and not yet stored counts as unborn; one that was drawn and   *)
(* is not there any more is gone.                                          *)

Unborn(id) ==
    \/ id \notin issued
    \/ \E c \in Callers : call[c].at = "create.insert" /\ call[c].id = id

PhaseOf ==
    [id \in Ids |-> IF id \in DOMAIN store THEN store[id].status
                    ELSE IF Unborn(id) THEN "Unborn" ELSE "Gone"]

SlugOf == [id \in Ids |-> IF id \in DOMAIN store THEN store[id].slug ELSE None]

Lifecycle == INSTANCE TenantLifecycle WITH phase <- PhaseOf, slug <- SlugOf

\* As long as calls do not overlap, the store goes through the life cycle step
\* by step, whichever calls fail and wherever they are cut short.
ImplementsLifecycle == Lifecycle!Spec

=============================================================================
