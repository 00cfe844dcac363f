------------------------ MODULE TenantManagerProofs ------------------------
(***************************************************************************)
(* Proofs about TenantManager, for all constants that satisfy its          *)
(* assumptions: any number of callers, ids, slugs and plans, a provisioner *)
(* that fails or not, calls that are cut short or not.                     *)
(*                                                                         *)
(* IndInv holds whether or not calls overlap.  SerialInv, which adds what  *)
(* is known while a call is in progress, and FreshInv, where the record it *)
(* holds comes from, need that they do not; KeptInv, what the provisioner  *)
(* keeps meanwhile, needs besides that none is cut short.                  *)
(***************************************************************************)
EXTENDS TenantManager, FiniteSetTheorems, TLAPS

\* Points at which a call holds a record.
Holding == Points \ {"idle", "delete.remove"}

\* Points at which the tenant is not provisioned yet.
Creating == {"create.insert", "create.provision", "create.rollback"}

-----------------------------------------------------------------------------
(* The records a call builds.                                              *)

\* Extending a map of metadata by another gives one.
LEMMA ExtendType ==
    ASSUME NEW m \in Metadata, NEW o \in Metadata
    PROVE  Extend(m, o) \in Metadata
<1>1. PICK D \in SUBSET Keys : m \in [D -> Texts]
  BY DEF Metadata
<1>2. PICK E \in SUBSET Keys : o \in [E -> Texts]
  BY DEF Metadata
<1>3. Extend(m, o) \in [D \cup E -> Texts]
  BY <1>1, <1>2 DEF Extend
<1> QED
  BY <1>3 DEF Metadata

\* A request is of its type, and so are the limits its tenant starts with.
LEMMA RequestTypes ==
    /\ \A req \in CreateRequests :
         /\ req \in CreateTenantRequest
         /\ for_plan(req.plan) \in AllLimits
         /\ req.custom_limits # None => req.custom_limits \in AllLimits
    /\ \A req \in UpdateRequests :
         /\ req \in UpdateTenantRequest
         /\ req.plan # None => for_plan(req.plan) \in AllLimits
         /\ req.limits # None => req.limits \in AllLimits
BY RequestsAssumption DEF CreateTenantRequest, UpdateTenantRequest, AllLimits, Option

\* The record of a new tenant is a ManagedTenant.
LEMMA CreateType ==
    ASSUME NEW req \in CreateRequests
    PROVE  NewTenant(req) \in ManagedTenant
<1>1. /\ req.slug \in Slugs /\ req.plan \in Plans
      /\ req.display_name \in Option(Texts) /\ req.domain \in Option(Texts)
      /\ req.owner_id \in Option(Texts) /\ req.metadata \in Metadata
  BY RequestTypes DEF CreateTenantRequest
<1>2. for_plan(req.plan) \in AllLimits
  BY RequestTypes
<1>3. FromTenant(req) \in ManagedTenant
  BY <1>1, <1>2, UsagesAssumption DEF FromTenant, ManagedTenant, TenantStatus
<1>4. CASE req.custom_limits = None
  BY <1>3, <1>4 DEF NewTenant, WithLimits
<1>5. CASE req.custom_limits # None
  <2>1. req.custom_limits \in AllLimits
    BY <1>5, RequestTypes
  <2>2. NewTenant(req) = [FromTenant(req) EXCEPT !.limits = req.custom_limits]
    BY <1>5 DEF NewTenant, WithLimits
  <2> QED
    BY <1>3, <2>1, <2>2 DEF ManagedTenant
<1> QED
  BY <1>4, <1>5

\* So is what an update makes of one.
LEMMA UpdateType ==
    ASSUME NEW t \in ManagedTenant, NEW req \in UpdateRequests
    PROVE  ApplyUpdate(t, req) \in ManagedTenant
<1>1. req \in UpdateTenantRequest
  BY RequestTypes
<1>2. (IF req.display_name = None THEN t.display_name ELSE req.display_name) \in Option(Texts)
  BY <1>1 DEF UpdateTenantRequest, ManagedTenant, Option
<1>3. (IF req.domain = None THEN t.domain ELSE req.domain.to) \in Option(Texts)
  <2>1. CASE req.domain = None
    BY <2>1 DEF ManagedTenant
  <2>2. CASE req.domain # None
    <3>1. req.domain \in [to : Option(Texts)]
      BY <1>1, <2>2 DEF UpdateTenantRequest, Option
    <3> QED
      BY <2>2, <3>1
  <2> QED
    BY <2>1, <2>2
<1>4. (IF req.plan = None THEN t.plan ELSE req.plan) \in Plans
  BY <1>1 DEF UpdateTenantRequest, ManagedTenant, Option
<1>5. (IF req.metadata = None THEN t.metadata ELSE Extend(t.metadata, req.metadata)) \in Metadata
  BY <1>1, ExtendType DEF UpdateTenantRequest, ManagedTenant, Option
<1>6. UpdatedLimits(t, req) \in AllLimits
  BY RequestTypes DEF UpdatedLimits, ManagedTenant
<1> QED
  BY <1>2, <1>3, <1>4, <1>5, <1>6 DEF ApplyUpdate, ManagedTenant

\* Every record the manager builds from another record is a ManagedTenant.
LEMMA RecordTypes ==
    ASSUME NEW t \in ManagedTenant
    PROVE  /\ AsSuspended(t) \in ManagedTenant
           /\ AsActive(t) \in ManagedTenant
           /\ AsTerminating(t) \in ManagedTenant
           /\ AsTerminated(t) \in ManagedTenant
           /\ [t EXCEPT !.status = "Active"] \in ManagedTenant
BY DEF AsSuspended, AsActive, AsTerminating, AsTerminated, ManagedTenant, TenantStatus

\* The record of a new tenant is coherent and has limits that fit its plan.
LEMMA CreateFacts ==
    ASSUME NEW req \in CreateRequests
    PROVE  LET t == NewTenant(req) IN
           t.slug = req.slug /\ t.status = "Provisioning" /\ Coherent(t) /\ LimitsFit(t)
<1>1. req.custom_limits = None \/ req.custom_limits \in CustomLimits
  BY RequestTypes DEF CreateTenantRequest, Option
<1> QED
  BY <1>1 DEF NewTenant, WithLimits, FromTenant, Coherent, LimitsFit

\* Provisioning a record, and the life-cycle methods, keep that and the slug.
LEMMA ProvisionFacts ==
    ASSUME NEW t \in ManagedTenant, Coherent(t), LimitsFit(t), t.status = "Provisioning"
    PROVE  LET u == [t EXCEPT !.status = "Active"] IN
           u.slug = t.slug /\ Coherent(u) /\ LimitsFit(u)
BY DEF ManagedTenant, Coherent, LimitsFit

\* So do the three statuses a call gives to a record it has read.
LEMMA StatusFacts ==
    ASSUME NEW t \in ManagedTenant, Coherent(t), LimitsFit(t),
           NEW u \in {AsSuspended(t), AsActive(t), AsTerminating(t), AsTerminated(t)}
    PROVE  u.slug = t.slug /\ Coherent(u) /\ LimitsFit(u)
BY DEF AsSuspended, AsActive, AsTerminating, AsTerminated, ManagedTenant, Coherent, LimitsFit

\* So does an update.
LEMMA UpdateFacts ==
    ASSUME NEW t \in ManagedTenant, Coherent(t), LimitsFit(t), NEW req \in UpdateRequests
    PROVE  /\ ApplyUpdate(t, req).slug = t.slug
           /\ ApplyUpdate(t, req).status = t.status
           /\ Coherent(ApplyUpdate(t, req))
           /\ LimitsFit(ApplyUpdate(t, req))
<1> DEFINE u == ApplyUpdate(t, req)
<1>1. /\ u.slug = t.slug /\ u.status = t.status
      /\ u.active = t.active /\ u.suspension_reason = t.suspension_reason
      /\ u.plan = IF req.plan = None THEN t.plan ELSE req.plan
      /\ u.limits = UpdatedLimits(t, req)
  BY DEF ApplyUpdate, ManagedTenant
<1>2. req.limits = None \/ req.limits \in CustomLimits
  BY RequestTypes DEF UpdateTenantRequest, Option
<1> HIDE DEF u
<1>3. LimitsFit(u)
  BY <1>1, <1>2 DEF UpdatedLimits, LimitsFit
<1>4. Coherent(u)
  BY <1>1 DEF Coherent
<1> QED
  BY <1>1, <1>3, <1>4 DEF u

-----------------------------------------------------------------------------
(* The store and the calls.                                                *)

\* What an insertion and a removal leave in the store.
LEMMA PutFacts ==
    ASSUME NEW id \in Ids, NEW t \in ManagedTenant, TypeOK, Put(id, t)
    PROVE  /\ DOMAIN store' = DOMAIN store \cup {id}
           /\ store' \in [DOMAIN store' -> ManagedTenant]
           /\ DOMAIN store' \subseteq Ids
           /\ store'[id] = t
           /\ \A i \in DOMAIN store : i # id => store'[i] = store[i]
BY DEF Put, TypeOK

\* A removal takes one record and leaves the others as they are.
LEMMA RemoveFacts ==
    ASSUME NEW id, TypeOK, Remove(id)
    PROVE  /\ DOMAIN store' = DOMAIN store \ {id}
           /\ store' \in [DOMAIN store' -> ManagedTenant]
           /\ DOMAIN store' \subseteq Ids
           /\ \A i \in DOMAIN store' : store'[i] = store[i]
BY DEF Remove, TypeOK

\* A call holds a record exactly where the method has one in `managed`.
CallShape ==
    \A c \in Callers :
        /\ call[c].at # "idle" => call[c].id \in issued
        /\ call[c].at \in Holding => call[c].tenant \in ManagedTenant

\* What the records that calls hold have in common with the stored ones.
CallsFit ==
    \A c \in Callers : call[c].at \in Holding =>
        /\ Coherent(call[c].tenant)
        /\ LimitsFit(call[c].tenant)
        /\ call[c].at \in Creating => call[c].tenant.status = "Provisioning"
        /\ call[c].id \in DOMAIN store => call[c].tenant.slug = store[call[c].id].slug

\* An id that create has drawn belongs to that call alone until it is stored.
DrawnIsFresh ==
    \A c \in Callers : call[c].at = "create.insert" =>
        /\ call[c].id \notin DOMAIN store
        /\ \A d \in Callers \ {c} : call[d].at # "idle" => call[d].id # call[c].id

\* The invariant.  RecordCoherent and LimitsMatchPlan are not inductive alone:
\* a call may write any record it holds, so the held ones must be good as well.
IndInv ==
    /\ TypeOK
    /\ DOMAIN store \subseteq issued
    /\ CallShape
    /\ RecordCoherent
    /\ LimitsMatchPlan
    /\ CallsFit
    /\ DrawnIsFresh

\* The part of the invariant that is about the store.
StoreGood ==
    /\ DOMAIN store \subseteq issued
    /\ DOMAIN store \subseteq Ids
    /\ store \in [DOMAIN store -> ManagedTenant]
    /\ RecordCoherent
    /\ LimitsMatchPlan

\* A step changes no slug.
SlugsKept ==
    \A id \in DOMAIN store \cap DOMAIN store' : store'[id].slug = store[id].slug

\* Storing a good record under an id keeps the store good.
LEMMA PutGood ==
    ASSUME IndInv, issued' = issued,
           NEW id \in issued, NEW t \in ManagedTenant, Put(id, t),
           Coherent(t), LimitsFit(t),
           id \in DOMAIN store => t.slug = store[id].slug
    PROVE  StoreGood' /\ SlugsKept /\ DOMAIN store' = DOMAIN store \cup {id}
<1>1. TypeOK /\ id \in Ids
  BY DEF IndInv, TypeOK
<1>2. /\ DOMAIN store' = DOMAIN store \cup {id}
      /\ store' \in [DOMAIN store' -> ManagedTenant]
      /\ DOMAIN store' \subseteq Ids
      /\ store'[id] = t
      /\ \A i \in DOMAIN store : i # id => store'[i] = store[i]
  BY <1>1, PutFacts
<1>3. RecordCoherent'
  BY <1>2 DEF IndInv, RecordCoherent, Coherent
<1>4. LimitsMatchPlan'
  BY <1>2 DEF IndInv, LimitsMatchPlan, LimitsFit
<1>5. SlugsKept
  BY <1>2 DEF SlugsKept
<1>6. DOMAIN store' \subseteq issued'
  BY <1>2 DEF IndInv
<1> QED
  BY <1>2, <1>3, <1>4, <1>5, <1>6 DEF StoreGood

\* So does removing one, and so does leaving the store alone.
LEMMA RemoveGood ==
    ASSUME IndInv, issued \subseteq issued', NEW id, Remove(id) \/ UNCHANGED store
    PROVE  StoreGood' /\ SlugsKept /\ DOMAIN store' \subseteq DOMAIN store
<1>1. /\ DOMAIN store' \subseteq DOMAIN store
      /\ store' \in [DOMAIN store' -> ManagedTenant]
      /\ \A i \in DOMAIN store' : store'[i] = store[i]
  BY RemoveFacts DEF IndInv, TypeOK
<1>2. RecordCoherent' /\ LimitsMatchPlan'
  BY <1>1 DEF IndInv, RecordCoherent, LimitsMatchPlan, Coherent, LimitsFit
<1> QED
  BY <1>1, <1>2 DEF IndInv, TypeOK, StoreGood, SlugsKept

\* A call that goes on to a state that fits keeps the invariant, whether the
\* step that took it there wrote the store or not.
LEMMA CallStep ==
    ASSUME IndInv, StoreGood', SlugsKept, issued' = issued,
           resources' \in [Ids -> {"none", "running", "suspended"}],
           NEW c \in Callers, NEW new \in CallType, call' = [call EXCEPT ![c] = new],
           \A id \in DOMAIN store' \ DOMAIN store :
               call[c].at = "create.insert" /\ call[c].id = id,
           new.at # "create.insert",
           new.at # "idle" =>
               /\ new.id \in issued
               /\ \A d \in Callers \ {c} :
                    call[d].at = "create.insert" => call[d].id # new.id,
           new.at \in Holding =>
               /\ new.tenant \in ManagedTenant
               /\ Coherent(new.tenant)
               /\ LimitsFit(new.tenant)
               /\ new.at \in Creating => new.tenant.status = "Provisioning"
               /\ new.id \in DOMAIN store' => new.tenant.slug = store'[new.id].slug
    PROVE  IndInv'
<1>1. /\ call'[c] = new
      /\ \A d \in Callers \ {c} : call'[d] = call[d]
      /\ call' \in [Callers -> CallType]
  BY DEF IndInv, TypeOK
<1>2. TypeOK'
  BY <1>1 DEF IndInv, StoreGood, TypeOK
<1>3. CallShape'
  BY <1>1 DEF IndInv, CallShape
<1>4. CallsFit'
  <2> SUFFICES ASSUME NEW d \in Callers, d # c, call[d].at \in Holding
               PROVE  /\ Coherent(call[d].tenant)
                      /\ LimitsFit(call[d].tenant)
                      /\ call[d].at \in Creating => call[d].tenant.status = "Provisioning"
                      /\ call[d].id \in DOMAIN store' =>
                           call[d].tenant.slug = store'[call[d].id].slug
    BY <1>1 DEF CallsFit, Coherent, LimitsFit
  <2>1. call[d].id \in DOMAIN store' => call[d].id \in DOMAIN store
    BY DEF IndInv, DrawnIsFresh, Holding
  <2> QED
    BY <2>1 DEF IndInv, CallsFit, SlugsKept
<1>5. DrawnIsFresh'
  <2> SUFFICES ASSUME NEW d \in Callers, d # c, call[d].at = "create.insert"
               PROVE  /\ call[d].id \notin DOMAIN store'
                      /\ \A e \in Callers \ {d} :
                           call'[e].at # "idle" => call'[e].id # call[d].id
    BY <1>1 DEF DrawnIsFresh
  <2>1. call[d].id \notin DOMAIN store'
    BY DEF IndInv, DrawnIsFresh
  <2>2. new.at = "idle" \/ new.id # call[d].id
    OBVIOUS
  <2> QED
    BY <1>1, <2>1, <2>2 DEF IndInv, DrawnIsFresh
<1> QED
  BY <1>2, <1>3, <1>4, <1>5 DEF IndInv, StoreGood

\* The two ways a step leaves a call: waiting at its next await, or done.
LEMMA AwaitStep ==
    ASSUME IndInv, StoreGood', SlugsKept, issued' = issued,
           resources' \in [Ids -> {"none", "running", "suspended"}],
           NEW c \in Callers, NEW at \in Points \ {"idle", "create.insert"},
           NEW id \in issued, NEW t \in ManagedTenant \cup {None},
           Await(c, at, id, t),
           \A i \in DOMAIN store' \ DOMAIN store :
               call[c].at = "create.insert" /\ call[c].id = i,
           \A d \in Callers \ {c} : call[d].at = "create.insert" => call[d].id # id,
           at \in Holding =>
               /\ t \in ManagedTenant
               /\ Coherent(t)
               /\ LimitsFit(t)
               /\ at \in Creating => t.status = "Provisioning"
               /\ id \in DOMAIN store' => t.slug = store'[id].slug
    PROVE  IndInv'
<1> DEFINE new == [at |-> at, id |-> id, tenant |-> t]
<1>1. new.at = at /\ new.id = id /\ new.tenant = t
  OBVIOUS
<1>2. new \in CallType
  BY DEF CallType, IndInv, TypeOK
<1>3. call' = [call EXCEPT ![c] = new]
  BY DEF Await
<1> HIDE DEF new
<1> QED
  BY <1>1, <1>2, <1>3, CallStep

\* A call that returns holds nothing any more.
LEMMA ReturnStep ==
    ASSUME IndInv, StoreGood', SlugsKept, issued' = issued,
           resources' \in [Ids -> {"none", "running", "suspended"}],
           NEW c \in Callers, Return(c), DOMAIN store' \subseteq DOMAIN store
    PROVE  IndInv'
<1>1. Idle.at = "idle" /\ Idle \in CallType
  BY DEF Idle, CallType, Points
<1>2. "idle" \notin Holding
  BY DEF Holding
<1>3. call' = [call EXCEPT ![c] = Idle]
  BY DEF Return
<1> QED
  BY <1>1, <1>2, <1>3, CallStep

\* An id that is in the store is not one that a create is about to insert.
LEMMA StoredIsNotDrawn ==
    ASSUME IndInv, NEW id \in DOMAIN store
    PROVE  /\ id \in issued
           /\ store[id] \in ManagedTenant
           /\ Coherent(store[id])
           /\ LimitsFit(store[id])
           /\ \A d \in Callers : call[d].at = "create.insert" => call[d].id # id
BY DEF IndInv, TypeOK, RecordCoherent, LimitsMatchPlan, DrawnIsFresh

-----------------------------------------------------------------------------
(* The invariant is inductive.                                             *)

\* An empty store without calls satisfies the invariant.
LEMMA InitInv == Init => IndInv
<1> SUFFICES ASSUME Init PROVE IndInv
  OBVIOUS
<1>1. TypeOK
  BY DEF Init, TypeOK, CallType, Idle, Points
<1>2. DOMAIN store = {}
  BY DEF Init
<1>3. CallShape /\ CallsFit /\ DrawnIsFresh
  BY DEF Init, Idle, CallShape, CallsFit, DrawnIsFresh, Holding
<1> QED
  BY <1>1, <1>2, <1>3 DEF IndInv, RecordCoherent, LimitsMatchPlan

\* A step that starts a call, or does a whole one.
LEMMA InvokeInv ==
    ASSUME IndInv, NEW c \in Callers, Invoke(c)
    PROVE  IndInv'
<1>1. ASSUME NEW req \in CreateRequests, CreateCheck(c, req)
      PROVE  IndInv'
  <2> DEFINE t == NewTenant(req)
  <2>1. PICK id \in Ids \ issued :
          /\ issued' = issued \cup {id}
          /\ Await(c, "create.insert", id, t)
    BY <1>1 DEF CreateCheck
  <2>2. t \in ManagedTenant /\ t.status = "Provisioning" /\ Coherent(t) /\ LimitsFit(t)
    BY CreateType, CreateFacts
  <2> HIDE DEF t
  <2>3. /\ call'[c] = [at |-> "create.insert", id |-> id, tenant |-> t]
        /\ \A d \in Callers \ {c} : call'[d] = call[d]
        /\ UNCHANGED <<store, resources>>
    BY <1>1, <2>1 DEF IndInv, TypeOK, CreateCheck, Await
  <2>4. TypeOK'
    BY <2>1, <2>2, <2>3 DEF IndInv, TypeOK, Points, CallType, Await
  <2>5. StoreGood'
    BY <2>1, <2>3, RemoveGood
  <2>6. CallShape'
    BY <2>1, <2>2, <2>3 DEF IndInv, CallShape
  <2>7. CallsFit'
    BY <2>1, <2>2, <2>3 DEF IndInv, CallsFit, Coherent, LimitsFit
  <2>8. DrawnIsFresh'
    BY <2>1, <2>3 DEF IndInv, DrawnIsFresh, CallShape
  <2> QED
    BY <2>4, <2>5, <2>6, <2>7, <2>8 DEF IndInv, StoreGood
<1>2. ASSUME NEW id \in Ids, NEW req \in UpdateRequests, UpdateGet(c, id, req)
      PROVE  IndInv'
  <2> DEFINE t == ApplyUpdate(store[id], req)
  <2>1. id \in DOMAIN store /\ UNCHANGED <<store, issued, resources>>
        /\ Await(c, "update.write", id, t)
    BY <1>2 DEF UpdateGet
  <2>r. store[id] \in ManagedTenant /\ Coherent(store[id]) /\ LimitsFit(store[id])
    BY <2>1, StoredIsNotDrawn
  <2>t. t \in ManagedTenant
    BY <2>r, UpdateType
  <2>2. t \in ManagedTenant /\ Coherent(t) /\ LimitsFit(t) /\ t.slug = store[id].slug
    BY <2>r, <2>t, UpdateFacts
  <2> HIDE DEF t
  <2>3. StoreGood' /\ SlugsKept
    BY <2>1, RemoveGood
  <2> QED
    BY <2>1, <2>2, <2>3, StoredIsNotDrawn, AwaitStep
       DEF IndInv, TypeOK, Points, WritePoints, Creating
<1>3. ASSUME NEW id \in Ids, NEW usage \in Usages, UpdateUsage(c, id, usage)
      PROVE  IndInv'
  <2> DEFINE t == [store[id] EXCEPT !.usage = usage]
  <2>1. id \in DOMAIN store /\ store[id] \in ManagedTenant
    BY <1>3 DEF UpdateUsage, IndInv, TypeOK
  <2>2. t \in ManagedTenant /\ Coherent(t) /\ LimitsFit(t) /\ t.slug = store[id].slug
    BY <2>1 DEF IndInv, RecordCoherent, LimitsMatchPlan, ManagedTenant, Coherent, LimitsFit
  <2>3. Put(id, t) /\ UNCHANGED <<issued, resources, call>> /\ call[c].at = "idle"
    BY <1>3 DEF UpdateUsage
  <2> HIDE DEF t
  <2>4. StoreGood' /\ SlugsKept /\ DOMAIN store' = DOMAIN store
    BY <2>1, <2>2, <2>3, PutGood DEF IndInv
  <2>5. call[c] \in CallType /\ call' = [call EXCEPT ![c] = call[c]]
    BY <2>3 DEF IndInv, TypeOK
  <2> QED
    BY <2>3, <2>4, <2>5, CallStep DEF IndInv, TypeOK, Holding
<1>4. ASSUME NEW id \in Ids, NEW at \in {"suspend.provisioner", "activate.provisioner"},
             GetUnlessTerminated(c, id, at)
      PROVE  IndInv'
  <2>1. id \in DOMAIN store /\ UNCHANGED <<store, issued, resources>>
        /\ Await(c, at, id, store[id])
    BY <1>4 DEF GetUnlessTerminated
  <2>2. StoreGood' /\ SlugsKept
    BY <2>1, RemoveGood
  <2> QED
    BY <2>1, <2>2, StoredIsNotDrawn, AwaitStep DEF IndInv, TypeOK, Points, Creating
<1>5. ASSUME NEW id \in Ids, TerminateGet(c, id)
      PROVE  IndInv'
  <2> DEFINE t == AsTerminating(store[id])
  <2>1. id \in DOMAIN store /\ UNCHANGED <<store, issued, resources>>
        /\ Await(c, "terminate.mark", id, t)
    BY <1>5 DEF TerminateGet
  <2>r. store[id] \in ManagedTenant /\ Coherent(store[id]) /\ LimitsFit(store[id])
    BY <2>1, StoredIsNotDrawn
  <2>t. t \in ManagedTenant
    BY <2>r, RecordTypes
  <2>2. t \in ManagedTenant /\ Coherent(t) /\ LimitsFit(t) /\ t.slug = store[id].slug
    BY <2>r, <2>t, StatusFacts
  <2> HIDE DEF t
  <2>3. StoreGood' /\ SlugsKept
    BY <2>1, RemoveGood
  <2> QED
    BY <2>1, <2>2, <2>3, StoredIsNotDrawn, AwaitStep
       DEF IndInv, TypeOK, Points, Creating
<1>6. ASSUME NEW id \in Ids, DeleteGet(c, id)
      PROVE  IndInv'
  <2>1. id \in DOMAIN store /\ UNCHANGED <<store, issued, resources>>
        /\ Await(c, "delete.remove", id, None)
    BY <1>6 DEF DeleteGet
  <2>2. StoreGood' /\ SlugsKept
    BY <2>1, RemoveGood
  <2> QED
    BY <2>1, <2>2, StoredIsNotDrawn, AwaitStep DEF IndInv, TypeOK, Points, Holding
<1>7. CASE ReadOnly(c)
  BY <1>7 DEF ReadOnly, vars, IndInv, TypeOK, CallShape, RecordCoherent, LimitsMatchPlan,
              CallsFit, DrawnIsFresh, Coherent, LimitsFit
<1> QED
  BY <1>1, <1>2, <1>3, <1>4, <1>5, <1>6, <1>7 DEF Invoke, SuspendGet, ActivateGet

\* What is known of the record a call holds.
LEMMA HeldRecord ==
    ASSUME IndInv, NEW c \in Callers, call[c].at \in Holding
    PROVE  /\ call[c].id \in issued
           /\ call[c].tenant \in ManagedTenant
           /\ Coherent(call[c].tenant)
           /\ LimitsFit(call[c].tenant)
           /\ call[c].at \in Creating => call[c].tenant.status = "Provisioning"
           /\ call[c].id \in DOMAIN store => call[c].tenant.slug = store[call[c].id].slug
           /\ \A d \in Callers \ {c} :
                call[d].at = "create.insert" => call[d].id # call[c].id
BY DEF IndInv, CallShape, CallsFit, DrawnIsFresh, Holding

\* store.update with the record a call holds.
LEMMA UpdateStoredGood ==
    ASSUME IndInv, issued' = issued, NEW c \in Callers, call[c].at \in Holding,
           UpdateStored(call[c].id, call[c].tenant)
    PROVE  StoreGood' /\ SlugsKept /\ DOMAIN store' = DOMAIN store
<1>1. CASE call[c].id \in DOMAIN store
  <2>1. Put(call[c].id, call[c].tenant)
    BY <1>1 DEF UpdateStored
  <2>2. StoreGood' /\ SlugsKept /\ DOMAIN store' = DOMAIN store \cup {call[c].id}
    BY <2>1, HeldRecord, PutGood
  <2> QED
    BY <1>1, <2>2
<1>2. CASE call[c].id \notin DOMAIN store
  <2>1. UNCHANGED store
    BY <1>2 DEF UpdateStored
  <2> QED
    BY <2>1, RemoveGood
<1> QED
  BY <1>1, <1>2

\* A step of a call in progress.
LEMMA ContinueInv ==
    ASSUME IndInv, NEW c \in Callers, Continue(c)
    PROVE  IndInv'
<1> DEFINE id == call[c].id
           t == call[c].tenant
<1>0. resources \in [Ids -> {"none", "running", "suspended"}]
  BY DEF IndInv, TypeOK
<1>1. CASE CreateInsert(c)
  <2>1. call[c].at = "create.insert" /\ call[c].at \in Holding /\ call[c].at \in Creating
    BY <1>1 DEF CreateInsert, Holding, Points, Creating
  <2>2. id \notin DOMAIN store
    BY <2>1 DEF IndInv, DrawnIsFresh
  <2>3. Put(id, t) /\ Await(c, "create.provision", id, t) /\ UNCHANGED <<issued, resources>>
    BY <1>1, <2>2 DEF CreateInsert
  <2>4. StoreGood' /\ SlugsKept /\ DOMAIN store' = DOMAIN store \cup {id}
    BY <2>1, <2>2, <2>3, HeldRecord, PutGood
  <2>5. store'[id] = t
    BY <2>3 DEF Put
  <2> QED
    BY <1>0, <2>1, <2>3, <2>4, <2>5, HeldRecord, AwaitStep DEF Points
<1>2. CASE CreateProvision(c)
  <2> DEFINE u == [t EXCEPT !.status = "Active"]
  <2>1. /\ call[c].at \in Holding /\ call[c].at \in Creating
        /\ Await(c, "create.write", id, u) /\ UNCHANGED <<store, issued>>
        /\ resources' \in [Ids -> {"none", "running", "suspended"}]
    BY <1>0, <1>2 DEF CreateProvision, Provisioned, Holding, Points, Creating
  <2>2. u \in ManagedTenant /\ u.slug = t.slug /\ Coherent(u) /\ LimitsFit(u)
    BY <2>1, HeldRecord, RecordTypes, ProvisionFacts
  <2>3. StoreGood' /\ SlugsKept
    BY <2>1, RemoveGood
  <2> HIDE DEF u
  <2> QED
    BY <2>1, <2>2, <2>3, HeldRecord, AwaitStep DEF Points, WritePoints, Creating
<1>3. CASE CreateProvisionFails(c)
  <2>1. /\ call[c].at \in Holding /\ call[c].at \in Creating
        /\ Await(c, "create.rollback", id, t) /\ UNCHANGED <<store, issued, resources>>
    BY <1>3 DEF CreateProvisionFails, Holding, Points, Creating
  <2>2. StoreGood' /\ SlugsKept
    BY <2>1, RemoveGood
  <2> QED
    BY <1>0, <2>1, <2>2, HeldRecord, AwaitStep DEF Points
<1>4. CASE CreateRollback(c) \/ DeleteRemove(c) \/ ProvisionerError(c)
  <2>1. /\ Remove(id) \/ UNCHANGED store
        /\ Return(c) /\ UNCHANGED <<issued, resources>>
    BY <1>4 DEF CreateRollback, DeleteRemove, ProvisionerError
  <2>2. StoreGood' /\ SlugsKept /\ DOMAIN store' \subseteq DOMAIN store
    BY <2>1, RemoveGood
  <2> QED
    BY <1>0, <2>1, <2>2, ReturnStep
<1>5. CASE SuspendResources(c)
  <2> DEFINE u == AsSuspended(t)
  <2>1. /\ call[c].at \in Holding
        /\ Await(c, "suspend.write", id, u) /\ UNCHANGED <<store, issued>>
        /\ resources' \in [Ids -> {"none", "running", "suspended"}]
    BY <1>0, <1>5 DEF SuspendResources, ResourcesSuspended, Holding, Points
  <2>2. u \in ManagedTenant /\ u.slug = t.slug /\ Coherent(u) /\ LimitsFit(u)
    BY <2>1, HeldRecord, RecordTypes, StatusFacts
  <2>3. StoreGood' /\ SlugsKept
    BY <2>1, RemoveGood
  <2> HIDE DEF u
  <2> QED
    BY <2>1, <2>2, <2>3, HeldRecord, AwaitStep DEF Points, WritePoints, Creating
<1>6. CASE ActivateResources(c)
  <2> DEFINE u == AsActive(t)
  <2>1. /\ call[c].at \in Holding
        /\ Await(c, "activate.write", id, u) /\ UNCHANGED <<store, issued>>
        /\ resources' \in [Ids -> {"none", "running", "suspended"}]
    BY <1>0, <1>6 DEF ActivateResources, ResourcesResumed, Holding, Points
  <2>2. u \in ManagedTenant /\ u.slug = t.slug /\ Coherent(u) /\ LimitsFit(u)
    BY <2>1, HeldRecord, RecordTypes, StatusFacts
  <2>3. StoreGood' /\ SlugsKept
    BY <2>1, RemoveGood
  <2> HIDE DEF u
  <2> QED
    BY <2>1, <2>2, <2>3, HeldRecord, AwaitStep DEF Points, WritePoints, Creating
<1>7. CASE TerminateMark(c)
  <2>1. /\ call[c].at = "terminate.mark" /\ call[c].at \in Holding
        /\ UpdateStored(id, t) /\ UNCHANGED <<issued, resources>>
    BY <1>7 DEF TerminateMark, Holding, Points
  <2>2. StoreGood' /\ SlugsKept /\ DOMAIN store' = DOMAIN store
    BY <2>1, UpdateStoredGood
  <2>3. CASE id \in DOMAIN store
    <3>1. Await(c, "terminate.deprovision", id, t) /\ store'[id].slug = t.slug
      BY <1>7, <2>1, <2>3 DEF TerminateMark, UpdateStored, Put
    <3> QED
      BY <1>0, <2>1, <2>2, <3>1, HeldRecord, AwaitStep DEF Points, Creating
  <2>4. CASE id \notin DOMAIN store
    <3>1. Return(c)
      BY <1>7, <2>4 DEF TerminateMark
    <3> QED
      BY <1>0, <2>1, <2>2, <3>1, ReturnStep
  <2> QED
    BY <2>3, <2>4
<1>8. CASE TerminateDeprovision(c)
  <2> DEFINE u == AsTerminated(t)
  <2>1. /\ call[c].at \in Holding
        /\ Await(c, "terminate.write", id, u) /\ UNCHANGED <<store, issued>>
        /\ resources' \in [Ids -> {"none", "running", "suspended"}]
    BY <1>0, <1>8 DEF TerminateDeprovision, Deprovisioned, Holding, Points
  <2>2. u \in ManagedTenant /\ u.slug = t.slug /\ Coherent(u) /\ LimitsFit(u)
    BY <2>1, HeldRecord, RecordTypes, StatusFacts
  <2>3. StoreGood' /\ SlugsKept
    BY <2>1, RemoveGood
  <2> HIDE DEF u
  <2> QED
    BY <2>1, <2>2, <2>3, HeldRecord, AwaitStep DEF Points, WritePoints, Creating
<1>9. CASE Write(c)
  <2>1. /\ call[c].at \in Holding
        /\ UpdateStored(id, t) /\ Return(c) /\ UNCHANGED <<issued, resources>>
    BY <1>9 DEF Write, Holding, Points, WritePoints
  <2>2. StoreGood' /\ SlugsKept /\ DOMAIN store' = DOMAIN store
    BY <2>1, UpdateStoredGood
  <2> QED
    BY <1>0, <2>1, <2>2, ReturnStep
<1> QED
  BY <1>1, <1>2, <1>3, <1>4, <1>5, <1>6, <1>7, <1>8, <1>9 DEF Continue

\* Every step keeps the invariant, an interruption too.
LEMMA NextInv == IndInv /\ [Next]_vars => IndInv'
<1> SUFFICES ASSUME IndInv, [Next]_vars PROVE IndInv'
  OBVIOUS
<1>1. ASSUME NEW c \in Callers, Abort(c) PROVE IndInv'
  <2>1. Return(c) /\ UNCHANGED <<store, issued, resources>>
    BY <1>1 DEF Abort
  <2>2. StoreGood' /\ SlugsKept
    BY <2>1, RemoveGood
  <2> QED
    BY <2>1, <2>2, ReturnStep DEF IndInv, TypeOK
<1>2. CASE UNCHANGED vars
  BY <1>2 DEF vars, IndInv, TypeOK, CallShape, RecordCoherent, LimitsMatchPlan,
              CallsFit, DrawnIsFresh, Coherent, LimitsFit
<1> QED
  BY <1>1, <1>2, InvokeInv, ContinueInv DEF Next

\* The invariant holds in every state, for any number of callers.
THEOREM Invariance == Spec => []IndInv
BY InitInv, NextInv, PTL DEF Spec

\* The variables keep their types.
THEOREM TypeCorrect == Spec => []TypeOK
<1>1. IndInv => TypeOK
  BY DEF IndInv
<1> QED
  BY <1>1, Invariance, PTL

\* Status, active flag and reason of a stored tenant agree, however many calls
\* overlap, fail or are cut short.
THEOREM RecordsCoherent == Spec => []RecordCoherent
<1>1. IndInv => RecordCoherent
  BY DEF IndInv
<1> QED
  BY <1>1, Invariance, PTL

\* So do its plan and its limits.
THEOREM LimitsCorrect == Spec => []LimitsMatchPlan
<1>1. IndInv => LimitsMatchPlan
  BY DEF IndInv
<1> QED
  BY <1>1, Invariance, PTL

\* A larger plan limits no metric more tightly.
LEMMA PlanLadder ==
    ASSUME NEW p \in AllPlans, NEW q \in NoSmaller(p), NEW m \in Metrics
    PROVE  \/ for_plan(q)[m] = None
           \/ /\ for_plan(p)[m] \in Nat /\ for_plan(q)[m] \in Nat
              /\ for_plan(p)[m] <= for_plan(q)[m]
<1>1. /\ q \in AllPlans
      /\ p = "Starter" => q # "Free"
      /\ p = "Professional" => q \notin {"Free", "Starter"}
      /\ p \in {"Enterprise", "Custom"} => q \in {"Enterprise", "Custom"}
  BY DEF AllPlans, NoSmaller
<1>2. CASE q \in {"Enterprise", "Custom"}
  BY <1>2 DEF for_plan, Tier, Metrics
<1>3. CASE q \notin {"Enterprise", "Custom"}
  BY <1>1, <1>3 DEF for_plan, Tier, AllPlans, Metrics
<1> QED
  BY <1>2, <1>3

\* A tenant that moves up without negotiated limits is not told of a metric
\* that it did not exceed before.
LEMMA UpgradeStep ==
    ASSUME IndInv, IndInv', NEW id \in DOMAIN store \cap DOMAIN store',
           store'[id].usage = store[id].usage,
           store'[id].plan \in NoSmaller(store[id].plan),
           store[id].limits \notin CustomLimits, store'[id].limits \notin CustomLimits
    PROVE  get_violations(store'[id]) \subseteq get_violations(store[id])
<1> DEFINE old == store[id]
           new == store'[id]
<1>1. old \in ManagedTenant /\ LimitsFit(old) /\ LimitsFit(new)
  BY DEF IndInv, TypeOK, LimitsMatchPlan, LimitsFit
<1>2. old.limits = for_plan(old.plan) /\ new.limits = for_plan(new.plan)
  BY <1>1 DEF LimitsFit
<1>3. old.plan \in AllPlans /\ old.usage \in TenantUsage
  BY <1>1, PlansAssumption, UsagesAssumption DEF ManagedTenant
<1> HIDE DEF old, new
<1> SUFFICES ASSUME NEW m \in Metrics, new.limits[m] # None, new.usage[m] > new.limits[m]
             PROVE  old.limits[m] # None /\ old.usage[m] > old.limits[m]
  BY DEF get_violations, exceeds_limits, old, new
<1>4. /\ old.limits[m] \in Nat /\ new.limits[m] \in Nat
      /\ old.limits[m] <= new.limits[m]
  BY <1>2, <1>3, PlanLadder DEF old, new
<1>5. old.usage[m] \in Nat /\ new.usage = old.usage
  BY <1>3 DEF TenantUsage, old, new
<1> QED
  BY <1>4, <1>5, NoneAssumption

\* No upgrade adds a violation, for any plans, usages and requests.
THEOREM UpgradeTheorem == Spec => UpgradeRelieves
<1>1. IndInv /\ IndInv' /\ [Next]_vars =>
        [\A id \in DOMAIN store \cap DOMAIN store' :
           LET old == store[id]
               new == store'[id] IN
           /\ new.usage = old.usage
           /\ new.plan \in NoSmaller(old.plan)
           /\ {old.limits, new.limits} \cap CustomLimits = {}
           => get_violations(new) \subseteq get_violations(old)]_vars
  BY UpgradeStep
<1> QED
  BY <1>1, Invariance, PTL DEF Spec, UpgradeRelieves

\* Under the invariant no step changes a slug or brings a record back.
LEMMA IdentityKept == IndInv /\ [Next]_vars => IdentityStep
<1> SUFFICES ASSUME IndInv, [Next]_vars PROVE IdentityStep
  OBVIOUS
<1>1. CASE UNCHANGED store
  BY <1>1 DEF IdentityStep
<1>2. ASSUME NEW c \in Callers, NEW id \in Ids, NEW usage \in Usages,
             UpdateUsage(c, id, usage)
      PROVE  IdentityStep
  BY <1>2 DEF UpdateUsage, Put, IdentityStep, IndInv, TypeOK, ManagedTenant
<1>3. ASSUME NEW c \in Callers, CreateInsert(c)
      PROVE  IdentityStep
  BY <1>3 DEF CreateInsert, Put, IdentityStep
<1>4. ASSUME NEW c \in Callers, CreateRollback(c) \/ DeleteRemove(c)
      PROVE  IdentityStep
  BY <1>4 DEF CreateRollback, DeleteRemove, Remove, IdentityStep
<1>5. ASSUME NEW c \in Callers, TerminateMark(c) \/ Write(c)
      PROVE  IdentityStep
  <2>1. /\ call[c].at \in Holding
        /\ UpdateStored(call[c].id, call[c].tenant) /\ UNCHANGED issued
    BY <1>5 DEF TerminateMark, Write, Holding, Points, WritePoints
  <2>2. SlugsKept /\ DOMAIN store' = DOMAIN store
    BY <2>1, UpdateStoredGood
  <2> QED
    BY <2>2 DEF SlugsKept, IdentityStep
<1> QED
  BY <1>1, <1>2, <1>3, <1>4, <1>5
     DEF Next, Invoke, Continue, Abort, ReadOnly, vars, CreateCheck, UpdateGet,
         SuspendGet, ActivateGet, GetUnlessTerminated, TerminateGet, DeleteGet,
         CreateProvision, CreateProvisionFails, SuspendResources, ActivateResources,
         TerminateDeprovision, ProvisionerError

\* A slug is never changed and a deleted tenant never resurrected, whatever
\* stale records calls still hold.
THEOREM IdentityTheorem == Spec => IdentityIsForLife
BY Invariance, IdentityKept, PTL DEF Spec, IdentityIsForLife

-----------------------------------------------------------------------------
(* How often calls of create that overlap can store one slug.              *)

\* The three ways a step can affect one slug: it claims and stores it no more
\* often than before, or it claims it while no record has it, or a call turns
\* its claim into one record.
RaceStep(slug) ==
    \/ InUse(slug)' \subseteq InUse(slug) /\ Claims(slug)' \subseteq Claims(slug)
    \/ InUse(slug)' = {}
    \/ \E c \in Claims(slug), id \in Ids :
         /\ InUse(slug)' \subseteq InUse(slug) \cup {id}
         /\ Claims(slug)' \subseteq Claims(slug) \ {c}

\* A step that adds no record and begins no create makes no slug more taken.
LEMMA NoMoreTaken ==
    ASSUME IndInv, SlugsKept, DOMAIN store' \subseteq DOMAIN store,
           \A c \in Callers :
               call'[c].at = "create.insert" => call'[c] = call[c],
           NEW slug
    PROVE  InUse(slug)' \subseteq InUse(slug) /\ Claims(slug)' \subseteq Claims(slug)
BY DEF InUse, Claims, SlugsKept

\* A step of a call other than create's first two makes no slug more taken.
LEMMA RaceCall ==
    ASSUME IndInv, SlugsKept, DOMAIN store' \subseteq DOMAIN store,
           NEW c \in Callers,
           \/ UNCHANGED call
           \/ Return(c)
           \/ \E at \in Points \ {"create.insert"} : \E id, t : Await(c, at, id, t),
           NEW slug
    PROVE  RaceStep(slug)
<1>1. call \in [Callers -> CallType]
  BY DEF IndInv, TypeOK
<1>2. \A d \in Callers : call'[d].at = "create.insert" => call'[d] = call[d]
  BY <1>1 DEF Return, Await, Idle
<1> QED
  BY <1>2, NoMoreTaken DEF RaceStep

\* Every step is of one of the three ways.
LEMMA RaceNext ==
    ASSUME IndInv, [Next]_vars, NEW slug \in Slugs
    PROVE  RaceStep(slug)
<1>1. SlugsKept
  BY IdentityKept DEF IdentityStep, SlugsKept
<1>2. ASSUME NEW c \in Callers, NEW req \in CreateRequests, CreateCheck(c, req)
      PROVE  RaceStep(slug)
  <2>1. PICK id \in Ids : Await(c, "create.insert", id, NewTenant(req))
    BY <1>2 DEF CreateCheck
  <2>2. UNCHANGED store /\ ~SlugTaken(req.slug)
    BY <1>2 DEF CreateCheck
  <2>3. InUse(slug)' = InUse(slug)
    BY <2>2 DEF InUse
  <2>4. CASE slug = req.slug
    BY <2>2, <2>3, <2>4 DEF InUse, SlugTaken, RaceStep
  <2>5. CASE slug # req.slug
    <3>1. /\ call'[c].tenant.slug # slug
          /\ \A d \in Callers \ {c} : call'[d] = call[d]
      BY <2>1, <2>5, CreateFacts DEF Await, IndInv, TypeOK
    <3> QED
      BY <2>3, <3>1 DEF Claims, RaceStep
  <2> QED
    BY <2>4, <2>5
<1>3. ASSUME NEW c \in Callers, CreateInsert(c)
      PROVE  RaceStep(slug)
  <2> DEFINE id == call[c].id
             t == call[c].tenant
  <2>1. call[c].at = "create.insert" /\ id \notin DOMAIN store /\ id \in Ids
    BY <1>3 DEF CreateInsert, IndInv, DrawnIsFresh, CallShape, TypeOK
  <2>2. Put(id, t) /\ Await(c, "create.provision", id, t)
    BY <1>3, <2>1 DEF CreateInsert
  <2>3. /\ DOMAIN store' = DOMAIN store \cup {id}
        /\ store'[id] = t
    BY <2>2 DEF Put
  <2>4. Claims(slug)' \subseteq Claims(slug) \ {c}
    BY <2>2 DEF Claims, Await, IndInv, TypeOK
  <2>5. InUse(slug)' \subseteq InUse(slug) \cup (IF t.slug = slug THEN {id} ELSE {})
    BY <1>1, <2>3 DEF InUse, SlugsKept
  <2>6. CASE t.slug = slug
    <3>1. c \in Claims(slug)
      BY <2>1, <2>6 DEF Claims
    <3> QED
      BY <2>1, <2>4, <2>5, <2>6, <3>1 DEF RaceStep
  <2>7. CASE t.slug # slug
    BY <2>4, <2>5, <2>7 DEF RaceStep
  <2> QED
    BY <2>6, <2>7
<1>4. ASSUME NEW c \in Callers, NEW id \in Ids, NEW usage \in Usages,
             UpdateUsage(c, id, usage)
      PROVE  RaceStep(slug)
  <2>1. DOMAIN store' \subseteq DOMAIN store /\ UNCHANGED call
    BY <1>4 DEF UpdateUsage, Put
  <2> QED
    BY <1>1, <2>1, RaceCall
<1>5. ASSUME NEW c \in Callers, CreateRollback(c) \/ DeleteRemove(c) \/ Write(c)
      PROVE  RaceStep(slug)
  <2>1. DOMAIN store' \subseteq DOMAIN store /\ Return(c)
    BY <1>5 DEF CreateRollback, DeleteRemove, Write, Remove, UpdateStored, Put
  <2> QED
    BY <1>1, <2>1, RaceCall
<1>6. ASSUME NEW c \in Callers, TerminateMark(c)
      PROVE  RaceStep(slug)
  <2>1. /\ DOMAIN store' \subseteq DOMAIN store
        /\ Return(c) \/ Await(c, "terminate.deprovision", call[c].id, call[c].tenant)
    BY <1>6 DEF TerminateMark, UpdateStored, Put
  <2> QED
    BY <1>1, <2>1, RaceCall DEF Points
<1>7. ASSUME NEW c \in Callers, UNCHANGED store,
             \/ UNCHANGED call
             \/ Return(c)
             \/ \E at \in Points \ {"create.insert"} : \E id, t : Await(c, at, id, t)
      PROVE  RaceStep(slug)
  BY <1>1, <1>7, RaceCall
<1>8. CASE UNCHANGED vars
  BY <1>8 DEF RaceStep, InUse, Claims, vars
<1>9. ASSUME NEW c \in Callers, NEW id \in Ids,
             \/ \E req \in UpdateRequests : UpdateGet(c, id, req)
             \/ SuspendGet(c, id) \/ ActivateGet(c, id)
             \/ TerminateGet(c, id) \/ DeleteGet(c, id)
      PROVE  RaceStep(slug)
  BY <1>7, <1>9 DEF UpdateGet, SuspendGet, ActivateGet, GetUnlessTerminated,
                    TerminateGet, DeleteGet, Points, WritePoints
<1>10. ASSUME NEW c \in Callers,
              \/ CreateProvision(c) \/ CreateProvisionFails(c) \/ SuspendResources(c)
              \/ ActivateResources(c) \/ TerminateDeprovision(c)
              \/ ProvisionerError(c) \/ Abort(c)
       PROVE  RaceStep(slug)
  BY <1>7, <1>10 DEF CreateProvision, CreateProvisionFails, SuspendResources, Abort,
                     ActivateResources, TerminateDeprovision, ProvisionerError,
                     Points, WritePoints
<1> QED
  BY <1>2, <1>3, <1>4, <1>5, <1>6, <1>8, <1>9, <1>10
     DEF Next, Invoke, Continue, ReadOnly

\* The bound, with the finiteness it needs to be inductive.
RaceInv(slug) ==
    /\ IsFiniteSet(InUse(slug))
    /\ Cardinality(InUse(slug)) + Cardinality(Claims(slug)) <= Cardinality(Callers)

\* Every one of the three ways keeps the bound.
LEMMA RaceKept ==
    ASSUME NEW slug, RaceInv(slug), RaceStep(slug)
    PROVE  RaceInv(slug)'
<1> DEFINE U == InUse(slug)
           V == InUse(slug)'
           C == Claims(slug)
           D == Claims(slug)'
           N == Cardinality(Callers)
<1>1. /\ IsFiniteSet(Callers) /\ IsFiniteSet(U)
      /\ IsFiniteSet(C) /\ Cardinality(C) <= N
      /\ IsFiniteSet(D) /\ Cardinality(D) <= N
  <2>1. C \subseteq Callers /\ D \subseteq Callers
    BY DEF Claims
  <2> QED
    BY <2>1, CallersAssumption, FS_Subset DEF RaceInv
<1>2. /\ N \in Nat /\ Cardinality(U) \in Nat
      /\ Cardinality(C) \in Nat /\ Cardinality(D) \in Nat
  BY <1>1, FS_CardinalityType
<1>3. Cardinality(U) + Cardinality(C) <= N
  BY DEF RaceInv
<1>4. \/ V \subseteq U /\ D \subseteq C
      \/ V = {}
      \/ \E c \in C, id \in Ids : V \subseteq U \cup {id} /\ D \subseteq C \ {c}
  BY DEF RaceStep
<1>5. RaceInv(slug)' <=> IsFiniteSet(V) /\ Cardinality(V) + Cardinality(D) <= N
  BY DEF RaceInv
<1> HIDE DEF U, V, C, D, N
<1>6. CASE V \subseteq U /\ D \subseteq C
  <2>1. /\ IsFiniteSet(V) /\ Cardinality(V) <= Cardinality(U)
        /\ Cardinality(D) <= Cardinality(C)
    BY <1>1, <1>6, FS_Subset
  <2>2. Cardinality(V) \in Nat
    BY <2>1, FS_CardinalityType
  <2> QED
    BY <1>2, <1>3, <1>5, <2>1, <2>2
<1>7. CASE V = {}
  <2>1. IsFiniteSet(V) /\ Cardinality(V) = 0
    BY <1>7, FS_EmptySet
  <2> QED
    BY <1>1, <1>2, <1>5, <2>1
<1>8. ASSUME NEW c \in C, NEW id \in Ids,
             V \subseteq U \cup {id}, D \subseteq C \ {c}
      PROVE  RaceInv(slug)'
  <2>1. /\ IsFiniteSet(U \cup {id})
        /\ Cardinality(U \cup {id}) <= Cardinality(U) + 1
    <3>1. /\ IsFiniteSet(U \cup {id})
          /\ \/ Cardinality(U \cup {id}) = Cardinality(U)
             \/ Cardinality(U \cup {id}) = Cardinality(U) + 1
      BY <1>1, FS_AddElement
    <3> QED
      BY <1>2, <3>1
  <2>2. IsFiniteSet(C \ {c}) /\ Cardinality(C \ {c}) = Cardinality(C) - 1
    BY <1>1, FS_RemoveElement
  <2>3. IsFiniteSet(V) /\ Cardinality(V) <= Cardinality(U \cup {id})
    BY <1>8, <2>1, FS_Subset
  <2>4. Cardinality(D) <= Cardinality(C \ {c})
    BY <1>8, <2>2, FS_Subset
  <2>5. Cardinality(V) \in Nat /\ Cardinality(U \cup {id}) \in Nat
    BY <2>1, <2>3, FS_CardinalityType
  <2> QED
    BY <1>2, <1>3, <1>5, <2>1, <2>2, <2>3, <2>4, <2>5
<1> QED
  BY <1>4, <1>6, <1>7, <1>8

\* At first no slug is stored or claimed.
LEMMA RaceInit == Init => \A slug \in Slugs : RaceInv(slug)
<1> SUFFICES ASSUME Init, NEW slug \in Slugs PROVE RaceInv(slug)
  OBVIOUS
<1>1. InUse(slug) = {} /\ Claims(slug) = {}
  BY DEF Init, Idle, InUse, Claims
<1>2. Cardinality(Callers) \in Nat
  BY CallersAssumption, FS_CardinalityType
<1> QED
  BY <1>1, <1>2, FS_EmptySet DEF RaceInv

\* However many calls of create overlap, fail and are cut short, one slug is
\* stored at most once per caller: the look-up still keeps out every create
\* that begins once the slug is stored.
THEOREM SlugRaceTheorem == Spec => []SlugRaceBounded
<1> DEFINE Bounded == \A slug \in Slugs : RaceInv(slug)
<1>1. Init => Bounded
  BY RaceInit
<1>2. IndInv /\ Bounded /\ [Next]_vars => Bounded'
  BY RaceNext, RaceKept
<1>3. Bounded => SlugRaceBounded
  BY DEF RaceInv, SlugRaceBounded
<1> QED
  BY <1>1, <1>2, <1>3, Invariance, PTL DEF Spec

-----------------------------------------------------------------------------
(* Calls that do not overlap.                                              *)

\* What a call in progress knows of the tenant it works on.
InProgress(c) ==
    LET at == call[c].at
        id == call[c].id
        t == call[c].tenant IN
    /\ at = "create.insert" => ~SlugTaken(t.slug)
    /\ at \notin {"idle", "create.insert"} => id \in DOMAIN store
    /\ at \in {"create.provision", "create.rollback", "create.write"} =>
         store[id].status = "Provisioning"
    /\ at \in {"create.provision", "create.rollback"} => resources[id] = "none"
    /\ at \in {"create.write", "activate.write"} => t.status = "Active"
    /\ at = "update.write" => t.status = store[id].status
    /\ at \in {"suspend.provisioner", "suspend.write", "activate.provisioner",
               "activate.write", "terminate.mark"} => store[id].status # "Terminated"
    /\ at = "suspend.write" => t.status = "Suspended"
    /\ at \in {"terminate.mark", "terminate.deprovision"} => t.status = "Terminating"
    /\ at \in {"terminate.deprovision", "terminate.write"} =>
         store[id].status = "Terminating"
    /\ at = "terminate.write" => t.status = "Terminated" /\ resources[id] = "none"
    /\ at = "delete.remove" => store[id].status = "Terminated"

\* The invariant of calls that do not overlap.
SerialInv ==
    /\ IndInv
    /\ SlugUnique
    /\ NoOrphanResources
    /\ \A c \in Callers : InProgress(c)

\* The steps that leave the store alone leave slugs unique, and so do those that
\* add no record.
LEMMA SlugUniqueKept ==
    ASSUME SlugUnique, SlugsKept, DOMAIN store' \subseteq DOMAIN store
    PROVE  SlugUnique'
BY DEF SlugUnique, SlugsKept

\* Starting a call keeps it ...
LEMMA SerialInvoke ==
    ASSUME Serial, SerialInv, NEW c \in Callers, Invoke(c)
    PROVE  SlugUnique' /\ NoOrphanResources' /\ InProgress(c)'
<1> USE DEF Await
<1>0. TypeOK /\ SlugUnique /\ NoOrphanResources /\ InProgress(c)
  BY DEF SerialInv, IndInv
<1>1. ASSUME UNCHANGED <<store, resources>>
      PROVE  SlugUnique' /\ NoOrphanResources'
  BY <1>0, <1>1 DEF SlugUnique, NoOrphanResources
<1>2. ASSUME NEW req \in CreateRequests, CreateCheck(c, req)
      PROVE  UNCHANGED <<store, resources>> /\ InProgress(c)'
  <2> DEFINE t == NewTenant(req)
  <2>1. t.slug = req.slug
    BY CreateFacts
  <2> HIDE DEF t
  <2>2. /\ call'[c].at = "create.insert" /\ call'[c].tenant = t
        /\ UNCHANGED <<store, resources>> /\ ~SlugTaken(req.slug)
    BY <1>0, <1>2 DEF CreateCheck, TypeOK, t
  <2> QED
    BY <2>1, <2>2 DEF InProgress, SlugTaken
<1>3. ASSUME NEW id \in Ids, NEW req \in UpdateRequests, UpdateGet(c, id, req)
      PROVE  UNCHANGED <<store, resources>> /\ InProgress(c)'
  <2> DEFINE t == ApplyUpdate(store[id], req)
  <2>1. id \in DOMAIN store /\ UNCHANGED <<store, resources>>
        /\ call'[c] = [at |-> "update.write", id |-> id, tenant |-> t]
    BY <1>0, <1>3 DEF UpdateGet, TypeOK
  <2>2. t.status = store[id].status
    BY <2>1, StoredIsNotDrawn, UpdateFacts DEF SerialInv
  <2> HIDE DEF t
  <2> QED
    BY <2>1, <2>2 DEF InProgress
<1>4. ASSUME NEW id \in Ids, NEW usage \in Usages, UpdateUsage(c, id, usage)
      PROVE  SlugUnique' /\ NoOrphanResources' /\ InProgress(c)'
  <2>1. /\ DOMAIN store' = DOMAIN store
        /\ \A i \in DOMAIN store : /\ store'[i].slug = store[i].slug
                                   /\ store'[i].status = store[i].status
        /\ UNCHANGED <<resources, call>> /\ call[c].at = "idle"
    BY <1>0, <1>4 DEF UpdateUsage, Put, TypeOK, ManagedTenant
  <2> QED
    BY <1>0, <2>1 DEF SlugUnique, NoOrphanResources, InProgress
<1>5. ASSUME NEW id \in Ids, NEW at \in {"suspend.provisioner", "activate.provisioner"},
             GetUnlessTerminated(c, id, at)
      PROVE  UNCHANGED <<store, resources>> /\ InProgress(c)'
  <2>1. /\ id \in DOMAIN store /\ store[id].status # "Terminated"
        /\ UNCHANGED <<store, resources>>
        /\ call'[c] = [at |-> at, id |-> id, tenant |-> store[id]]
    BY <1>0, <1>5 DEF GetUnlessTerminated, TypeOK
  <2> QED
    BY <2>1 DEF InProgress
<1>6. ASSUME NEW id \in Ids, TerminateGet(c, id)
      PROVE  UNCHANGED <<store, resources>> /\ InProgress(c)'
  <2>1. /\ id \in DOMAIN store /\ store[id].status # "Terminated"
        /\ UNCHANGED <<store, resources>>
        /\ call'[c].at = "terminate.mark" /\ call'[c].id = id
        /\ call'[c].tenant.status = "Terminating"
    BY <1>0, <1>6 DEF TerminateGet, TypeOK, AsTerminating, ManagedTenant
  <2> QED
    BY <2>1 DEF InProgress
<1>7. ASSUME NEW id \in Ids, DeleteGet(c, id)
      PROVE  UNCHANGED <<store, resources>> /\ InProgress(c)'
  <2>1. /\ id \in DOMAIN store /\ store[id].status = "Terminated"
        /\ UNCHANGED <<store, resources>>
        /\ call'[c].at = "delete.remove" /\ call'[c].id = id
    BY <1>0, <1>7 DEF DeleteGet, TypeOK
  <2> QED
    BY <2>1 DEF InProgress
<1>8. ASSUME ReadOnly(c)
      PROVE  UNCHANGED <<store, resources>> /\ InProgress(c)'
  BY <1>0, <1>8 DEF ReadOnly, vars, InProgress, SlugTaken
<1> QED
  BY <1>1, <1>2, <1>3, <1>4, <1>5, <1>6, <1>7, <1>8 DEF Invoke, SuspendGet, ActivateGet

\* ... and so does every step of the call in progress ...
LEMMA SerialContinue ==
    ASSUME Serial, SerialInv, NEW c \in Callers, Continue(c)
    PROVE  SlugUnique' /\ NoOrphanResources' /\ InProgress(c)'
<1> DEFINE id == call[c].id
           t == call[c].tenant
<1> USE DEF Await
<1>0. TypeOK /\ SlugUnique /\ NoOrphanResources /\ InProgress(c)
  BY DEF SerialInv, IndInv
<1>r. ASSUME Return(c) PROVE InProgress(c)'
  BY <1>0, <1>r DEF Return, Idle, TypeOK, InProgress
<1>h. ASSUME call[c].at \in Holding
      PROVE  /\ id \in Ids /\ t \in ManagedTenant
             /\ id \in DOMAIN store => t.slug = store[id].slug
  BY <1>0, <1>h, HeldRecord DEF SerialInv, TypeOK
<1>1. CASE CreateInsert(c)
  <2>1. /\ call[c].at = "create.insert" /\ call[c].at \in Holding
        /\ call[c].at \in Creating /\ ~SlugTaken(t.slug)
    BY <1>0, <1>1 DEF CreateInsert, Holding, Points, Creating, InProgress
  <2>2. id \notin DOMAIN store
    BY <2>1 DEF SerialInv, IndInv, DrawnIsFresh
  <2>3. /\ Put(id, t) /\ UNCHANGED resources
        /\ call'[c] = [at |-> "create.provision", id |-> id, tenant |-> t]
    BY <1>0, <1>1, <2>2 DEF CreateInsert, TypeOK
  <2>4. t.status = "Provisioning" /\ id \in Ids
    BY <2>1, <1>h, HeldRecord DEF SerialInv
  <2>5. /\ DOMAIN store' = DOMAIN store \cup {id} /\ store'[id] = t
        /\ \A i \in DOMAIN store : store'[i] = store[i]
    BY <2>2, <2>3 DEF Put
  <2>6. SlugUnique'
    BY <1>0, <2>1, <2>5 DEF SlugUnique, SlugTaken
  <2>7. NoOrphanResources' /\ resources[id] = "none"
    BY <1>0, <2>2, <2>3, <2>4, <2>5 DEF NoOrphanResources
  <2> QED
    BY <2>3, <2>4, <2>5, <2>6, <2>7 DEF InProgress
<1>2. CASE CreateProvision(c)
  <2>1. /\ call[c].at = "create.provision" /\ call[c].at \in Holding
        /\ UNCHANGED store /\ resources' = [resources EXCEPT ![id] = "running"]
        /\ call'[c].at = "create.write" /\ call'[c].id = id
        /\ call'[c].tenant = [t EXCEPT !.status = "Active"]
    BY <1>0, <1>2 DEF CreateProvision, Provisioned, Holding, Points, TypeOK
  <2>2. id \in DOMAIN store /\ store[id].status = "Provisioning"
    BY <1>0, <2>1 DEF InProgress
  <2>3. call'[c].tenant.status = "Active"
    BY <2>1, <1>h DEF ManagedTenant
  <2>4. NoOrphanResources'
    BY <1>0, <2>1, <2>2 DEF NoOrphanResources, TypeOK
  <2> QED
    BY <1>0, <2>1, <2>2, <2>3, <2>4 DEF SlugUnique, InProgress
<1>3. CASE CreateProvisionFails(c)
  <2>1. /\ call[c].at = "create.provision" /\ UNCHANGED <<store, resources>>
        /\ call'[c] = [at |-> "create.rollback", id |-> id, tenant |-> t]
    BY <1>0, <1>3 DEF CreateProvisionFails, TypeOK
  <2> QED
    BY <1>0, <2>1 DEF SlugUnique, NoOrphanResources, InProgress
<1>4. CASE CreateRollback(c) \/ DeleteRemove(c)
  <2>1. /\ Remove(id) /\ UNCHANGED resources /\ Return(c)
        /\ resources[id] = "none"
    BY <1>0, <1>4 DEF CreateRollback, DeleteRemove, InProgress, NoOrphanResources, TypeOK
  <2> QED
    BY <1>0, <1>r, <2>1 DEF Remove, SlugUnique, NoOrphanResources
<1>5. CASE SuspendResources(c)
  <2>1. /\ call[c].at = "suspend.provisioner" /\ call[c].at \in Holding
        /\ UNCHANGED store /\ ResourcesSuspended(id)
        /\ call'[c] = [at |-> "suspend.write", id |-> id, tenant |-> AsSuspended(t)]
    BY <1>0, <1>5 DEF SuspendResources, Holding, Points, TypeOK
  <2>2. id \in DOMAIN store /\ store[id].status # "Terminated"
    BY <1>0, <2>1 DEF InProgress
  <2>3. AsSuspended(t).status = "Suspended"
    BY <2>1, <1>h DEF ManagedTenant, AsSuspended
  <2>4. NoOrphanResources'
    BY <1>0, <2>1, <2>2 DEF NoOrphanResources, ResourcesSuspended, TypeOK
  <2> QED
    BY <1>0, <2>1, <2>2, <2>3, <2>4 DEF SlugUnique, InProgress
<1>6. CASE ActivateResources(c)
  <2>1. /\ call[c].at = "activate.provisioner" /\ call[c].at \in Holding
        /\ UNCHANGED store /\ ResourcesResumed(id)
        /\ call'[c] = [at |-> "activate.write", id |-> id, tenant |-> AsActive(t)]
    BY <1>0, <1>6 DEF ActivateResources, Holding, Points, TypeOK
  <2>2. id \in DOMAIN store /\ store[id].status # "Terminated"
    BY <1>0, <2>1 DEF InProgress
  <2>3. AsActive(t).status = "Active"
    BY <2>1, <1>h DEF ManagedTenant, AsActive
  <2>4. NoOrphanResources'
    BY <1>0, <2>1, <2>2 DEF NoOrphanResources, ResourcesResumed, TypeOK
  <2> QED
    BY <1>0, <2>1, <2>2, <2>3, <2>4 DEF SlugUnique, InProgress
<1>7. CASE TerminateMark(c)
  <2>1. /\ call[c].at = "terminate.mark" /\ call[c].at \in Holding
        /\ UNCHANGED resources /\ UpdateStored(id, t)
    BY <1>7 DEF TerminateMark, Holding, Points
  <2>2. id \in DOMAIN store /\ t.status = "Terminating"
    BY <1>0, <2>1 DEF InProgress
  <2>3. /\ DOMAIN store' = DOMAIN store /\ store'[id] = t
        /\ \A i \in DOMAIN store : i # id => store'[i] = store[i]
    BY <2>1, <2>2 DEF UpdateStored, Put
  <2>4. call'[c] = [at |-> "terminate.deprovision", id |-> id, tenant |-> t]
    BY <1>0, <1>7, <2>2 DEF TerminateMark, TypeOK
  <2>5. SlugUnique' /\ NoOrphanResources'
    BY <1>0, <1>h, <2>1, <2>2, <2>3 DEF SlugUnique, NoOrphanResources
  <2> QED
    BY <2>2, <2>3, <2>4, <2>5 DEF InProgress
<1>8. CASE TerminateDeprovision(c)
  <2>1. /\ call[c].at = "terminate.deprovision" /\ call[c].at \in Holding
        /\ UNCHANGED store /\ resources' = [resources EXCEPT ![id] = "none"]
        /\ call'[c] = [at |-> "terminate.write", id |-> id, tenant |-> AsTerminated(t)]
    BY <1>0, <1>8 DEF TerminateDeprovision, Deprovisioned, Holding, Points, TypeOK
  <2>2. id \in DOMAIN store /\ store[id].status = "Terminating" /\ id \in Ids
    BY <1>0, <2>1 DEF InProgress, TypeOK
  <2>3. AsTerminated(t).status = "Terminated"
    BY <2>1, <1>h DEF ManagedTenant, AsTerminated
  <2>4. NoOrphanResources' /\ resources'[id] = "none"
    BY <1>0, <2>1, <2>2 DEF NoOrphanResources, TypeOK
  <2> QED
    BY <1>0, <2>1, <2>2, <2>3, <2>4 DEF SlugUnique, InProgress
<1>9. CASE ProvisionerError(c)
  <2>1. UNCHANGED <<store, resources>> /\ Return(c)
    BY <1>9 DEF ProvisionerError
  <2> QED
    BY <1>0, <1>r, <2>1 DEF SlugUnique, NoOrphanResources
<1>10. CASE Write(c)
  <2>1. /\ call[c].at \in WritePoints /\ call[c].at \in Holding
        /\ UNCHANGED resources /\ UpdateStored(id, t) /\ Return(c)
    BY <1>10 DEF Write, WritePoints, Holding, Points
  <2>2. id \in DOMAIN store /\ (t.status = "Terminated" => resources[id] = "none")
    BY <1>0, <2>1 DEF InProgress, WritePoints, NoOrphanResources, TypeOK
  <2>3. /\ DOMAIN store' = DOMAIN store /\ store'[id] = t
        /\ \A i \in DOMAIN store : i # id => store'[i] = store[i]
    BY <2>1, <2>2 DEF UpdateStored, Put
  <2>4. SlugUnique' /\ NoOrphanResources'
    BY <1>0, <1>h, <2>1, <2>2, <2>3 DEF SlugUnique, NoOrphanResources
  <2> QED
    BY <1>r, <2>1, <2>4
<1> QED
  BY <1>1, <1>2, <1>3, <1>4, <1>5, <1>6, <1>7, <1>8, <1>9, <1>10 DEF Continue

\* ... and so every step: the caller that steps is the only one.
LEMMA SerialNext == Serial /\ SerialInv /\ [Next]_vars => SerialInv'
<1> SUFFICES ASSUME Serial, SerialInv, [Next]_vars PROVE SerialInv'
  OBVIOUS
<1>1. IndInv'
  BY NextInv DEF SerialInv
<1>2. ASSUME NEW c \in Callers, Invoke(c) \/ Continue(c) \/ Abort(c)
      PROVE  SlugUnique' /\ NoOrphanResources' /\ InProgress(c)'
  <2>1. CASE Abort(c)
    BY <2>1 DEF Abort, Return, Idle, SerialInv, IndInv, TypeOK, SlugUnique,
                NoOrphanResources, InProgress
  <2> QED
    BY <1>2, <2>1, SerialInvoke, SerialContinue
<1>3. CASE UNCHANGED vars
  <2>1. SlugUnique' /\ NoOrphanResources'
    BY <1>3 DEF vars, SerialInv, SlugUnique, NoOrphanResources
  <2>2. \A c \in Callers : InProgress(c)'
    BY <1>3 DEF vars, SerialInv, InProgress, SlugTaken
  <2> QED
    BY <1>1, <2>1, <2>2 DEF SerialInv
<1>4. CASE Next
  <2>1. PICK c \in Callers : Invoke(c) \/ Continue(c) \/ Abort(c)
    BY <1>4 DEF Next
  <2>2. \A d \in Callers : d = c
    BY DEF Serial
  <2> QED
    BY <1>1, <1>2, <2>1, <2>2 DEF SerialInv
<1> QED
  BY <1>3, <1>4

\* It holds of the empty store.
LEMMA SerialInit == Init => SerialInv
<1> SUFFICES ASSUME Init PROVE SerialInv
  OBVIOUS
<1>1. IndInv
  BY InitInv
<1>2. DOMAIN store = {} /\ \A id \in Ids : resources[id] = "none"
  BY DEF Init
<1>3. \A c \in Callers : call[c].at = "idle"
  BY DEF Init, Idle
<1> QED
  BY <1>1, <1>2, <1>3 DEF SerialInv, SlugUnique, NoOrphanResources, InProgress

\* So it holds in every state as long as calls do not overlap.
THEOREM SerialInvariance ==
    ASSUME Serial
    PROVE  Spec => []SerialInv
<1>1. Init => SerialInv
  BY SerialInit
<1>2. SerialInv /\ [Next]_vars => SerialInv'
  BY SerialNext
<1> QED
  BY <1>1, <1>2, PTL DEF Spec

\* When calls do not overlap no two tenants have the same slug.
THEOREM SerialSlugs ==
    ASSUME Serial
    PROVE  Spec => []SlugUnique
<1>1. SerialInv => SlugUnique
  BY DEF SerialInv
<1> QED
  BY <1>1, SerialInvariance, PTL

\* When calls do not overlap nothing is kept running for a tenant that is
\* terminated or not there, wherever calls fail or are cut short.
THEOREM SerialResources ==
    ASSUME Serial
    PROVE  Spec => []NoOrphanResources
<1>1. SerialInv => NoOrphanResources
  BY DEF SerialInv
<1> QED
  BY <1>1, SerialInvariance, PTL

\* In particular none is left of a tenant that was terminated or deleted; what
\* leaves some is a terminate that overlaps the create.
THEOREM SerialDeprovisions ==
    ASSUME Serial
    PROVE  Spec => []TerminationDeprovisions
<1>1. NoOrphanResources => TerminationDeprovisions
  BY DEF NoOrphanResources, TerminationDeprovisions
<1> QED
  BY <1>1, SerialResources, PTL

\* No write-back changes the status of a terminated tenant.
LEMMA TerminatedStays ==
    ASSUME SerialInv, [Next]_vars,
           NEW id \in DOMAIN store \cap DOMAIN store', store[id].status = "Terminated"
    PROVE  store'[id].status = "Terminated"
<1>0. TypeOK /\ store[id] \in ManagedTenant /\ \A c \in Callers : InProgress(c)
  BY DEF SerialInv, IndInv, TypeOK
<1>1. CASE UNCHANGED store
  BY <1>1
<1>2. ASSUME NEW c \in Callers, NEW i \in Ids, NEW usage \in Usages,
             UpdateUsage(c, i, usage)
      PROVE  store'[id].status = "Terminated"
  <2>1. store'[id] = IF id = i THEN [store[id] EXCEPT !.usage = usage] ELSE store[id]
    BY <1>2 DEF UpdateUsage, Put
  <2> QED
    BY <1>0, <2>1 DEF ManagedTenant
<1>3. ASSUME NEW c \in Callers, CreateInsert(c)
      PROVE  store'[id].status = "Terminated"
  BY <1>3 DEF CreateInsert, Put
<1>4. ASSUME NEW c \in Callers, CreateRollback(c) \/ DeleteRemove(c)
      PROVE  store'[id].status = "Terminated"
  BY <1>4 DEF CreateRollback, DeleteRemove, Remove
<1>5. ASSUME NEW c \in Callers, TerminateMark(c) \/ Write(c)
      PROVE  store'[id].status = "Terminated"
  <2>1. /\ UpdateStored(call[c].id, call[c].tenant)
        /\ call[c].at \in WritePoints \cup {"terminate.mark"}
    BY <1>5 DEF TerminateMark, Write
  <2>2. store'[id] = IF id = call[c].id THEN call[c].tenant ELSE store[id]
    BY <2>1 DEF UpdateStored, Put
  <2>3. id = call[c].id => call[c].at = "update.write"
    BY <1>0, <2>1 DEF InProgress, WritePoints
  <2>4. id = call[c].id => call[c].tenant.status = store[id].status
    BY <1>0, <2>3 DEF InProgress
  <2> QED
    BY <2>2, <2>4
<1> QED
  BY <1>1, <1>2, <1>3, <1>4, <1>5
     DEF Next, Invoke, Continue, Abort, ReadOnly, vars, CreateCheck, UpdateGet,
         SuspendGet, ActivateGet, GetUnlessTerminated, TerminateGet, DeleteGet,
         CreateProvision, CreateProvisionFails, SuspendResources, ActivateResources,
         TerminateDeprovision, ProvisionerError

\* When calls do not overlap a terminated tenant stays Terminated until it is
\* deleted; what revives one is a record read before it was terminated.
THEOREM SerialTermination ==
    ASSUME Serial
    PROVE  Spec => TerminatedIsFinal
<1>1. SerialInv /\ [Next]_vars =>
        \A id \in DOMAIN store \cap DOMAIN store' :
            store[id].status = "Terminated" => store'[id].status = "Terminated"
  BY TerminatedStays
<1> QED
  BY <1>1, SerialInvariance, PTL DEF Spec, TerminatedIsFinal

-----------------------------------------------------------------------------
(* The life cycle, step by step.                                           *)

\* A step that leaves the store alone and takes no call to or from the
\* insertion of its record is not seen.
LEMMA Unseen ==
    ASSUME UNCHANGED <<store, issued>>,
           \A c \in Callers :
               \/ call'[c] = call[c]
               \/ call[c].at # "create.insert" /\ call'[c].at # "create.insert"
    PROVE  UNCHANGED <<PhaseOf, SlugOf>>
<1>1. \A id \in Ids : Unborn(id)' <=> Unborn(id)
  BY DEF Unborn
<1> QED
  BY <1>1 DEF PhaseOf, SlugOf

\* A record that is replaced by one with the same slug: its phase changes.
LEMMA Rewritten ==
    ASSUME TypeOK, NEW id \in DOMAIN store, NEW t \in ManagedTenant, Put(id, t),
           t.slug = store[id].slug, UNCHANGED issued,
           \A c \in Callers : call[c].at # "create.insert" /\ call'[c].at # "create.insert"
    PROVE  /\ id \in Ids /\ PhaseOf[id] = store[id].status
           /\ PhaseOf' = [PhaseOf EXCEPT ![id] = t.status]
           /\ UNCHANGED SlugOf
<1>1. /\ id \in Ids /\ DOMAIN store' = DOMAIN store /\ store'[id] = t
      /\ \A i \in DOMAIN store : i # id => store'[i] = store[i]
  BY DEF Put, TypeOK
<1>2. \A i \in Ids : Unborn(i)' <=> Unborn(i)
  BY DEF Unborn
<1> QED
  BY <1>1, <1>2 DEF PhaseOf, SlugOf

\* A record that is removed: its tenant is gone.
LEMMA Removed ==
    ASSUME TypeOK, NEW id \in DOMAIN store, id \in issued, Remove(id), UNCHANGED issued,
           \A c \in Callers : call[c].at # "create.insert" /\ call'[c].at # "create.insert"
    PROVE  /\ id \in Ids /\ PhaseOf[id] = store[id].status
           /\ PhaseOf' = [PhaseOf EXCEPT ![id] = "Gone"]
           /\ SlugOf' = [SlugOf EXCEPT ![id] = None]
<1>1. /\ id \in Ids /\ DOMAIN store' = DOMAIN store \ {id}
      /\ \A i \in DOMAIN store : i # id => store'[i] = store[i]
  BY DEF Remove, TypeOK
<1>2. \A i \in Ids : Unborn(i)' <=> Unborn(i)
  BY DEF Unborn
<1>3. ~Unborn(id)
  BY DEF Unborn
<1> QED
  BY <1>1, <1>2, <1>3 DEF PhaseOf, SlugOf

\* At first every tenant is unborn.
LEMMA LifecycleInit == Init => Lifecycle!Init
BY DEF Init, Lifecycle!Init, PhaseOf, SlugOf, Unborn

\* Every step of the manager is a step of the life cycle or is not seen.
LEMMA LifecycleStep ==
    ASSUME Serial, SerialInv, [Next]_vars
    PROVE  [Lifecycle!Next]_(Lifecycle!vars)
<1> USE DEF Await, Lifecycle!vars
<1>0. TypeOK /\ \A c \in Callers : InProgress(c)
  BY DEF SerialInv, IndInv
<1>1. CASE UNCHANGED vars
  BY <1>1, Unseen DEF vars
<1>2. ASSUME NEW c \in Callers, Invoke(c)
      PROVE  [Lifecycle!Next]_(Lifecycle!vars)
  <2>1. ASSUME NEW req \in CreateRequests, CreateCheck(c, req)
        PROVE  UNCHANGED <<PhaseOf, SlugOf>>
    <3>1. PICK id \in Ids \ issued :
            /\ issued' = issued \cup {id} /\ UNCHANGED store
            /\ call'[c].at = "create.insert" /\ call'[c].id = id
      BY <1>0, <2>1 DEF CreateCheck, TypeOK
    <3>2. call[c].at = "idle" /\ \A d \in Callers : d = c
      BY <2>1 DEF CreateCheck, Serial
    <3>3. \A i \in Ids : Unborn(i)' <=> Unborn(i)
      BY <3>1, <3>2 DEF Unborn
    <3> QED
      BY <3>1, <3>3 DEF PhaseOf, SlugOf
  <2>2. ASSUME NEW id \in Ids, NEW usage \in Usages, UpdateUsage(c, id, usage)
        PROVE  UNCHANGED <<PhaseOf, SlugOf>>
    <3>1. /\ id \in DOMAIN store /\ UNCHANGED <<issued, call>>
          /\ DOMAIN store' = DOMAIN store
          /\ \A i \in DOMAIN store : /\ store'[i].slug = store[i].slug
                                     /\ store'[i].status = store[i].status
      BY <1>0, <2>2 DEF UpdateUsage, Put, TypeOK, ManagedTenant
    <3>2. \A i \in Ids : Unborn(i)' <=> Unborn(i)
      BY <3>1 DEF Unborn
    <3> QED
      BY <3>1, <3>2 DEF PhaseOf, SlugOf
  <2>3. CASE \/ \E id \in Ids, req \in UpdateRequests : UpdateGet(c, id, req)
             \/ \E id \in Ids : SuspendGet(c, id) \/ ActivateGet(c, id)
                                  \/ TerminateGet(c, id) \/ DeleteGet(c, id)
    <3>1. /\ UNCHANGED <<store, issued>>
          /\ call[c].at # "create.insert" /\ call'[c].at # "create.insert"
      BY <1>0, <2>3 DEF UpdateGet, SuspendGet, ActivateGet, GetUnlessTerminated,
                        TerminateGet, DeleteGet, TypeOK
    <3>2. \A d \in Callers : d = c
      BY DEF Serial
    <3> QED
      BY <3>1, <3>2, Unseen
  <2>4. CASE ReadOnly(c)
    BY <2>4, Unseen DEF ReadOnly, vars
  <2> QED
    BY <1>2, <2>1, <2>2, <2>3, <2>4 DEF Invoke
<1>3. ASSUME NEW c \in Callers, Continue(c)
      PROVE  [Lifecycle!Next]_(Lifecycle!vars)
  <2> DEFINE id == call[c].id
             t == call[c].tenant
  <2>a. \A d \in Callers : d = c
    BY DEF Serial
  <2>b. InProgress(c)
    BY <1>0
  <2>h. ASSUME call[c].at \in Holding
        PROVE  /\ id \in issued /\ id \in Ids /\ t \in ManagedTenant
               /\ id \in DOMAIN store => t.slug = store[id].slug
    BY <1>0, <2>h, HeldRecord DEF SerialInv, TypeOK
  <2>1. CASE CreateInsert(c)
    <3>1. /\ call[c].at = "create.insert" /\ call[c].at \in Holding
          /\ call[c].at \in Creating /\ ~SlugTaken(t.slug)
      BY <2>1, <2>b DEF CreateInsert, Holding, Points, Creating, InProgress
    <3>2. id \notin DOMAIN store /\ id \in Ids /\ t.slug \in Slugs /\ t.status = "Provisioning"
      BY <3>1, <2>h, HeldRecord DEF SerialInv, IndInv, DrawnIsFresh, ManagedTenant
    <3>3. /\ Put(id, t) /\ UNCHANGED issued /\ call'[c].at = "create.provision"
      BY <1>0, <2>1, <3>2 DEF CreateInsert, TypeOK
    <3>4. /\ DOMAIN store' = DOMAIN store \cup {id} /\ store'[id] = t
          /\ \A i \in DOMAIN store : store'[i] = store[i]
      BY <3>2, <3>3 DEF Put
    <3>5. /\ \A i \in Ids : Unborn(i) <=> i \notin issued \/ i = id
          /\ \A i \in Ids : Unborn(i)' <=> i \notin issued
      BY <2>a, <3>1, <3>3 DEF Unborn
    <3>6. PhaseOf[id] = "Unborn" /\ PhaseOf' = [PhaseOf EXCEPT ![id] = "Provisioning"]
      BY <3>2, <3>4, <3>5 DEF PhaseOf
    <3>7. SlugOf' = [SlugOf EXCEPT ![id] = t.slug]
      BY <3>2, <3>4 DEF SlugOf
    <3>8. \A other \in Ids : SlugOf[other] # t.slug
      BY <3>1, <3>2, NoneAssumption DEF SlugOf, SlugTaken
    <3> QED
      BY <3>2, <3>6, <3>7, <3>8 DEF Lifecycle!Next, Lifecycle!Register
  <2>2. CASE CreateRollback(c)
    <3>1. /\ id \in DOMAIN store /\ store[id].status = "Provisioning" /\ id \in issued
          /\ Remove(id) /\ UNCHANGED issued
          /\ call[c].at # "create.insert" /\ call'[c].at # "create.insert"
      BY <1>0, <2>2, <2>b, <2>h DEF CreateRollback, InProgress, Holding, Points, Return,
                                    Idle, TypeOK
    <3>2. /\ id \in Ids /\ PhaseOf[id] = "Provisioning"
          /\ PhaseOf' = [PhaseOf EXCEPT ![id] = "Gone"]
          /\ SlugOf' = [SlugOf EXCEPT ![id] = None]
      BY <1>0, <2>a, <3>1, Removed
    <3> QED
      BY <3>2 DEF Lifecycle!Next, Lifecycle!Cancel, Lifecycle!Leave
  <2>3. CASE DeleteRemove(c)
    <3>1. /\ id \in DOMAIN store /\ store[id].status = "Terminated" /\ id \in issued
          /\ Remove(id) /\ UNCHANGED issued
          /\ call[c].at # "create.insert" /\ call'[c].at # "create.insert"
      BY <1>0, <2>3, <2>b DEF DeleteRemove, InProgress, Return, Idle, TypeOK, SerialInv,
                              IndInv
    <3>2. /\ id \in Ids /\ PhaseOf[id] = "Terminated"
          /\ PhaseOf' = [PhaseOf EXCEPT ![id] = "Gone"]
          /\ SlugOf' = [SlugOf EXCEPT ![id] = None]
      BY <1>0, <2>a, <3>1, Removed
    <3> QED
      BY <3>2 DEF Lifecycle!Next, Lifecycle!Delete, Lifecycle!Leave
  <2>4. CASE \/ CreateProvision(c) \/ CreateProvisionFails(c) \/ SuspendResources(c)
             \/ ActivateResources(c) \/ TerminateDeprovision(c) \/ ProvisionerError(c)
    <3>1. /\ UNCHANGED <<store, issued>>
          /\ call[c].at # "create.insert" /\ call'[c].at # "create.insert"
      BY <1>0, <2>4 DEF CreateProvision, CreateProvisionFails, SuspendResources, Return,
         Idle, ActivateResources, TerminateDeprovision, ProvisionerError, TypeOK
    <3> QED
      BY <2>a, <3>1, Unseen
  <2>5. CASE TerminateMark(c) \/ Write(c)
    <3>1. /\ call[c].at \in WritePoints \cup {"terminate.mark"} /\ call[c].at \in Holding
          /\ UpdateStored(id, t) /\ UNCHANGED issued
      BY <2>5 DEF TerminateMark, Write, WritePoints, Holding, Points
    <3>2. id \in DOMAIN store /\ call[c].at # "create.insert"
      BY <2>b, <3>1 DEF InProgress, WritePoints
    <3>3. call'[c].at # "create.insert" /\ Put(id, t)
      BY <1>0, <2>5, <3>1, <3>2 DEF TerminateMark, Write, Return, Idle, TypeOK, UpdateStored
    <3>4. /\ id \in Ids /\ PhaseOf[id] = store[id].status
          /\ PhaseOf' = [PhaseOf EXCEPT ![id] = t.status]
          /\ UNCHANGED SlugOf
      BY <1>0, <2>a, <2>h, <3>1, <3>2, <3>3, Rewritten
    <3>5. store[id].status \in TenantStatus /\ TenantStatus = Lifecycle!Registered
      BY <1>0, <3>2 DEF TypeOK, ManagedTenant, TenantStatus, Lifecycle!Registered
    <3>6. CASE call[c].at = "update.write"
      <4>1. PhaseOf' = PhaseOf
        BY <2>b, <3>4, <3>6 DEF InProgress, PhaseOf
      <4> QED
        BY <3>4, <4>1
    <3>7. CASE call[c].at \in {"create.write", "activate.write"}
      <4>1. store[id].status # "Terminated" /\ t.status = "Active"
        BY <2>b, <3>7 DEF InProgress
      <4> QED
        BY <3>4, <3>5, <4>1 DEF Lifecycle!Next, Lifecycle!Activate, Lifecycle!Move
    <3>8. CASE call[c].at = "suspend.write"
      <4>1. store[id].status # "Terminated" /\ t.status = "Suspended"
        BY <2>b, <3>8 DEF InProgress
      <4> QED
        BY <3>4, <3>5, <4>1 DEF Lifecycle!Next, Lifecycle!Suspend, Lifecycle!Move
    <3>9. CASE call[c].at = "terminate.mark"
      <4>1. store[id].status # "Terminated" /\ t.status = "Terminating"
        BY <2>b, <3>9 DEF InProgress
      <4> QED
        BY <3>4, <3>5, <4>1 DEF Lifecycle!Next, Lifecycle!BeginTermination, Lifecycle!Move
    <3>10. CASE call[c].at = "terminate.write"
      <4>1. store[id].status = "Terminating" /\ t.status = "Terminated"
        BY <2>b, <3>10 DEF InProgress
      <4> QED
        BY <3>4, <4>1 DEF Lifecycle!Next, Lifecycle!Terminate, Lifecycle!Move
    <3> QED
      BY <3>1, <3>6, <3>7, <3>8, <3>9, <3>10 DEF WritePoints
  <2> QED
    BY <1>3, <2>1, <2>2, <2>3, <2>4, <2>5 DEF Continue
<1>4. ASSUME NEW c \in Callers, Abort(c)
      PROVE  [Lifecycle!Next]_(Lifecycle!vars)
  <2> DEFINE id == call[c].id
  <2>1. /\ UNCHANGED <<store, issued>> /\ call'[c].at = "idle"
        /\ \A d \in Callers : d = c
    BY <1>0, <1>4 DEF Abort, Return, Idle, TypeOK, Serial
  <2>2. CASE call[c].at # "create.insert"
    BY <2>1, <2>2, Unseen
  <2>3. CASE call[c].at = "create.insert"
    <3>1. id \in Ids /\ id \in issued /\ id \notin DOMAIN store
      BY <1>0, <2>3 DEF SerialInv, IndInv, CallShape, DrawnIsFresh, TypeOK
    <3>2. /\ \A i \in Ids : Unborn(i) <=> i \notin issued \/ i = id
          /\ \A i \in Ids : Unborn(i)' <=> i \notin issued
      BY <2>1, <2>3 DEF Unborn
    <3>3. PhaseOf[id] = "Unborn" /\ PhaseOf' = [PhaseOf EXCEPT ![id] = "Gone"]
      BY <2>1, <3>1, <3>2 DEF PhaseOf
    <3>4. SlugOf' = [SlugOf EXCEPT ![id] = None]
      BY <2>1, <3>1 DEF SlugOf
    <3> QED
      BY <3>1, <3>3, <3>4 DEF Lifecycle!Next, Lifecycle!Discard, Lifecycle!Leave
  <2> QED
    BY <2>2, <2>3
<1> QED
  BY <1>1, <1>2, <1>3, <1>4 DEF Next

\* When calls do not overlap the manager implements the abstract life cycle, for
\* any number of tenants, wherever calls fail or are cut short.
THEOREM SerialImplementsLifecycle ==
    ASSUME Serial
    PROVE  Spec => ImplementsLifecycle
<1>1. Init => Lifecycle!Init
  BY LifecycleInit
<1>2. SerialInv /\ [Next]_vars => [Lifecycle!Next]_(Lifecycle!vars)
  BY LifecycleStep
<1> QED
  BY <1>1, <1>2, SerialInvariance, PTL DEF Spec, ImplementsLifecycle, Lifecycle!Spec

-----------------------------------------------------------------------------
(* Records are never stale.                                                *)

\* The record create writes once the tenant is provisioned.
AsProvisioned(t) == [t EXCEPT !.status = "Active"]

\* How the record a call holds comes from the one that is stored.
Derived(c) ==
    LET at == call[c].at
        old == store[call[c].id]
        t == call[c].tenant IN
    /\ at \in {"create.provision", "create.rollback", "suspend.provisioner",
               "activate.provisioner", "terminate.deprovision"} => t = old
    /\ at = "create.write" => t = AsProvisioned(old)
    /\ at = "update.write" => \E req \in UpdateRequests : t = ApplyUpdate(old, req)
    /\ at = "suspend.write" => t = AsSuspended(old)
    /\ at = "activate.write" => t = AsActive(old)
    /\ at = "terminate.mark" => t = AsTerminating(old)
    /\ at = "terminate.write" => t = AsTerminated(old)

\* The invariant: WritesTouchOwnFields follows from it, for the step that writes.
FreshInv ==
    /\ SerialInv
    /\ \A c \in Callers : Derived(c)

\* A call that begins reads the record that is stored.
LEMMA DerivedInvoke ==
    ASSUME SerialInv, NEW c \in Callers, Derived(c), Invoke(c)
    PROVE  Derived(c)'
<1>0. TypeOK
  BY DEF SerialInv, IndInv
<1>1. ASSUME NEW req \in CreateRequests, CreateCheck(c, req) PROVE Derived(c)'
  BY <1>0, <1>1 DEF CreateCheck, Await, TypeOK, Derived
<1>2. ASSUME NEW id \in Ids, NEW req \in UpdateRequests, UpdateGet(c, id, req)
      PROVE  Derived(c)'
  <2>1. /\ UNCHANGED store
        /\ call'[c] = [at |-> "update.write", id |-> id,
                       tenant |-> ApplyUpdate(store[id], req)]
    BY <1>0, <1>2 DEF UpdateGet, Await, TypeOK
  <2> QED
    BY <2>1 DEF Derived
<1>3. ASSUME NEW id \in Ids, NEW usage \in Usages, UpdateUsage(c, id, usage)
      PROVE  Derived(c)'
  BY <1>3 DEF UpdateUsage, Derived
<1>4. ASSUME NEW id \in Ids, SuspendGet(c, id) \/ ActivateGet(c, id) PROVE Derived(c)'
  <2>1. PICK at \in {"suspend.provisioner", "activate.provisioner"} :
          GetUnlessTerminated(c, id, at)
    BY <1>4 DEF SuspendGet, ActivateGet
  <2>2. UNCHANGED store /\ call'[c] = [at |-> at, id |-> id, tenant |-> store[id]]
    BY <1>0, <2>1 DEF GetUnlessTerminated, Await, TypeOK
  <2> QED
    BY <2>2 DEF Derived
<1>5. ASSUME NEW id \in Ids, TerminateGet(c, id) PROVE Derived(c)'
  <2>1. /\ UNCHANGED store
        /\ call'[c] = [at |-> "terminate.mark", id |-> id,
                       tenant |-> AsTerminating(store[id])]
    BY <1>0, <1>5 DEF TerminateGet, Await, TypeOK
  <2> QED
    BY <2>1 DEF Derived
<1>6. ASSUME NEW id \in Ids, DeleteGet(c, id) PROVE Derived(c)'
  BY <1>0, <1>6 DEF DeleteGet, Await, TypeOK, Derived
<1>7. CASE ReadOnly(c)
  BY <1>7 DEF ReadOnly, vars, Derived
<1> QED
  BY <1>1, <1>2, <1>3, <1>4, <1>5, <1>6, <1>7 DEF Invoke

\* A call in progress keeps what it has read, or what it has stored.
LEMMA DerivedContinue ==
    ASSUME SerialInv, NEW c \in Callers, Derived(c), Continue(c)
    PROVE  Derived(c)'
<1> DEFINE id == call[c].id
           t == call[c].tenant
<1>0. TypeOK /\ InProgress(c)
  BY DEF SerialInv, IndInv
<1>r. ASSUME Return(c) PROVE Derived(c)'
  BY <1>0, <1>r DEF Return, Idle, TypeOK, Derived
<1>1. CASE CreateInsert(c)
  <2>1. call[c].at = "create.insert" /\ id \notin DOMAIN store
    BY <1>1 DEF CreateInsert, SerialInv, IndInv, DrawnIsFresh
  <2>2. store'[id] = t /\ call'[c] = [at |-> "create.provision", id |-> id, tenant |-> t]
    BY <1>0, <1>1, <2>1 DEF CreateInsert, Put, Await, TypeOK
  <2> QED
    BY <2>2 DEF Derived
<1>2. CASE CreateProvision(c)
  <2>1. /\ UNCHANGED store /\ t = store[id]
        /\ call'[c] = [at |-> "create.write", id |-> id,
                       tenant |-> AsProvisioned(t)]
    BY <1>0, <1>2 DEF CreateProvision, AsProvisioned, Await, TypeOK, Derived
  <2> QED
    BY <2>1 DEF Derived
<1>3. CASE CreateProvisionFails(c)
  BY <1>0, <1>3 DEF CreateProvisionFails, Await, TypeOK, Derived
<1>4. CASE CreateRollback(c) \/ DeleteRemove(c) \/ ProvisionerError(c) \/ Write(c)
  BY <1>4, <1>r DEF CreateRollback, DeleteRemove, ProvisionerError, Write
<1>5. CASE SuspendResources(c)
  <2>1. /\ UNCHANGED store /\ t = store[id]
        /\ call'[c] = [at |-> "suspend.write", id |-> id, tenant |-> AsSuspended(t)]
    BY <1>0, <1>5 DEF SuspendResources, Await, TypeOK, Derived
  <2> QED
    BY <2>1 DEF Derived
<1>6. CASE ActivateResources(c)
  <2>1. /\ UNCHANGED store /\ t = store[id]
        /\ call'[c] = [at |-> "activate.write", id |-> id, tenant |-> AsActive(t)]
    BY <1>0, <1>6 DEF ActivateResources, Await, TypeOK, Derived
  <2> QED
    BY <2>1 DEF Derived
<1>7. CASE TerminateMark(c)
  <2>1. id \in DOMAIN store
    BY <1>0, <1>7 DEF TerminateMark, InProgress
  <2>2. /\ store'[id] = t
        /\ call'[c] = [at |-> "terminate.deprovision", id |-> id, tenant |-> t]
    BY <1>0, <1>7, <2>1 DEF TerminateMark, UpdateStored, Put, Await, TypeOK
  <2> QED
    BY <2>2 DEF Derived
<1>8. CASE TerminateDeprovision(c)
  <2>1. /\ UNCHANGED store /\ t = store[id]
        /\ call'[c] = [at |-> "terminate.write", id |-> id, tenant |-> AsTerminated(t)]
    BY <1>0, <1>8 DEF TerminateDeprovision, Await, TypeOK, Derived
  <2> QED
    BY <2>1 DEF Derived
<1> QED
  BY <1>1, <1>2, <1>3, <1>4, <1>5, <1>6, <1>7, <1>8 DEF Continue

\* The caller that steps is the only one, so every step keeps the invariant.
LEMMA FreshNext == Serial /\ FreshInv /\ [Next]_vars => FreshInv'
<1> SUFFICES ASSUME Serial, FreshInv, [Next]_vars PROVE FreshInv'
  OBVIOUS
<1>1. SerialInv /\ SerialInv'
  BY SerialNext DEF FreshInv
<1>2. ASSUME NEW c \in Callers, Invoke(c) \/ Continue(c) \/ Abort(c)
      PROVE  Derived(c)'
  <2>1. Derived(c)
    BY DEF FreshInv
  <2>2. CASE Abort(c)
    BY <1>1, <2>2 DEF Abort, Return, Idle, SerialInv, IndInv, TypeOK, Derived
  <2> QED
    BY <1>1, <1>2, <2>1, <2>2, DerivedInvoke, DerivedContinue
<1>3. CASE UNCHANGED vars
  <2>1. ASSUME NEW c \in Callers PROVE Derived(c)'
    <3>1. Derived(c)
      BY DEF FreshInv
    <3> QED
      BY <1>3, <3>1 DEF vars, Derived
  <2> QED
    BY <1>1, <2>1 DEF FreshInv
<1>4. CASE Next
  <2>1. PICK c \in Callers : Invoke(c) \/ Continue(c) \/ Abort(c)
    BY <1>4 DEF Next
  <2>2. \A d \in Callers : d = c
    BY DEF Serial
  <2> QED
    BY <1>1, <1>2, <2>1, <2>2 DEF FreshInv
<1> QED
  BY <1>3, <1>4

\* An update changes nothing but the profile, the plan and the limits.
LEMMA UpdateOwn ==
    ASSUME NEW t \in ManagedTenant, NEW req \in UpdateRequests
    PROVE  UpdatesProfile(t, ApplyUpdate(t, req))
<1> DEFINE u == ApplyUpdate(t, req)
<1>1. /\ u.metadata = IF req.metadata = None THEN t.metadata
                                             ELSE Extend(t.metadata, req.metadata)
      /\ u.display_name = IF req.display_name = None THEN t.display_name
                                                     ELSE req.display_name
  BY DEF ApplyUpdate, ManagedTenant
<1>2. u = [t EXCEPT !.display_name = u.display_name, !.domain = u.domain,
                    !.metadata = u.metadata, !.plan = u.plan, !.limits = u.limits]
  <2> DEFINE Changed(n, d, m, p, l) ==
               [t EXCEPT !.display_name = n, !.domain = d, !.metadata = m, !.plan = p,
                         !.limits = l]
  <2> DEFINE name == IF req.display_name = None THEN t.display_name ELSE req.display_name
             domain == IF req.domain = None THEN t.domain ELSE req.domain.to
             metadata == IF req.metadata = None THEN t.metadata
                                                ELSE Extend(t.metadata, req.metadata)
             plan == IF req.plan = None THEN t.plan ELSE req.plan
             limits == UpdatedLimits(t, req)
  <2>1. u = Changed(name, domain, metadata, plan, limits)
    BY DEF ApplyUpdate
  <2> HIDE DEF u, name, domain, metadata, plan, limits
  <2>2. /\ u.display_name = name /\ u.domain = domain /\ u.metadata = metadata
        /\ u.plan = plan /\ u.limits = limits
    BY <2>1 DEF ManagedTenant
  <2> QED BY <2>1, <2>2
<1>3. DOMAIN t.metadata \subseteq DOMAIN u.metadata
  BY <1>1 DEF Extend
<1> QED
  BY <1>1, <1>2, <1>3 DEF UpdatesProfile

\* The life-cycle methods change nothing but status, active flag and reason.
LEMMA LifecycleOwn ==
    ASSUME NEW t \in ManagedTenant,
           NEW u \in {AsProvisioned(t), AsSuspended(t), AsActive(t),
                      AsTerminating(t), AsTerminated(t)}
    PROVE  UpdatesStatus(t, u)
BY DEF AsProvisioned, AsSuspended, AsActive, AsTerminating, AsTerminated,
       ManagedTenant, UpdatesStatus

\* So a call that writes its record back over the stored one changes its own fields.
LEMMA WritesNext == FreshInv /\ [Next]_vars => WritesStep
<1> SUFFICES ASSUME FreshInv, [Next]_vars PROVE WritesStep
  OBVIOUS
<1>0. TypeOK /\ \A c \in Callers : Derived(c)
  BY DEF FreshInv, SerialInv, IndInv
<1>1. CASE UNCHANGED store
  BY <1>1 DEF WritesStep
<1>2. ASSUME NEW c \in Callers, NEW id \in Ids, NEW usage \in Usages,
             UpdateUsage(c, id, usage)
      PROVE  WritesStep
  <2>1. /\ UNCHANGED call
        /\ store'[id] = [store[id] EXCEPT !.usage = usage]
        /\ \A i \in DOMAIN store \ {id} : store'[i] = store[i]
    BY <1>2 DEF UpdateUsage, Put
  <2>2. \A i \in DOMAIN store : store[i] \in ManagedTenant
    BY <1>0 DEF TypeOK
  <2>3. id \in DOMAIN store /\ [store[id] EXCEPT !.usage = usage].usage = usage
    BY <1>2, <2>2 DEF UpdateUsage, ManagedTenant
  <2>4. ReportsUsage(store[id], store'[id])
    BY <2>1, <2>3 DEF ReportsUsage
  <2> QED
    BY <2>1, <2>4 DEF WritesStep
<1>3. ASSUME NEW c \in Callers, CreateInsert(c) PROVE WritesStep
  <2>1. \A i \in DOMAIN store : store'[i] = store[i]
    BY <1>3 DEF CreateInsert, Put
  <2> QED
    BY <2>1 DEF WritesStep
<1>4. ASSUME NEW c \in Callers, CreateRollback(c) \/ DeleteRemove(c) PROVE WritesStep
  BY <1>4 DEF CreateRollback, DeleteRemove, Remove, WritesStep
<1>5. ASSUME NEW c \in Callers, TerminateMark(c) \/ Write(c) PROVE WritesStep
  <2> DEFINE id == call[c].id
             t == call[c].tenant
  <2>1. UpdateStored(id, t) /\ call[c].at \in WritePoints \cup {"terminate.mark"}
    BY <1>5 DEF TerminateMark, Write
  <2>2. CASE id \notin DOMAIN store
    BY <1>1, <2>1, <2>2 DEF UpdateStored
  <2>3. CASE id \in DOMAIN store
    <3>1. store'[id] = t /\ \A i \in DOMAIN store \ {id} : store'[i] = store[i]
      BY <2>1, <2>3 DEF UpdateStored, Put
    <3>2. store[id] \in ManagedTenant
      BY <1>0, <2>3 DEF TypeOK
    <3>3. CASE call[c].at = "update.write"
      <4>1. PICK req \in UpdateRequests : t = ApplyUpdate(store[id], req)
        BY <1>0, <3>3 DEF Derived
      <4>2. UpdatesProfile(store[id], t)
        BY <3>2, <4>1, UpdateOwn
      <4> QED
        BY <3>1, <3>3, <4>2 DEF WritesStep
    <3>4. CASE call[c].at # "update.write"
      <4>1. t \in {AsProvisioned(store[id]), AsSuspended(store[id]),
                   AsActive(store[id]), AsTerminating(store[id]),
                   AsTerminated(store[id])}
        BY <1>0, <2>1, <3>4 DEF Derived, WritePoints
      <4>2. UpdatesStatus(store[id], t)
        BY <3>2, <4>1, LifecycleOwn
      <4> QED
        BY <3>1, <3>4, <4>2 DEF WritesStep
    <3> QED
      BY <3>3, <3>4
  <2> QED
    BY <2>2, <2>3
<1> QED
  BY <1>1, <1>2, <1>3, <1>4, <1>5
     DEF Next, Invoke, Continue, Abort, ReadOnly, vars, CreateCheck, UpdateGet,
         SuspendGet, ActivateGet, GetUnlessTerminated, TerminateGet, DeleteGet,
         CreateProvision, CreateProvisionFails, SuspendResources, ActivateResources,
         TerminateDeprovision, ProvisionerError

\* When calls do not overlap each of them writes the fields it is about and no
\* others, for any requests, wherever calls fail or are cut short.
THEOREM SerialWrites ==
    ASSUME Serial
    PROVE  Spec => WritesTouchOwnFields
<1>1. Init => FreshInv
  BY SerialInit DEF Init, Idle, FreshInv, Derived
<1>2. FreshInv /\ [Next]_vars => FreshInv' /\ WritesStep
  BY FreshNext, WritesNext
<1> QED
  BY <1>1, <1>2, PTL DEF Spec, WritesTouchOwnFields

-----------------------------------------------------------------------------
(* Resources.                                                              *)

\* What the provisioner keeps for the tenant of a call in progress.
ResourcesHeld(c) ==
    LET at == call[c].at
        id == call[c].id IN
    /\ at = "idle" => id = None
    /\ at \in {"suspend.provisioner", "activate.provisioner", "update.write",
               "terminate.mark"} => resources[id] \in Kept[store[id].status]
    /\ at \in {"create.write", "activate.write"} => resources[id] = "running"
    /\ at = "suspend.write" => resources[id] = "suspended"
    /\ at = "terminate.deprovision" => resources[id] \in {"running", "suspended"}

\* The invariant: ResourcesFollowStatus speaks of tenants at rest only.
KeptInv ==
    /\ SerialInv
    /\ ResourcesFollowStatus
    /\ \A c \in Callers : ResourcesHeld(c)

\* With one caller a tenant is at rest unless that caller works on it.
LEMMA OneCaller ==
    ASSUME Serial, NEW c \in Callers
    PROVE  \A id : /\ AtRest(id) <=> call[c].id # id
                   /\ AtRest(id)' <=> call'[c].id # id
BY DEF Serial, AtRest

\* A step that leaves the store and the resources of all other tenants alone need
\* only account for the tenant it has been working on.
LEMMA KeptStep ==
    ASSUME Serial, KeptInv, NEW c \in Callers,
           call[c].id # None => call[c].id \in Ids,
           \A id \in DOMAIN store' : id # call[c].id =>
               /\ id \in DOMAIN store
               /\ store'[id].status = store[id].status
               /\ resources'[id] = resources[id],
           call[c].id \in DOMAIN store' /\ call'[c].id # call[c].id =>
               resources'[call[c].id] \in Kept[store'[call[c].id].status]
    PROVE  ResourcesFollowStatus'
<1>1. Kept' = Kept
  BY DEF Kept
<1>2. ASSUME NEW id \in DOMAIN store', call'[c].id # id
      PROVE  resources'[id] \in Kept[store'[id].status]
  <2>1. CASE id = call[c].id
    BY <1>2, <2>1
  <2>2. CASE id # call[c].id
    BY <2>2, OneCaller DEF KeptInv, ResourcesFollowStatus
  <2> QED
    BY <2>1, <2>2
<1> QED
  BY <1>1, <1>2, OneCaller DEF ResourcesFollowStatus

\* What is kept for a tenant that is not terminated can be suspended or resumed.
LEMMA KeptFacts ==
    /\ Kept["Active"] = {"running"} /\ Kept["Suspended"] = {"suspended"}
    /\ Kept["Terminating"] = {"running", "suspended"} /\ Kept["Terminated"] = {"none"}
    /\ \A s \in TenantStatus \ {"Terminated"} : Kept[s] \subseteq {"running", "suspended"}
BY DEF Kept, TenantStatus

\* A call that begins finds what the status tells.
LEMMA KeptInvoke ==
    ASSUME Serial, KeptInv, NEW c \in Callers, Invoke(c)
    PROVE  ResourcesFollowStatus' /\ ResourcesHeld(c)'
<1>0. TypeOK /\ TypeOK' /\ ResourcesHeld(c)
  <2>1. IndInv /\ [Next]_vars
    BY DEF KeptInv, SerialInv, Next
  <2> QED
    BY <2>1, NextInv DEF KeptInv, IndInv
<1>1. call[c].at = "idle" /\ call[c].id = None /\ UNCHANGED resources
  BY <1>0 DEF Invoke, CreateCheck, UpdateGet, UpdateUsage, SuspendGet, ActivateGet,
              GetUnlessTerminated, TerminateGet, DeleteGet, ReadOnly, vars, ResourcesHeld
<1>2. /\ DOMAIN store' = DOMAIN store
      /\ \A id \in DOMAIN store : store'[id].status = store[id].status
  <2>1. ASSUME NEW id \in Ids, NEW usage \in Usages, UpdateUsage(c, id, usage)
        PROVE  /\ DOMAIN store' = DOMAIN store
               /\ \A i \in DOMAIN store : store'[i].status = store[i].status
    BY <1>0, <2>1 DEF UpdateUsage, Put, TypeOK, ManagedTenant
  <2>2. CASE UNCHANGED store
    BY <2>2
  <2> QED
    BY <2>1, <2>2 DEF Invoke, CreateCheck, UpdateGet, SuspendGet, ActivateGet,
                      GetUnlessTerminated, TerminateGet, DeleteGet, ReadOnly, vars
<1>3. ResourcesFollowStatus'
  <2>1. None \notin DOMAIN store'
    BY <1>0, NoneAssumption DEF TypeOK
  <2> QED
    BY <1>1, <1>2, <2>1, KeptStep
<1>4. ResourcesHeld(c)'
  <2>1. \A id \in DOMAIN store : resources'[id] \in Kept[store'[id].status]
    <3> SUFFICES ASSUME NEW id \in DOMAIN store
                 PROVE  resources[id] \in Kept[store[id].status]
      BY <1>1, <1>2
    <3>1. id # None
      BY <1>0, NoneAssumption DEF TypeOK
    <3> QED
      BY <1>1, <3>1, OneCaller DEF KeptInv, ResourcesFollowStatus
  <2>2. \/ call'[c] = call[c]
        \/ call'[c].at \in {"create.insert", "delete.remove"}
        \/ /\ call'[c].at \in {"suspend.provisioner", "activate.provisioner",
                               "update.write", "terminate.mark"}
           /\ call'[c].id \in DOMAIN store
    <3>1. ASSUME NEW at, NEW id, NEW tenant, Await(c, at, id, tenant)
          PROVE  call'[c].at = at /\ call'[c].id = id
      BY <1>0, <3>1 DEF Await, TypeOK
    <3> QED
      BY <3>1 DEF Invoke, CreateCheck, UpdateGet, UpdateUsage, SuspendGet, ActivateGet,
                  GetUnlessTerminated, TerminateGet, DeleteGet, ReadOnly, vars
  <2>3. Kept' = Kept
    BY DEF Kept
  <2> QED
    BY <1>1, <2>1, <2>2, <2>3 DEF ResourcesHeld
<1> QED
  BY <1>3, <1>4

\* A call in progress leaves what the status it writes tells.
LEMMA KeptContinue ==
    ASSUME Serial, KeptInv, NEW c \in Callers, Continue(c)
    PROVE  ResourcesFollowStatus' /\ ResourcesHeld(c)'
<1> DEFINE at == call[c].at
           id == call[c].id
           t == call[c].tenant
           Others == \A i \in DOMAIN store' : i # id =>
                         /\ i \in DOMAIN store
                         /\ store'[i].status = store[i].status
                         /\ resources'[i] = resources[i]
<1>0. TypeOK /\ SerialInv /\ InProgress(c) /\ ResourcesHeld(c) /\ Kept' = Kept
  BY DEF KeptInv, SerialInv, IndInv, Kept
<1>t. id # None => id \in Ids
  BY <1>0 DEF TypeOK, CallType
<1>r. ASSUME Return(c)
      PROVE  call'[c].id = None /\ ResourcesHeld(c)'
  BY <1>0, <1>r DEF Return, Idle, TypeOK, ResourcesHeld
<1>1. CASE CreateInsert(c)
  <2>1. id \notin DOMAIN store /\ at = "create.insert"
    BY <1>1 DEF CreateInsert, KeptInv, SerialInv, IndInv, DrawnIsFresh
  <2>2. /\ Put(id, t) /\ UNCHANGED resources
        /\ call'[c].at = "create.provision" /\ call'[c].id = id
    BY <1>0, <1>1, <2>1 DEF CreateInsert, Await, TypeOK
  <2>3. Others
    BY <2>2 DEF Put
  <2> QED
    BY <1>t, <2>2, <2>3, KeptStep DEF ResourcesHeld
<1>2. CASE CreateProvision(c)
  <2>1. /\ at = "create.provision" /\ id \in Ids
        /\ UNCHANGED store /\ resources' = [resources EXCEPT ![id] = "running"]
        /\ call'[c].at = "create.write" /\ call'[c].id = id
    BY <1>0, <1>2 DEF CreateProvision, Provisioned, Await, TypeOK, InProgress
  <2>2. Others /\ resources'[id] = "running"
    BY <1>0, <2>1 DEF TypeOK
  <2> QED
    BY <1>t, <2>1, <2>2, KeptStep DEF ResourcesHeld
<1>3. CASE CreateProvisionFails(c)
  <2>1. /\ UNCHANGED <<store, resources>>
        /\ call'[c].at = "create.rollback" /\ call'[c].id = id
    BY <1>0, <1>3 DEF CreateProvisionFails, Await, TypeOK
  <2> QED
    BY <1>t, <2>1, KeptStep DEF ResourcesHeld
<1>4. CASE CreateRollback(c) \/ DeleteRemove(c)
  <2>1. Remove(id) /\ UNCHANGED resources /\ Return(c)
    BY <1>4 DEF CreateRollback, DeleteRemove
  <2>2. Others /\ id \notin DOMAIN store'
    BY <2>1 DEF Remove
  <2> QED
    BY <1>t, <1>r, <2>1, <2>2, KeptStep
<1>5. CASE SuspendResources(c)
  <2>1. /\ at = "suspend.provisioner" /\ UNCHANGED store /\ ResourcesSuspended(id)
        /\ call'[c].at = "suspend.write" /\ call'[c].id = id
    BY <1>0, <1>5 DEF SuspendResources, Await, TypeOK
  <2>2. resources[id] \in {"running", "suspended"} /\ id \in Ids
    BY <1>0, <2>1, KeptFacts DEF InProgress, ResourcesHeld, TypeOK, ManagedTenant
  <2>3. Others /\ resources'[id] = "suspended"
    BY <1>0, <2>1, <2>2 DEF ResourcesSuspended, TypeOK
  <2> QED
    BY <1>t, <2>1, <2>3, KeptStep DEF ResourcesHeld
<1>6. CASE ActivateResources(c)
  <2>1. /\ at = "activate.provisioner" /\ UNCHANGED store /\ ResourcesResumed(id)
        /\ call'[c].at = "activate.write" /\ call'[c].id = id
    BY <1>0, <1>6 DEF ActivateResources, Await, TypeOK
  <2>2. resources[id] \in {"running", "suspended"} /\ id \in Ids
    BY <1>0, <2>1, KeptFacts DEF InProgress, ResourcesHeld, TypeOK, ManagedTenant
  <2>3. Others /\ resources'[id] = "running"
    BY <1>0, <2>1, <2>2 DEF ResourcesResumed, TypeOK
  <2> QED
    BY <1>t, <2>1, <2>3, KeptStep DEF ResourcesHeld
<1>7. CASE TerminateMark(c)
  <2>1. /\ at = "terminate.mark" /\ id \in DOMAIN store
        /\ UNCHANGED resources /\ UpdateStored(id, t)
        /\ store[id].status # "Terminated"
    BY <1>0, <1>7 DEF TerminateMark, InProgress
  <2>2. call'[c].at = "terminate.deprovision" /\ call'[c].id = id
    BY <1>0, <1>7, <2>1 DEF TerminateMark, Await, TypeOK
  <2>3. Others
    BY <2>1 DEF UpdateStored, Put
  <2>4. resources[id] \in {"running", "suspended"}
    BY <1>0, <2>1, KeptFacts DEF ResourcesHeld, TypeOK, ManagedTenant
  <2> QED
    BY <1>t, <2>1, <2>2, <2>3, <2>4, KeptStep DEF ResourcesHeld
<1>8. CASE TerminateDeprovision(c)
  <2>1. /\ UNCHANGED store /\ Deprovisioned(id)
        /\ call'[c].at = "terminate.write" /\ call'[c].id = id
    BY <1>0, <1>8 DEF TerminateDeprovision, Await, TypeOK
  <2>2. Others
    BY <1>0, <2>1 DEF Deprovisioned, TypeOK
  <2> QED
    BY <1>t, <2>1, <2>2, KeptStep DEF ResourcesHeld
<1>9. CASE ProvisionerError(c)
  <2>1. /\ UNCHANGED <<store, resources>> /\ Return(c)
        /\ at \in {"suspend.provisioner", "activate.provisioner",
                   "terminate.deprovision"}
    BY <1>9 DEF ProvisionerError
  <2>2. resources[id] \in Kept[store[id].status]
    BY <1>0, <2>1, KeptFacts DEF ResourcesHeld, InProgress
  <2> QED
    BY <1>t, <1>r, <2>1, <2>2, KeptStep
<1>10. CASE Write(c)
  <2>1. /\ at \in WritePoints /\ id \in DOMAIN store
        /\ UNCHANGED resources /\ UpdateStored(id, t) /\ Return(c)
    BY <1>0, <1>10 DEF Write, WritePoints, InProgress
  <2>2. Others /\ store'[id] = t
    BY <2>1 DEF UpdateStored, Put
  <2>3. resources[id] \in Kept[t.status]
    BY <1>0, <2>1, KeptFacts DEF ResourcesHeld, InProgress, WritePoints
  <2> QED
    BY <1>t, <1>r, <2>1, <2>2, <2>3, KeptStep
<1> QED
  BY <1>1, <1>2, <1>3, <1>4, <1>5, <1>6, <1>7, <1>8, <1>9, <1>10 DEF Continue

\* No call is cut short: then every step keeps the invariant.
LEMMA KeptNext == Serial /\ ~CallsAbort /\ KeptInv /\ [Next]_vars => KeptInv'
<1> SUFFICES ASSUME Serial, ~CallsAbort, KeptInv, [Next]_vars PROVE KeptInv'
  OBVIOUS
<1>1. SerialInv'
  BY SerialNext DEF KeptInv
<1>2. CASE UNCHANGED vars
  <2>1. ResourcesFollowStatus'
    BY <1>2 DEF vars, KeptInv, ResourcesFollowStatus, AtRest, Kept
  <2>2. \A c \in Callers : ResourcesHeld(c)'
    BY <1>2 DEF vars, KeptInv, ResourcesHeld, Kept
  <2> QED
    BY <1>1, <2>1, <2>2 DEF KeptInv
<1>3. CASE Next
  <2>1. PICK c \in Callers : Invoke(c) \/ Continue(c)
    BY <1>3 DEF Next, Abort
  <2>2. \A d \in Callers : d = c
    BY DEF Serial
  <2> QED
    BY <1>1, <2>1, <2>2, KeptInvoke, KeptContinue DEF KeptInv
<1> QED
  BY <1>2, <1>3

\* When calls neither overlap nor are cut short, its invariant holds.
THEOREM KeptInvariance ==
    ASSUME Serial, ~CallsAbort
    PROVE  Spec => []KeptInv
<1>1. Init => KeptInv
  BY SerialInit DEF Init, Idle, KeptInv, ResourcesFollowStatus, ResourcesHeld
<1>2. KeptInv /\ [Next]_vars => KeptInv'
  BY KeptNext
<1> QED
  BY <1>1, <1>2, PTL DEF Spec

\* When calls neither overlap nor are cut short the status of a tenant tells what
\* the provisioner keeps for it, whichever calls the provisioner fails.
THEOREM SerialKept ==
    ASSUME Serial, ~CallsAbort
    PROVE  Spec => []ResourcesFollowStatus
<1>1. KeptInv => ResourcesFollowStatus
  BY DEF KeptInv
<1> QED
  BY <1>1, KeptInvariance, PTL

\* So activate does make tenants operational; what it takes for one that is not
\* are calls that overlap or that are cut short.
THEOREM SerialActivation ==
    ASSUME Serial, ~CallsAbort
    PROVE  Spec => ActivatedIsOperational
<1> DEFINE Running == \A c \in Callers :
                          call[c].at = "activate.write" => resources[call[c].id] = "running"
<1>1. KeptInv => Running
  BY DEF KeptInv, ResourcesHeld
<1>2. Running =>
        \A c \in Callers :
            call[c].at = "activate.write" /\ call'[c].at = "idle" /\ store' # store
            => resources[call[c].id] = "running"
  OBVIOUS
<1> QED
  BY <1>1, <1>2, KeptInvariance, PTL DEF Spec, ActivatedIsOperational

=============================================================================
