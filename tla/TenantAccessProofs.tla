------------------------- MODULE TenantAccessProofs -------------------------
(***************************************************************************)
(* Proofs about TenantAccess, for any number of callers, requests, tenants *)
(* and layers: no request is let in for a tenant that is shut out, and the *)
(* manager is to the requests a TenantStore like any other, so that what   *)
(* TenantMiddleware guarantees holds of managed tenants too.               *)
(***************************************************************************)
EXTENDS TenantAccess, TenantManagerProofs

\* A state of the manager and the requests that it serves: the manager is in
\* order, and each request has the fields of a request.
AccessInv ==
    /\ IndInv
    /\ DOMAIN request = Requests
    /\ \A r \in Requests : DOMAIN request[r] = DOMAIN Web!Done

\* Fields of a request, as a set.
LEMMA RequestFields ==
    /\ DOMAIN Web!Done = {"at", "stack", "layer", "carries", "key", "user",
                          "context", "by", "resolved"}
    /\ Web!Done.at = "done"
BY DEF Web!Done

\* What becomes of a request that has its fields has them, too.
LEMMA BecomesKeeps ==
    ASSUME AccessInv, NEW r \in Requests, NEW q, Web!Becomes(r, q),
           DOMAIN q = DOMAIN Web!Done
    PROVE  /\ DOMAIN request' = Requests
           /\ \A s \in Requests : DOMAIN request'[s] = DOMAIN Web!Done
BY DEF AccessInv, Web!Becomes

\* Each step for a request keeps the fields.
LEMMA ServeKeeps ==
    ASSUME AccessInv, NEW r \in Requests, Serve(r)
    PROVE  /\ DOMAIN request' = Requests
           /\ \A s \in Requests : DOMAIN request'[s] = DOMAIN Web!Done
<1> DEFINE Good(q) == DOMAIN q = DOMAIN Web!Done
<1>1. Good(request[r]) /\ Good(Web!Done) /\ Good(Web!Rejected)
  BY DEF AccessInv, Web!Rejected
<1>2. \A q : Good(q) => /\ Good(Web!Passed(q)) /\ Good(Web!WithoutContext(q))
                        /\ Good(Web!strip_incoming_tenant_headers(q))
                        /\ \A c : Good(Web!WithContext(q, c))
  BY DEF Web!Passed, Web!WithoutContext, Web!WithContext, Web!strip_incoming_tenant_headers
<1>3. \A q : Good(q) => Good(Web!Unresolved(q)) /\ \A id : Good(Web!Bound(q, id))
  BY <1>1, <1>2 DEF Web!Unresolved, Web!Bound
<1>4. \A q : Good(q) /\ Web!Becomes(r, q) =>
         /\ DOMAIN request' = Requests
         /\ \A s \in Requests : DOMAIN request'[s] = DOMAIN Web!Done
  BY BecomesKeeps
<1> HIDE DEF Good
<1>5. CASE Web!Arrive(r)
  <2>1. PICK stack \in Stacks, carries \in Carried :
          LET q == [Web!Done EXCEPT !.at = "layer", !.stack = stack, !.layer = 1,
                                    !.carries = carries] IN
          \/ Web!Becomes(r, q)
          \/ \E id \in Ids \cup {None} :
               Web!Becomes(r, [q EXCEPT !.context = Web!with_tenant(id)])
    BY <1>5 DEF Web!Arrive
  <2> DEFINE q == [Web!Done EXCEPT !.at = "layer", !.stack = stack, !.layer = 1,
                                   !.carries = carries]
  <2>2. Good(q) /\ \A c : Good([q EXCEPT !.context = c])
    BY <1>1 DEF Good
  <2>3. Web!Becomes(r, q) \/ \E c : Web!Becomes(r, [q EXCEPT !.context = c])
    BY <2>1
  <2> HIDE DEF q
  <2> QED
    BY <1>4, <2>2, <2>3
<1>6. CASE Web!Authenticate(r)
  <2>1. \A u : Good([Web!Passed(request[r]) EXCEPT !.user = u])
    BY <1>1, <1>2 DEF Good
  <2> QED
    BY <1>1, <1>4, <1>6, <2>1 DEF Web!Authenticate
<1>7. CASE Web!Handle(r)
  <2> DEFINE q == Web!WithoutContext(Web!strip_incoming_tenant_headers(request[r]))
  <2>1. Good(q) /\ Good(Web!Unresolved(q))
    BY <1>1, <1>2, <1>3
  <2>2. Good([q EXCEPT !.at = "lookup", !.key = Web!Extracted(q)])
    BY <2>1 DEF Good
  <2>3. Web!Becomes(r, IF Web!Extracted(q) = None THEN Web!Unresolved(q)
                       ELSE [q EXCEPT !.at = "lookup", !.key = Web!Extracted(q)])
    BY <1>7 DEF Web!Handle
  <2> HIDE DEF q
  <2> QED
    BY <1>4, <2>1, <2>2, <2>3
<1>8. CASE Web!LookupFails(r) \/ Web!NotFound(r)
  BY <1>1, <1>3, <1>4, <1>8 DEF Web!LookupFails, Web!NotFound
<1>9. CASE Web!Resolve(r)
  <2>1. PICK id :
          LET q == [request[r] EXCEPT !.resolved = @ \cup {<<request[r].layer, id>>}] IN
          Web!Becomes(r, IF View[id].active THEN Web!Bound(q, id)
                         ELSE Web!Unresolved(request[r]))
    BY <1>9 DEF Web!Resolve
  <2>2. Good([request[r] EXCEPT !.resolved = @ \cup {<<request[r].layer, id>>}])
    BY <1>1 DEF Good
  <2> QED
    BY <1>1, <1>3, <1>4, <2>1, <2>2
<1>10. CASE Web!EnterHandler(r)
  <2>1. Good([request[r] EXCEPT !.at = "handler"])
    BY <1>1 DEF Good
  <2> QED
    BY <1>4, <1>10, <2>1 DEF Web!EnterHandler
<1>11. CASE Web!Respond(r) \/ Web!Drop(r)
  BY <1>1, <1>4, <1>11 DEF Web!Respond, Web!Drop
<1>12. ASSUME NEW id \in Ids, Web!SetTenant(r, id)
       PROVE  /\ DOMAIN request' = Requests
              /\ \A s \in Requests : DOMAIN request'[s] = DOMAIN Web!Done
  <2>1. Good([request[r] EXCEPT !.context = Web!with_tenant(id),
                                !.by = request[r].layer])
    BY <1>1 DEF Good
  <2> QED
    BY <1>4, <1>12, <2>1 DEF Web!SetTenant
<1> QED
  BY <1>5, <1>6, <1>7, <1>8, <1>9, <1>10, <1>11, <1>12 DEF Serve, Web!Continue

\* The invariant holds of the manager and its requests together.
THEOREM AccessInvariance == AccessSpec => []AccessInv
<1>1. AccessInit => AccessInv
  BY InitInv DEF AccessInit, AccessInv, Web!Init
<1>2. AccessInv /\ [AccessNext]_accessVars => AccessInv'
  <2> SUFFICES ASSUME AccessInv, [AccessNext]_accessVars PROVE AccessInv'
    OBVIOUS
  <2>1. CASE Manage
    BY <2>1, NextInv DEF Manage, AccessInv
  <2>2. ASSUME NEW r \in Requests, UNCHANGED vars, Serve(r) PROVE AccessInv'
    <3>1. IndInv'
      BY <2>2, NextInv DEF AccessInv
    <3> QED
      BY <2>2, <3>1, ServeKeeps DEF AccessInv
  <2>3. CASE UNCHANGED accessVars
    BY <2>3, NextInv DEF accessVars, AccessInv
  <2> QED
    BY <2>1, <2>2, <2>3 DEF AccessNext
<1> QED
  BY <1>1, <1>2, PTL DEF AccessSpec

-----------------------------------------------------------------------------
(* Who is let in.                                                          *)

\* A request that is let through without a tenant is not let in for one.
LEMMA UnresolvedAdmitsNone ==
    ASSUME NEW q, DOMAIN q = DOMAIN Web!Done, NEW id \in Ids
    PROVE  Web!Unresolved(q).at # "layer" \/ Web!get_tenant_id(Web!Unresolved(q)) # id
BY RequestFields, NoneAssumption
   DEF Web!Unresolved, Web!Passed, Web!WithoutContext, Web!Rejected, Web!get_tenant_id

\* A request that is let in is let in for the tenant that was found.
LEMMA BoundAdmits ==
    ASSUME NEW q, DOMAIN q = DOMAIN Web!Done, NEW found \in Ids, NEW id \in Ids,
           Web!Bound(q, found).at = "layer",
           Web!get_tenant_id(Web!Bound(q, found)) = id
    PROVE  id = found
BY RequestFields, NoneAssumption
   DEF Web!Bound, Web!Passed, Web!WithContext, Web!with_tenant, Web!bound_to_principal,
       Web!Rejected, Web!get_tenant_id

\* The look-up is the only step that lets a request in, and it looks at `active`.
LEMMA AdmittedIsActive ==
    ASSUME AccessInv, NEW r \in Requests, NEW s \in Requests, Serve(s),
           NEW id \in Ids, Admits(r, id)
    PROVE  View[id] # None /\ View[id].active
<1>0. /\ DOMAIN request = Requests
      /\ DOMAIN request[r] = DOMAIN Web!Done
      /\ request[r].at = "lookup" /\ request'[r].at = "layer"
      /\ Web!get_tenant_id(request'[r]) = id
  BY DEF Admits, AccessInv, Web!get_tenant_id
<1>1. \A q : Web!Becomes(s, q) => s = r /\ request'[r] = q
  BY <1>0 DEF Web!Becomes
<1>2. CASE Web!LookupFails(s) \/ Web!NotFound(s)
  BY <1>0, <1>1, <1>2, UnresolvedAdmitsNone DEF Web!LookupFails, Web!NotFound
<1>3. CASE Web!Resolve(s)
  <2>1. PICK found \in Web!Found(request[s]) :
          LET q == [request[s] EXCEPT !.resolved = @ \cup {<<request[s].layer, found>>}] IN
          Web!Becomes(s, IF View[found].active THEN Web!Bound(q, found)
                         ELSE Web!Unresolved(request[s]))
    BY <1>3 DEF Web!Resolve
  <2>2. s = r
    BY <1>1, <2>1
  <2> DEFINE q == [request[r] EXCEPT !.resolved = @ \cup {<<request[r].layer, found>>}]
  <2>3. DOMAIN q = DOMAIN Web!Done
    BY <1>0
  <2>4. request'[r] = IF View[found].active THEN Web!Bound(q, found)
                      ELSE Web!Unresolved(request[r])
    BY <1>1, <2>1, <2>2
  <2>5. found \in Ids /\ View[found] # None
    BY <2>1 DEF Web!Found, Web!find_by_id, Web!find_by_name, Web!Stored
  <2> HIDE DEF q
  <2>6. View[found].active
    BY <1>0, <2>4, UnresolvedAdmitsNone
  <2>7. id = found
    BY <1>0, <2>3, <2>4, <2>5, <2>6, BoundAdmits
  <2> QED
    BY <2>5, <2>6, <2>7
<1>4. CASE Web!Respond(s) \/ Web!Drop(s)
  BY <1>0, <1>1, <1>4, RequestFields DEF Web!Respond, Web!Drop
<1>5. CASE \/ Web!Arrive(s) \/ Web!Authenticate(s) \/ Web!Handle(s)
           \/ Web!EnterHandler(s) \/ \E i \in Ids : Web!SetTenant(s, i)
  <2>1. request[s].at # "lookup" /\ \E q : Web!Becomes(s, q)
    BY <1>5, Zenon DEF Web!Arrive, Web!Authenticate, Web!Handle, Web!EnterHandler,
                Web!SetTenant, Web!AtLayer
  <2> QED
    BY <1>0, <1>1, <2>1
<1> QED
  BY <1>2, <1>3, <1>4, <1>5 DEF Serve, Web!Continue

\* No request is let in for a tenant that is shut out, however many calls of the
\* manager overlap: the flag that the resolvers look at agrees with the status and
\* with the reason of a suspension.
THEOREM AdmissionTheorem == AccessSpec => ShutTenantsAdmitNobody
<1>1. AccessInv /\ [AccessNext]_accessVars =>
        [\A r \in Requests, id \in Ids : Admits(r, id) => ~Shut(id)]_accessVars
  <2> SUFFICES ASSUME AccessInv, AccessNext, NEW r \in Requests, NEW id \in Ids,
                      Admits(r, id)
               PROVE  ~Shut(id)
    OBVIOUS
  <2>1. ~Manage
    BY DEF Manage, Admits
  <2>2. PICK s \in Requests : Serve(s)
    BY <2>1 DEF AccessNext
  <2>3. View[id] # None /\ View[id].active
    BY <2>2, AdmittedIsActive
  <2>4. id \in DOMAIN store /\ store[id].active
    BY <2>3 DEF View
  <2>5. Coherent(store[id])
    BY <2>4 DEF AccessInv, IndInv, RecordCoherent
  <2> QED
    BY <2>4, <2>5 DEF Coherent, Shut
<1> QED
  BY <1>1, AccessInvariance, PTL DEF AccessSpec, ShutTenantsAdmitNobody

-----------------------------------------------------------------------------
(* The manager as a TenantStore.                                           *)

\* A step of the manager changes the record of one tenant at most.
LEMMA OneRecord ==
    ASSUME IndInv, Next
    PROVE  \/ UNCHANGED store
           \/ \E id \in Ids : \A i \in Ids \ {id} :
                /\ i \in DOMAIN store' <=> i \in DOMAIN store
                /\ i \in DOMAIN store => store'[i] = store[i]
<1>1. ASSUME NEW id \in Ids, NEW t, Put(id, t) \/ Remove(id) \/ UpdateStored(id, t)
      PROVE  \/ UNCHANGED store
             \/ \E j \in Ids : \A i \in Ids \ {j} :
                  /\ i \in DOMAIN store' <=> i \in DOMAIN store
                  /\ i \in DOMAIN store => store'[i] = store[i]
  BY <1>1 DEF Put, Remove, UpdateStored
<1>2. ASSUME NEW c \in Callers, NEW id \in Ids, NEW usage \in Usages,
             UpdateUsage(c, id, usage)
      PROVE  \E t : Put(id, t)
  BY <1>2 DEF UpdateUsage
<1>3. ASSUME NEW c \in Callers,
             \/ CreateInsert(c) \/ CreateRollback(c) \/ DeleteRemove(c)
             \/ TerminateMark(c) \/ Write(c)
      PROVE  /\ call[c].id \in Ids
             /\ \/ UNCHANGED store
                \/ \E t : \/ Put(call[c].id, t) \/ Remove(call[c].id)
                         \/ UpdateStored(call[c].id, t)
  <2>1. call[c].at # "idle"
    BY <1>3 DEF CreateInsert, CreateRollback, DeleteRemove, TerminateMark, Write, WritePoints
  <2>2. call[c].id \in Ids
    BY <2>1 DEF IndInv, TypeOK, CallShape
  <2> QED
    BY <1>3, <2>2 DEF CreateInsert, CreateRollback, DeleteRemove, TerminateMark, Write
<1>4. \/ UNCHANGED store
      \/ \E c \in Callers, id \in Ids, usage \in Usages : UpdateUsage(c, id, usage)
      \/ \E c \in Callers : \/ CreateInsert(c) \/ CreateRollback(c) \/ DeleteRemove(c)
                            \/ TerminateMark(c) \/ Write(c)
  BY DEF Next, Invoke, Continue, Abort, ReadOnly, vars, CreateCheck, UpdateGet,
         SuspendGet, ActivateGet, GetUnlessTerminated, TerminateGet, DeleteGet,
         CreateProvision, CreateProvisionFails, SuspendResources, ActivateResources,
         TerminateDeprovision, ProvisionerError
<1> QED
  BY <1>1, <1>2, <1>3, <1>4

\* What TenantMiddleware assumes of a TenantStore and of its requests is so here.
\* With it every safety property of TenantMiddleware holds of managed tenants.
THEOREM AccessImplementsMiddleware ==
    AccessSpec => Web!Init /\ [][Web!Next]_(Web!vars)
<1>1. AccessInit => Web!Init
  BY DEF AccessInit
<1>2. AccessInv /\ AccessInv' /\ [AccessNext]_accessVars => [Web!Next]_(Web!vars)
  <2> SUFFICES ASSUME AccessInv, AccessInv', [AccessNext]_accessVars
               PROVE  [Web!Next]_(Web!vars)
    OBVIOUS
  <2>1. CASE UNCHANGED vars /\ \E r \in Requests : Serve(r)
    BY <2>1 DEF Serve, Web!Next
  <2>2. ASSUME UNCHANGED store, UNCHANGED request
        PROVE  [Web!Next]_(Web!vars)
    BY <2>2 DEF Web!vars, View
  <2>3. ASSUME NEW id \in Ids, UNCHANGED request,
               \A i \in Ids \ {id} : /\ i \in DOMAIN store' <=> i \in DOMAIN store
                                     /\ i \in DOMAIN store => store'[i] = store[i]
        PROVE  Web!Administer
    <3>1. View'[id] \in Web!Tenant \cup {None}
      BY DEF AccessInv, IndInv, TypeOK, ManagedTenant, View, Web!Tenant
    <3>2. View' = [View EXCEPT ![id] = View'[id]]
      BY <2>3 DEF View
    <3> QED
      BY <2>3, <3>1, <3>2 DEF Web!Administer
  <2>4. CASE Manage
    BY <2>2, <2>3, <2>4, OneRecord DEF Manage, AccessInv, Web!Next
  <2> QED
    BY <2>1, <2>2, <2>4 DEF AccessNext, accessVars, vars
<1> QED
  BY <1>1, <1>2, AccessInvariance, PTL DEF AccessSpec

\* And requests do nothing to the manager: seen from it they stutter.
LEMMA RequestsOnlyRead == AccessSpec => Init /\ [][Next]_vars
<1>1. AccessInit => Init
  BY DEF AccessInit
<1>2. [AccessNext]_accessVars => [Next]_vars
  BY DEF AccessNext, Manage, accessVars
<1> QED
  BY <1>1, <1>2, PTL DEF AccessSpec

\* So with requests about, too, managed tenants go through the abstract life cycle and
\* nothing is kept running for one that is gone, if calls do not overlap.
THEOREM ManagedLifecycleTheorem ==
    ASSUME Serial
    PROVE  AccessSpec => []NoOrphanResources /\ ImplementsLifecycle
<1>1. Init => SerialInv /\ Lifecycle!Init
  BY SerialInit, LifecycleInit
<1>2. SerialInv /\ [Next]_vars => SerialInv'
  BY SerialNext
<1>3. SerialInv /\ [Next]_vars => [Lifecycle!Next]_(Lifecycle!vars)
  BY LifecycleStep
<1>4. SerialInv => NoOrphanResources
  BY DEF SerialInv
<1> QED
  BY <1>1, <1>2, <1>3, <1>4, RequestsOnlyRead, PTL DEF ImplementsLifecycle, Lifecycle!Spec

-----------------------------------------------------------------------------
(* What the middleware guarantees, for managed tenants.                    *)

\* The middleware over managed tenants once more, with what is proved about it.
Http == INSTANCE TenantMiddlewareProofs WITH tenants <- View, Names <- Slugs

\* What those proofs assume of the constants is assumed here.
LEMMA HttpAssumptions ==
    /\ \A q \in Carried : Http!CarriedType(q)
    /\ Stacks \subseteq Seq(Http!LayerType)
    /\ None \notin Ids /\ None \notin Slugs
    /\ None \notin Http!UserContext /\ None \notin Http!Contexts
BY AccessAssumption, NoneAssumption, Zenon
   DEF Web!CarriedType, Http!CarriedType, Web!LayerType, Http!LayerType,
       Web!UserContext, Http!UserContext, Web!Contexts, Http!Contexts, Web!Claims,
       Http!Claims, Web!Resolvers, Http!Resolvers, Web!Memberships, Http!Memberships

\* Both instances are of one module, under one substitution.
LEMMA OneMiddleware ==
    /\ Web!Init <=> Http!Init
    /\ [Web!Next]_(Web!vars) <=> [Http!Next]_(Http!vars)
    /\ Http!BoundIsMember <=> Web!BoundIsMember
    /\ Http!ForbiddenStaysOut <=> Web!ForbiddenStaysOut
    /\ Http!HandlerContext <=> Web!HandlerContext
BY DEF Web!Init, Http!Init, Web!vars, Http!vars, Web!Tenant, Http!Tenant, Web!Done,
       Http!Done, Web!Layer, Http!Layer, Web!strings, Http!strings, Web!tenants_of,
       Http!tenants_of, Web!is_member, Http!is_member, Web!with_tenant,
       Http!with_tenant, Web!bound_to_principal, Http!bound_to_principal,
       Web!extract_subdomain, Http!extract_subdomain, Web!extract_claim,
       Http!extract_claim, Web!HeaderKey, Http!HeaderKey, Web!SubdomainKey,
       Http!SubdomainKey, Web!JwtKey, Http!JwtKey, Web!PathKey, Http!PathKey,
       Web!Extracted, Http!Extracted, Web!Stored, Http!Stored, Web!find_by_id,
       Http!find_by_id, Web!find_by_name, Http!find_by_name, Web!Found, Http!Found,
       Web!Passed, Http!Passed, Web!Rejected, Http!Rejected, Web!WithoutContext,
       Http!WithoutContext, Web!WithContext, Http!WithContext, Web!Unresolved,
       Http!Unresolved, Web!Bound, Http!Bound, Web!Becomes, Http!Becomes, Web!Arrive,
       Http!Arrive, Web!AtLayer, Http!AtLayer, Web!Authenticate, Http!Authenticate,
       Web!strip_incoming_tenant_headers, Http!strip_incoming_tenant_headers,
       Web!Handle, Http!Handle, Web!LookupFails, Http!LookupFails, Web!NotFound,
       Http!NotFound, Web!Resolve, Http!Resolve, Web!EnterHandler, Http!EnterHandler,
       Web!SetTenant, Http!SetTenant, Web!Respond, Http!Respond, Web!Drop, Http!Drop,
       Web!Administer, Http!Administer, Web!Continue, Http!Continue, Web!Next,
       Http!Next, Web!BoundIsMember, Http!BoundIsMember, Web!ForbiddenStaysOut,
       Http!ForbiddenStaysOut, Web!HandlerContext, Http!HandlerContext,
       Web!LastTenantLayer, Http!LastTenantLayer, Web!get_tenant_id, Http!get_tenant_id

\* Whatever calls of the manager are in progress, a bound context is of a tenant of
\* the principal, and no stranger gets past a layer that resolved a tenant.
THEOREM ManagedBoundTheorem ==
    AccessSpec => [](Web!BoundIsMember /\ Web!ForbiddenStaysOut)
<1>1. Http!Init => Http!IndInv
  BY Http!InvAtFirst, HttpAssumptions
<1>2. Http!IndInv /\ [Http!Next]_(Http!vars) => Http!IndInv'
  BY Http!InvKept, HttpAssumptions
<1>3. Http!IndInv => Http!BoundIsMember /\ Http!ForbiddenStaysOut
  BY Http!InvGuarantees, HttpAssumptions
<1> QED
  BY <1>1, <1>2, <1>3, OneMiddleware, AccessImplementsMiddleware, PTL

\* And what a handler finds was made by the last tenant layer as that is configured.
THEOREM ManagedHandlerTheorem ==
    ASSUME \A stack \in Stacks : Http!Guarded(stack)
    PROVE  AccessSpec => []Web!HandlerContext
<1>1. Http!Init => Http!IndInv /\ Http!PassageInv
  BY Http!InvAtFirst, Http!PassageAtFirst, HttpAssumptions
<1>2. Http!IndInv /\ [Http!Next]_(Http!vars) => Http!IndInv'
  BY Http!InvKept, HttpAssumptions
<1>3. Http!IndInv /\ Http!PassageInv /\ [Http!Next]_(Http!vars) => Http!PassageInv'
  BY Http!PassageNext, HttpAssumptions
<1>4. Http!PassageInv => Http!HandlerContext
  BY Http!PassageGuarantees, HttpAssumptions
<1> QED
  BY <1>1, <1>2, <1>3, <1>4, OneMiddleware, AccessImplementsMiddleware, PTL
=============================================================================
