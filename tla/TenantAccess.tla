---------------------------- MODULE TenantAccess ----------------------------
(***************************************************************************)
(* Managed tenants and the requests made for them: TenantManager behind    *)
(* the TenantStore of the resolvers.  The repository leaves this store to  *)
(* the application ("Extend your TenantStore with management operations"); *)
(* here it gives the resolvers the Tenant inside each ManagedTenant, as    *)
(* the manager last stored it.  Requests only read it.                     *)
(***************************************************************************)
EXTENDS TenantManager, Sequences

CONSTANTS
    Requests, BaseDomain, Carried, Stacks, StoreFails  \* see TenantMiddleware

VARIABLE request  \* each request in flight

accessVars == <<vars, request>>

\* ManagedTenant::tenant, which the resolvers look up.
View ==
    [id \in Ids |-> IF id \in DOMAIN store
                      THEN [name |-> store[id].slug, active |-> store[id].active]
                      ELSE None]

Web == INSTANCE TenantMiddleware WITH tenants <- View, Names <- Slugs

\* What TenantMiddleware assumes of these constants.
ASSUME AccessAssumption ==
    /\ \A q \in Carried : Web!CarriedType(q)
    /\ Stacks \subseteq Seq(Web!LayerType)
    /\ None \notin Web!UserContext /\ None \notin Web!Contexts

AccessInit == Init /\ Web!Init

\* A step of the manager: the requests see it at their next look-up.
Manage == Next /\ UNCHANGED request

Serve(r) ==
    \/ Web!Arrive(r)
    \/ Web!Continue(r)
    \/ Web!Drop(r)
    \/ \E id \in Ids : Web!SetTenant(r, id)

AccessNext ==
    \/ Manage
    \/ UNCHANGED vars /\ \E r \in Requests : Serve(r)

\* The same as for the parts.
AccessFairness ==
    /\ \A c \in Callers : WF_accessVars(Continue(c) /\ UNCHANGED request)
    /\ \A r \in Requests : WF_accessVars(UNCHANGED vars /\ Web!Continue(r))

AccessSpec == AccessInit /\ [][AccessNext]_accessVars /\ AccessFairness

-----------------------------------------------------------------------------
(* Properties.                                                             *)

\* A layer finds the tenant and lets the request through for it.
Admits(r, id) ==
    /\ request[r].at = "lookup" /\ request'[r].at = "layer"
    /\ Web!get_tenant_id(request'[r]) = id

\* A tenant that is shut out: not registered, suspended or terminated, or suspended
\* when its termination began, which leaves the reason of the suspension in place.
Shut(id) ==
    \/ id \notin DOMAIN store
    \/ store[id].status \in {"Suspended", "Terminated"}
    \/ store[id].suspension_reason

\* No request is let in for a tenant that is shut out, whatever calls of the manager
\* are in progress.  This says nothing of a tenant in operation whose termination
\* has begun: can_accept_requests refuses a tenant that is Terminating, but the
\* resolvers do not ask it, and let requests in until the tenant is Terminated.
ShutTenantsAdmitNobody ==
    [][ \A r \in Requests, id \in Ids : Admits(r, id) => ~Shut(id) ]_accessVars

Terminated(id) == id \in DOMAIN store /\ store[id].status = "Terminated"

\* Once terminate has returned, the requests that were let in before come to an
\* end, and none is served for the tenant ever after, deleted or not.
TerminationDrains == \A id \in Ids : Terminated(id) ~> [](~Web!Served(id))
=============================================================================
