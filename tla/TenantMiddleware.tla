-------------------------- MODULE TenantMiddleware --------------------------
(***************************************************************************)
(* A request on its way through the middleware of an application:          *)
(* TenantMiddleware (src/middleware.rs) with one of the four resolvers     *)
(* (src/resolver.rs) over a TenantStore, behind or in front of the         *)
(* authentication that attaches the UserContext (external).                *)
(*                                                                         *)
(* A layer runs without an await but for the look-up in the store, and     *)
(* passes the request on to the next layer; the last passes it to the      *)
(* handler.  The store changes at any time.                                *)
(***************************************************************************)
EXTENDS Naturals, Sequences, FiniteSets

CONSTANTS
    Requests,    \* requests in flight
    Ids, Names,  \* ids and names (slugs) of tenants
    BaseDomain,  \* labels of base_domain
    Carried,     \* what requests may carry, see CarriedType
    Stacks,      \* the orders in which layers may be registered, see LayerType
    StoreFails,  \* whether the store may return an error
    None         \* an absent Option

\* A claim: absent, a string, an array of strings, or something else.  Other
\* items of an array, and empty strings, are left out; each counts in size.
Claims == {[kind |-> "absent"], [kind |-> "other"]}
            \cup [kind : {"string"}, id : Ids]
            \cup [kind : {"array"}, ids : SUBSET Ids, size : 0 .. 2]

UserContext == [tenants : Claims, tenant_id : Claims]

Contexts == [id : Ids \cup {None}, bound : BOOLEAN]

\* header: the one a header resolver reads; internal: a header whose name begins
\* with __tenant, in letters of any case.
CarriedType(q) ==
    /\ DOMAIN q = {"header", "internal", "host", "path", "token"}
    /\ q.header \in Ids \cup {None}
    /\ q.internal \in Ids \cup {None}
    /\ DOMAIN q.host \subseteq Nat /\ DOMAIN q.path \subseteq Nat
    /\ q.token \in UserContext \cup {None}

Resolvers == {"header", "subdomain", "jwt", "path"}

\* Where the principal's tenants are read: `default` falls back to the claim of
\* a single tenant, `tenants` does not.
Memberships == {"default", "tenants"}

\* A layer without a membership is one for public pages, and stays one.
LayerType ==
    {[kind |-> "auth"]}
      \cup [kind : {"tenant"}, resolver : Resolvers, optional : BOOLEAN,
            membership : Memberships \cup {"public"}]

ASSUME CarriedAssumption == \A q \in Carried : CarriedType(q)
ASSUME StacksAssumption == Stacks \subseteq Seq(LayerType)
ASSUME NoneAssumption ==
    /\ None \notin Ids /\ None \notin Names
    /\ None \notin UserContext /\ None \notin Contexts

VARIABLES
    tenants,  \* the TenantStore: id -> [name, active], or None
    request   \* each request in flight

vars == <<tenants, request>>

Tenant == [name : Names, active : BOOLEAN]

\* stack: the layers it passes, layer: the one it is at, key: what the resolver
\* looks up.  by: history, the layer that set the context; 0 is the server, and
\* the handler comes after the last layer.  resolved: history, the layers that
\* resolved a tenant, with its id.
Done ==
    [at |-> "done", stack |-> <<>>, layer |-> 0, carries |-> None, key |-> None,
     user |-> None, context |-> None, by |-> 0, resolved |-> {}]

Init ==
    /\ tenants \in [Ids -> Tenant \cup {None}]
    /\ request = [r \in Requests |-> Done]

Layer(q) == q.stack[q.layer]

-----------------------------------------------------------------------------
(* The principal's tenants.                                                *)

strings(claim) ==
    CASE claim.kind = "string" -> {claim.id}
      [] claim.kind = "array" -> claim.ids
      [] OTHER -> {}

\* The single-tenant claim counts only when there is no `tenants` claim, and
\* only as a string.
tenants_of(membership, user) ==
    IF user.tenants.kind # "absent" THEN strings(user.tenants)
    ELSE IF membership = "default" /\ user.tenant_id.kind = "string"
         THEN {user.tenant_id.id}
    ELSE {}

is_member(membership, user, id) == id \in tenants_of(membership, user)

-----------------------------------------------------------------------------
(* The TenantContext of a request.                                         *)

with_tenant(id) == [id |-> id, bound |-> FALSE]

bound_to_principal(id) == [id |-> id, bound |-> TRUE]

\* None without a context, and of a context without a tenant.
get_tenant_id(q) == IF q.context = None THEN None ELSE q.context.id

-----------------------------------------------------------------------------
(* What a resolver reads from the request, or None.                        *)

\* The host, port removed, is one label in front of the base domain.
extract_subdomain(host) ==
    IF host # <<>> /\ Tail(host) = BaseDomain THEN Head(host) ELSE None

\* The `tenant_id` claim: a string, or an array of exactly one.
extract_claim(user) ==
    CASE user.tenant_id.kind = "string" -> user.tenant_id.id
      [] user.tenant_id.kind = "array" /\ user.tenant_id.size = 1
           /\ user.tenant_id.ids # {} -> CHOOSE id \in user.tenant_id.ids : TRUE
      [] OTHER -> None

HeaderKey(q) == q.carries.header

SubdomainKey(q) == extract_subdomain(q.carries.host)

JwtKey(q) == IF q.user = None THEN None ELSE extract_claim(q.user)

\* With the pattern ^/tenants/([^/]+), on the path without its query.
PathKey(q) ==
    IF Len(q.carries.path) >= 2 /\ q.carries.path[1] = "tenants" THEN q.carries.path[2]
    ELSE None

Extracted(q) ==
    CASE Layer(q).resolver = "header" -> HeaderKey(q)
      [] Layer(q).resolver = "subdomain" -> SubdomainKey(q)
      [] Layer(q).resolver = "jwt" -> JwtKey(q)
      [] Layer(q).resolver = "path" -> PathKey(q)

Stored == {id \in Ids : tenants[id] # None}

find_by_id(id) == Stored \cap {id}

find_by_name(name) == {id \in Stored : tenants[id].name = name}

Found(q) ==
    IF Layer(q).resolver \in {"header", "jwt"} THEN find_by_id(q.key)
    ELSE find_by_name(q.key)

-----------------------------------------------------------------------------
(* What becomes of a request.                                              *)

Passed(q) == [q EXCEPT !.at = "layer", !.layer = @ + 1, !.key = None]

\* Rejected with an error, or dropped: nobody reads it any more.
Rejected == Done

\* Slip: a context that is already there stays.
ContextKept(q) == q

WithoutContext(q) == [q EXCEPT !.context = None, !.by = 0]

WithContext(q, context) == [q EXCEPT !.context = context, !.by = q.layer]

\* The resolver failed, for whatever reason.
Unresolved(q) ==
    IF Layer(q).optional THEN Passed(WithoutContext(q)) ELSE Rejected

\* Slip: with_optional applies to strangers too.
BoundOrAnonymous(q, id) ==
    LET m == Layer(q).membership IN
    IF m = "public" THEN Passed(WithContext(q, with_tenant(id)))
    ELSE IF q.user # None /\ is_member(m, q.user, id)
         THEN Passed(WithContext(q, bound_to_principal(id)))
    ELSE Unresolved(q)

\* The tenant is bound to the principal: 401 without one, 403 for a stranger,
\* also when the tenant is optional.
Bound(q, id) ==
    LET m == Layer(q).membership IN
    IF m = "public" THEN Passed(WithContext(q, with_tenant(id)))
    ELSE IF q.user # None /\ is_member(m, q.user, id)
         THEN Passed(WithContext(q, bound_to_principal(id)))
    ELSE Rejected

Becomes(r, q) == request' = [request EXCEPT ![r] = q]

-----------------------------------------------------------------------------
\* A request comes in, perhaps with a context that the server has preset, empty
\* or of some tenant.
Arrive(r) ==
    /\ request[r].at = "done"
    /\ \E stack \in Stacks, carries \in Carried :
         LET q == [Done EXCEPT !.at = "layer", !.stack = stack, !.layer = 1,
                               !.carries = carries] IN
         \/ Becomes(r, q)
         \/ \E id \in Ids \cup {None} :
              Becomes(r, [q EXCEPT !.context = with_tenant(id)])
    /\ UNCHANGED tenants

AtLayer(r, kind) ==
    /\ request[r].at = "layer"
    /\ request[r].layer \in DOMAIN request[r].stack
    /\ Layer(request[r]).kind = kind

\* The authentication: a valid token is attached, any other request rejected.
Authenticate(r) ==
    /\ AtLayer(r, "auth")
    /\ LET q == request[r] IN
       Becomes(r, IF q.carries.token = None THEN Rejected
                  ELSE [Passed(q) EXCEPT !.user = q.carries.token])
    /\ UNCHANGED tenants

\* Slip: only the context goes.
HandleUnstripped(r) ==
    /\ AtLayer(r, "tenant")
    /\ LET q == WithoutContext(request[r]) IN
       Becomes(r, IF Extracted(q) = None THEN Unresolved(q)
                  ELSE [q EXCEPT !.at = "lookup", !.key = Extracted(q)])
    /\ UNCHANGED tenants

strip_incoming_tenant_headers(q) == [q EXCEPT !.carries.internal = None]

\* Slip: what is not on the request is looked up as well, as the default of a string.
HandleDefaultKey(r) ==
    /\ AtLayer(r, "tenant")
    /\ LET q == WithoutContext(strip_incoming_tenant_headers(request[r])) IN
       Becomes(r, [q EXCEPT !.at = "lookup", !.key = Extracted(q)])
    /\ UNCHANGED tenants

\* TenantMiddleware::handle up to the look-up: internal headers and the context
\* go, the key is read.
Handle(r) ==
    /\ AtLayer(r, "tenant")
    /\ LET q == WithoutContext(strip_incoming_tenant_headers(request[r])) IN
       Becomes(r, IF Extracted(q) = None THEN Unresolved(q)
                  ELSE [q EXCEPT !.at = "lookup", !.key = Extracted(q)])
    /\ UNCHANGED tenants

LookupFails(r) ==
    /\ StoreFails
    /\ request[r].at = "lookup"
    /\ Becomes(r, Unresolved(request[r]))
    /\ UNCHANGED tenants

NotFound(r) ==
    /\ request[r].at = "lookup"
    /\ Found(request[r]) = {}
    /\ Becomes(r, Unresolved(request[r]))
    /\ UNCHANGED tenants

\* Slip: a resolver that forgets to look at `active`.
ResolveInactive(r) ==
    /\ request[r].at = "lookup"
    /\ \E id \in Found(request[r]) :
         LET q == [request[r] EXCEPT !.resolved = @ \cup {<<request[r].layer, id>>}] IN
         Becomes(r, Bound(q, id))
    /\ UNCHANGED tenants

\* The store answers, the tenant must be active and the principal's.
Resolve(r) ==
    /\ request[r].at = "lookup"
    /\ \E id \in Found(request[r]) :
         LET q == [request[r] EXCEPT !.resolved = @ \cup {<<request[r].layer, id>>}] IN
         Becomes(r, IF tenants[id].active THEN Bound(q, id) ELSE Unresolved(request[r]))
    /\ UNCHANGED tenants

EnterHandler(r) ==
    /\ request[r].at = "layer"
    /\ request[r].layer > Len(request[r].stack)
    /\ Becomes(r, [request[r] EXCEPT !.at = "handler"])
    /\ UNCHANGED tenants

\* Slip: the binding stays.
SetTenantKeepsBinding(r, id) ==
    /\ request[r].at = "handler"
    /\ request[r].context # None
    /\ Becomes(r, [request[r] EXCEPT !.context.id = id, !.by = request[r].layer])
    /\ UNCHANGED tenants

\* TenantContext::set_tenant: replacing the tenant clears the binding.
SetTenant(r, id) ==
    /\ request[r].at = "handler"
    /\ request[r].context # None
    /\ Becomes(r, [request[r] EXCEPT !.context = with_tenant(id),
                                     !.by = request[r].layer])
    /\ UNCHANGED tenants

Respond(r) ==
    /\ request[r].at = "handler"
    /\ Becomes(r, Done)
    /\ UNCHANGED tenants

\* The client goes away and the request is dropped.
Drop(r) ==
    /\ request[r].at # "done"
    /\ Becomes(r, Done)
    /\ UNCHANGED tenants

\* Tenants are registered, renamed, suspended, resumed and removed.
Administer ==
    /\ \E id \in Ids, t \in Tenant \cup {None} : tenants' = [tenants EXCEPT ![id] = t]
    /\ UNCHANGED request

Continue(r) ==
    \/ Authenticate(r)
    \/ Handle(r)
    \/ LookupFails(r)
    \/ NotFound(r)
    \/ Resolve(r)
    \/ EnterHandler(r)
    \/ Respond(r)

Next ==
    \/ \E r \in Requests :
         \/ Arrive(r)
         \/ Continue(r)
         \/ Drop(r)
         \/ \E id \in Ids : SetTenant(r, id)
    \/ Administer

\* Requests are polled, the store answers, and handlers end.
Fairness == \A r \in Requests : WF_vars(Continue(r))

Spec == Init /\ [][Next]_vars /\ Fairness

-----------------------------------------------------------------------------
(* Properties.                                                             *)

\* Store and requests keep their types, and a key is kept just for the look-up.
TypeOK ==
    /\ tenants \in [Ids -> Tenant \cup {None}]
    /\ \A r \in Requests :
         LET q == request[r] IN
         /\ DOMAIN q = DOMAIN Done
         /\ q.at \in {"done", "layer", "lookup", "handler"}
         /\ q.user \in UserContext \cup {None}
         /\ q.context \in Contexts \cup {None}
         /\ q.by \in 0 .. Len(q.stack) + 1
         /\ q.at = "lookup" <=> q.key # None

LastTenantLayer(stack) ==
    CHOOSE i \in DOMAIN stack :
        /\ stack[i].kind = "tenant"
        /\ \A j \in DOMAIN stack : j > i => stack[j].kind # "tenant"

\* A context that claims to be bound to the principal is of a tenant of that
\* principal, whatever the layers, and whoever replaced the tenant since.
BoundIsMember ==
    \A r \in Requests :
        LET q == request[r] IN
        q.at = "handler" /\ q.context # None /\ q.context.bound =>
            /\ q.user # None
            /\ is_member("default", q.user, q.context.id)

\* The context a handler finds was made by the last tenant layer, as that is
\* configured, and names a tenant; it finds none only if that layer is optional.
\* Nothing that was preset, or made by an outer layer, gets through, and no header
\* that once carried the tenant.
HandlerContext ==
    \A r \in Requests :
        LET q == request[r]
            last == LastTenantLayer(q.stack) IN
        q.at = "handler" =>
            /\ q.context = None => q.stack[last].optional
            /\ q.context # None => q.by \in {last, q.layer}
            /\ q.context # None => get_tenant_id(q) # None
            /\ q.carries.internal = None
            /\ q.by = last => (q.context.bound <=> q.stack[last].membership # "public")

\* A request that names a tenant is not let through, not even anonymously, by a
\* layer that resolves that tenant and does not find it among the principal's.
ForbiddenStaysOut ==
    \A r \in Requests :
        LET q == request[r] IN
        q.at = "handler" =>
            \A seen \in q.resolved :
                LET m == q.stack[seen[1]].membership IN
                m # "public" => q.user # None /\ is_member(m, q.user, seen[2])

Served(id) ==
    \E r \in Requests :
        /\ request[r].at = "handler"
        /\ get_tenant_id(request[r]) = id
        /\ request[r].by # request[r].layer

Inactive(id) == tenants[id] = None \/ ~tenants[id].active

\* Once a tenant is inactive for good, the requests that were let in before come
\* to an end, and no further one is served for it.
RevocationSettles ==
    \A id \in Ids : <>[]Inactive(id) => <>[]~Served(id)

=============================================================================
