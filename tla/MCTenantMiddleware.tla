------------------------- MODULE MCTenantMiddleware -------------------------
(* A small instance of TenantMiddleware for TLC: two tenants, and the      *)
(* requests and stacks of layers that tell the cases of the code apart.    *)
EXTENDS TenantMiddleware

CONSTANTS r1, t1, t2

MCBaseDomain == <<"example", "com">>

Absent == [kind |-> "absent"]
Other == [kind |-> "other"]
String(id) == [kind |-> "string", id |-> id]
Array(ids, size) == [kind |-> "array", ids |-> ids, size |-> size]

MCTokens ==
    {None,
     [tenants |-> Array({t1}, 1), tenant_id |-> String(t2)],
     [tenants |-> Absent, tenant_id |-> String(t1)],
     [tenants |-> Absent, tenant_id |-> Array({t1}, 1)],
     [tenants |-> Array({t1, t2}, 2), tenant_id |-> Array({t1}, 2)],
     [tenants |-> Other, tenant_id |-> Other]}

\* The tenant is named by header, host and path alike, or not at all.
MCCarried ==
    {[header |-> t1, internal |-> t2, host |-> <<"acme", "example", "com">>,
      path |-> <<"tenants", "acme", "users">>, token |-> token] : token \in MCTokens}
    \cup {[header |-> None, internal |-> t1,
           host |-> <<"www", "acme", "example", "com">>, path |-> <<"users">>,
           token |-> token] : token \in MCTokens}

Auth == [kind |-> "auth"]
Layered(resolver, optional, membership) ==
    [kind |-> "tenant", resolver |-> resolver, optional |-> optional,
     membership |-> membership]

MCStacks ==
    {<<Auth, Layered(res, opt, "default")>> : res \in Resolvers, opt \in BOOLEAN}
    \cup {<<Layered("header", opt, "default"), Auth>> : opt \in BOOLEAN}
    \cup {<<Layered("subdomain", TRUE, "public"), Auth, Layered("jwt", opt, "tenants")>> :
            opt \in BOOLEAN}
=============================================================================
