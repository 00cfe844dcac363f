--------------------------- MODULE MCTenantAccess ---------------------------
(* A small instance of TenantAccess for TLC: one request at a time, made   *)
(* with a token of one of the tenants, by its id or by its slug.           *)
EXTENDS TenantAccess

CONSTANTS c1, r1, i1, i2, acme, globex, text, key

MCCreates ==
    {[slug |-> slug, display_name |-> None, domain |-> None, plan |-> "Free",
      owner_id |-> None, metadata |-> <<>>, custom_limits |-> None] : slug \in Slugs}

MCUpdates ==
    {[display_name |-> None, domain |-> None, plan |-> None, metadata |-> None,
      limits |-> None]}

MCUsages == {DefaultUsage}

MCBaseDomain == <<"example", "com">>

MCCarried ==
    {[header |-> i1, internal |-> None, host |-> <<acme, "example", "com">>,
      path |-> <<>>,
      token |-> [tenants |-> [kind |-> "string", id |-> i1],
                 tenant_id |-> [kind |-> "absent"]]]}

MCStacks ==
    {<<[kind |-> "auth"],
       [kind |-> "tenant", resolver |-> "header", optional |-> FALSE,
        membership |-> "tenants"]>>,
     <<[kind |-> "tenant", resolver |-> "subdomain", optional |-> TRUE,
        membership |-> "public"]>>}
=============================================================================
