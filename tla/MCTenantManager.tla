-------------------------- MODULE MCTenantManager --------------------------
(* Small instances of TenantManager for TLC: the names its cfg files give  *)
(* to callers, ids, slugs and texts, and the requests they make.           *)
EXTENDS TenantManager, TLC

CONSTANTS c1, c2, i1, i2, i3, acme, globex, text, key

Asking(slug, plan, limits) ==
    [slug |-> slug, display_name |-> None, domain |-> None, plan |-> plan,
     owner_id |-> None, metadata |-> <<>>, custom_limits |-> limits]

Nothing ==
    [display_name |-> None, domain |-> None, plan |-> None, metadata |-> None,
     limits |-> None]

\* Plain tenants and an update of nothing, where requests do not matter.
MCPlainCreates == {Asking(slug, "Free", None) : slug \in Slugs}
MCPlainUpdates == {Nothing}
MCDefaultUsages == {DefaultUsage}

\* One user too many for Starter, storage on its edge.
MCBusy == Tier(26, 10, 0, 50)
MCUsages == {DefaultUsage, MCBusy}

MCNegotiated == Tier(20, None, 10, 200)
MCCustomLimits == {MCNegotiated}

\* A plain tenant and one with a profile and negotiated limits ...
MCCreates ==
    {Asking(acme, "Starter", None),
     [Asking(globex, "Professional", MCNegotiated) EXCEPT
        !.display_name = text, !.domain = text, !.owner_id = text,
        !.metadata = [k \in {key} |-> text]]}

\* ... whose profile, plan and limits are then changed, together or alone.
MCUpdates ==
    {[Nothing EXCEPT !.plan = "Starter"],
     [Nothing EXCEPT !.plan = "Professional", !.display_name = text,
                     !.domain = [to |-> text], !.metadata = <<>>],
     [Nothing EXCEPT !.limits = MCNegotiated, !.domain = [to |-> None]]}

\* Callers and ids are interchangeable: nothing orders them, and no property
\* that is checked with this reduction singles one out or is a liveness one.
Symmetry == Permutations({c1, c2}) \cup Permutations({i1, i2, i3})
=============================================================================
