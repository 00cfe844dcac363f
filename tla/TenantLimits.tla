---------------------------- MODULE TenantLimits ----------------------------
(***************************************************************************)
(* The figures of plans and of usage (TenantLimits and TenantUsage in      *)
(* src/management.rs).  Storage is counted in gigabytes.  `custom` limits  *)
(* and usage, which nothing in the crate reads, and last_updated are left  *)
(* out.                                                                    *)
(***************************************************************************)
EXTENDS Naturals

CONSTANT None  \* an absent Option; as a limit, none

AllPlans == {"Free", "Starter", "Professional", "Enterprise", "Custom"}

Metrics == {"users", "storage", "api_requests", "connections"}

TenantLimits == [Metrics -> Nat \cup {None}]

TenantUsage == [Metrics -> Nat]

DefaultUsage == [m \in Metrics |-> 0]

Tier(users, storage, api_requests, connections) ==
    [m \in Metrics |-> CASE m = "users" -> users
                         [] m = "storage" -> storage
                         [] m = "api_requests" -> api_requests
                         [] m = "connections" -> connections]

\* Slip: a zero is missing.
ForPlanMistyped(plan) ==
    CASE plan = "Free" -> Tier(5, 1, 10000, 10)
      [] plan = "Starter" -> Tier(25, 10, 100000, 50)
      [] plan = "Professional" -> Tier(100, 100, 1000000, 20)
      [] OTHER -> Tier(None, None, None, None)

\* Enterprise and Custom are unlimited.
for_plan(plan) ==
    CASE plan = "Free" -> Tier(5, 1, 10000, 10)
      [] plan = "Starter" -> Tier(25, 10, 100000, 50)
      [] plan = "Professional" -> Tier(100, 100, 1000000, 200)
      [] OTHER -> Tier(None, None, None, None)

\* The metrics whose usage is over their limit.
exceeds_limits(usage, limits) ==
    {m \in Metrics : limits[m] # None /\ usage[m] > limits[m]}
=============================================================================
