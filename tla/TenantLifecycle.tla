-------------------------- MODULE TenantLifecycle --------------------------
(***************************************************************************)
(* What the tenant manager promises: the life of a tenant as the comments  *)
(* of TenantStatus and of the methods of TenantManager tell it, one step   *)
(* per change of status, and slugs that identify the registered tenants.   *)
(*                                                                         *)
(*   Unborn -> Provisioning -> Active <-> Suspended                        *)
(*                  |             \         /                              *)
(*                  v              v       v                               *)
(*                 Gone <- Terminated <- Terminating                       *)
(*                                                                         *)
(* The code lets suspend, activate and terminate start from any status but *)
(* Terminated, so the drawing shows the usual course and not every step.   *)
(***************************************************************************)

CONSTANTS Ids, Slugs, None

Registered == {"Provisioning", "Active", "Suspended", "Terminating", "Terminated"}

Phases == Registered \cup {"Unborn", "Gone"}

VARIABLES
    phase,  \* phase[id]: where the tenant is in its life
    slug    \* slug[id]: its slug while it is registered

vars == <<phase, slug>>

Init ==
    /\ phase = [id \in Ids |-> "Unborn"]
    /\ slug = [id \in Ids |-> None]

Move(id, from, to) ==
    /\ phase[id] \in from
    /\ phase' = [phase EXCEPT ![id] = to]
    /\ UNCHANGED slug

Leave(id, from) ==
    /\ phase[id] \in from
    /\ phase' = [phase EXCEPT ![id] = "Gone"]
    /\ slug' = [slug EXCEPT ![id] = None]

\* create: the slug is free, the id has never been used.
Register(id, s) ==
    /\ phase[id] = "Unborn"
    /\ \A other \in Ids : slug[other] # s
    /\ phase' = [phase EXCEPT ![id] = "Provisioning"]
    /\ slug' = [slug EXCEPT ![id] = s]

\* A create that ends before it has registered anything wastes its id.
Discard(id) == Leave(id, {"Unborn"})

\* A create whose provisioning fails leaves nothing behind.
Cancel(id) == Leave(id, {"Provisioning"})

Activate(id) == Move(id, Registered \ {"Terminated"}, "Active")

Suspend(id) == Move(id, Registered \ {"Terminated"}, "Suspended")

BeginTermination(id) == Move(id, Registered \ {"Terminated"}, "Terminating")

Terminate(id) == Move(id, {"Terminating"}, "Terminated")

\* delete: "Must be terminated first".
Delete(id) == Leave(id, {"Terminated"})

Next ==
    \E id \in Ids :
        \/ \E s \in Slugs : Register(id, s)
        \/ Discard(id)
        \/ Cancel(id)
        \/ Activate(id)
        \/ Suspend(id)
        \/ BeginTermination(id)
        \/ Terminate(id)
        \/ Delete(id)

Spec == Init /\ [][Next]_vars
=============================================================================
