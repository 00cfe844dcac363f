--------------------------- MODULE MCTenantPages ---------------------------
(* A small instance of TenantPages for TLC: looks and filters that differ  *)
(* in each of the things a filter may ask for.                             *)
EXTENDS TenantPages, TLC

CONSTANTS i1, i2, i3

MCLooks ==
    {[status |-> "Active", plan |-> "Free", owner |-> "ann", words |-> {"acme"}],
     [status |-> "Suspended", plan |-> "Starter", owner |-> None, words |-> {"globex"}]}

MCFilters == {[status |-> "Active", plan |-> None, owner |-> "ann", search |-> "acme"]}

\* Ids are interchangeable.
Symmetry == Permutations({i1, i2, i3})
=============================================================================
