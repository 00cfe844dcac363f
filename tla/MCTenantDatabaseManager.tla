---------------------- MODULE MCTenantDatabaseManager ----------------------
(* A small instance of TenantDatabaseManager for TLC: two tenants with     *)
(* databases named by a TenantDatabaseConfig, and one without.             *)
EXTENDS TenantDatabaseManager, TenantNames, TLC

CONSTANTS t1, t2, t3, acme, globex, bare

MCPattern == NamePlace \o <<"_">> \o IdPlace

\* The databases of two tenants of one name.
MCNames ==
    [id \in {"1", "2"} |-> database_name(MCPattern, [id |-> <<id>>, name |-> <<"a">>])]

MCDatabase == acme :> MCNames["1"] @@ globex :> MCNames["2"] @@ bare :> None
=============================================================================
