-------------------------- MODULE MCSchemaSession --------------------------
(* A small instance of SchemaSession for TLC: identifiers of two bytes at  *)
(* most, names around that length, and names with other bytes in them.     *)
EXTENDS SchemaSession

CONSTANTS t1, t2, conn1, conn2, acme, globex

MCNames ==
    {<<"a">>, <<"a", "1">>, <<"a", "1", "x">>, <<"a", "1", "y">>, <<"1", "a">>,
     <<"a", ";">>, <<>>}

MCPublic == <<"p">>

\* Two tenants of one name, as ids tell tenants apart and names need not.
MCIdentity ==
    [tenant \in Tenants |->
        [id |-> IF tenant = acme THEN <<"x">> ELSE <<"1">>, name |-> <<"y">>]]

MCPattern == <<"a", "{", "i", "d", "}">>
=============================================================================
