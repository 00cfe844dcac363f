--------------------------- MODULE SchemaSession ---------------------------
(***************************************************************************)
(* A schema per tenant (src/schema.rs, and the validation of schema names  *)
(* in src/tenant.rs): the connections of a pool serve one tenant after     *)
(* another, and keep the search_path that was last set on them.            *)
(*                                                                         *)
(* A call has its connection to itself (&mut P::Connection) and awaits the *)
(* provider.  The server (external) cuts identifiers that are too long.    *)
(* Names are sequences of bytes, all of one case: a provider that does not *)
(* quote them has the server fold the case.                                *)
(***************************************************************************)
EXTENDS TenantNames

CONSTANTS
    Tasks,              \* tasks that serve tenants
    Conns,              \* connections of the pool
    Tenants,            \* tenants, as the application has built them
    Identity,           \* the id and the name of each tenant
    Pattern,            \* name_pattern of the SchemaConfig
    Names,              \* other schema names the application asks for
    Letters,            \* ASCII letters and "_"
    Digits,             \* ASCII digits
    MAX_IDENTIFIER_LEN, \* of PostgreSQL; 63 in the code
    Public,             \* the search_path of a new connection
    None                \* no schema, no connection, no tenant

\* The name a SchemaConfig gives the schema of a tenant.
Configured(tenant) == schema_name(Pattern, Identity[tenant])

AllNames == Names \cup {Public} \cup {Configured(tenant) : tenant \in Tenants}

Bytes == UNION {{name[i] : i \in DOMAIN name} : name \in AllNames}

\* What the pattern and the ids and names of tenants are made of.
Symbols ==
    UNION {Range(string) : string \in {Pattern} \cup
             UNION {{Identity[tenant].id, Identity[tenant].name} : tenant \in Tenants}}

ASSUME PatternAssumption ==
    /\ Pattern \in Seq(Symbols)
    /\ \A tenant \in Tenants : /\ Identity[tenant].id \in Seq(Symbols)
                               /\ Identity[tenant].name \in Seq(Symbols)
ASSUME LengthAssumption == MAX_IDENTIFIER_LEN \in Nat \ {0}
ASSUME NamesAssumption == AllNames \subseteq Seq(Bytes)
ASSUME NoneAssumption == None \notin AllNames \cup Conns \cup Tenants

VARIABLES
    schema,   \* Tenant::schema of each tenant, None when it has none
    path,     \* the search_path in force on each connection
    created,  \* the schemas that exist on the server
    owners,   \* history: tenants whose schema was created, and not dropped since
              \* for a tenant with the same name of schema
    call      \* the call each task has in progress

vars == <<schema, path, created, owners, call>>

-----------------------------------------------------------------------------
\* Slip: the length is not looked at.
IsValidOfAnyLength(name) ==
    /\ name # <<>>
    /\ name[1] \in Letters
    /\ \A i \in DOMAIN name : name[i] \in Letters \cup Digits

is_valid_schema_name(name) ==
    /\ Len(name) \in 1 .. MAX_IDENTIFIER_LEN
    /\ name[1] \in Letters
    /\ \A i \in DOMAIN name : name[i] \in Letters \cup Digits

\* The names with_schema accepts; with another one there is no tenant at all.
with_schema(tenant) ==
    {name \in Names \cup {Configured(tenant)} : is_valid_schema_name(name)}

\* The tenants an application can have built.
Schemas ==
    {s \in [Tenants -> AllNames \cup {None}] :
        \A tenant \in Tenants : s[tenant] \in with_schema(tenant) \cup {None}}

\* What the server makes of an identifier.
Identifier(name) ==
    IF Len(name) > MAX_IDENTIFIER_LEN THEN SubSeq(name, 1, MAX_IDENTIFIER_LEN) ELSE name

Idle == [at |-> "idle", conn |-> None, tenant |-> None]

Init ==
    /\ schema \in Schemas
    /\ path = [conn \in Conns |-> Public]
    /\ created = {Public}
    /\ owners = {}
    /\ call = [t \in Tasks |-> Idle]

Await(t, at, conn, tenant) ==
    call' = [call EXCEPT ![t] = [at |-> at, conn |-> conn, tenant |-> tenant]]

Return(t) == call' = [call EXCEPT ![t] = Idle]

Free(conn) == \A t \in Tasks : call[t].conn # conn

\* The schema that the provider's statement names on the server.
Asked(t) == Identifier(schema[call[t].tenant])

-----------------------------------------------------------------------------
\* Slip: without a schema the path is left alone, and the query runs.
CallWithoutSchema(t, at, conn, tenant) ==
    /\ call[t].at = "idle"
    /\ Free(conn)
    /\ Await(t, IF schema[tenant] = None THEN "query" ELSE at, conn, tenant)
    /\ UNCHANGED <<schema, path, created, owners>>

\* Every method refuses a tenant without a schema before it awaits anything.
Call(t, at, conn, tenant) ==
    /\ call[t].at = "idle"
    /\ Free(conn)
    /\ schema[tenant] # None
    /\ Await(t, at, conn, tenant)
    /\ UNCHANGED <<schema, path, created, owners>>

\* schema_exists, and every call that is refused.
ReadOnly(t) == call[t].at = "idle" /\ UNCHANGED vars

(* TenantQuery::execute: the path is set, then the query runs.             *)

PathSet(t) ==
    /\ call[t].at = "set"
    /\ path' = [path EXCEPT ![call[t].conn] = Asked(t)]
    /\ Await(t, "query", call[t].conn, call[t].tenant)
    /\ UNCHANGED <<schema, created, owners>>

\* Slip: the error is not passed on.
PathErrorIgnored(t) ==
    /\ call[t].at = "set"
    /\ Await(t, "query", call[t].conn, call[t].tenant)
    /\ UNCHANGED <<schema, path, created, owners>>

\* The provider fails, or the future is dropped here: the query does not run.
\* The server may have set the path all the same.
PathError(t) ==
    /\ call[t].at = "set"
    /\ path' \in {path, [path EXCEPT ![call[t].conn] = Asked(t)]}
    /\ Return(t)
    /\ UNCHANGED <<schema, created, owners>>

\* The query ends, well or badly, or is dropped: the connection keeps its path.
QueryEnds(t) ==
    /\ call[t].at = "query"
    /\ Return(t)
    /\ UNCHANGED <<schema, path, created, owners>>

(* SchemaManager::create_schema, drop_schema                               *)

SchemaCreated(t) ==
    /\ call[t].at = "create"
    /\ created' = created \cup {Asked(t)}
    /\ owners' = owners \cup {call[t].tenant}
    /\ Return(t)
    /\ UNCHANGED <<schema, path>>

SchemaDropped(t) ==
    /\ call[t].at = "drop"
    /\ created' = created \ {Asked(t)}
    /\ owners' = {o \in owners : schema[o] # schema[call[t].tenant]}
    /\ Return(t)
    /\ UNCHANGED <<schema, path>>

\* The provider fails, or the future is dropped, and nothing was done.
ProviderError(t) ==
    /\ call[t].at \in {"create", "drop"}
    /\ Return(t)
    /\ UNCHANGED <<schema, path, created, owners>>

\* The pool replaces a connection that nobody uses.
Reconnect(conn) ==
    /\ Free(conn)
    /\ path' = [path EXCEPT ![conn] = Public]
    /\ UNCHANGED <<schema, created, owners, call>>

Next ==
    \/ \E t \in Tasks :
         \/ \E at \in {"set", "create", "drop"}, conn \in Conns, tenant \in Tenants :
              Call(t, at, conn, tenant)
         \/ ReadOnly(t)
         \/ PathSet(t)
         \/ PathError(t)
         \/ QueryEnds(t)
         \/ SchemaCreated(t)
         \/ SchemaDropped(t)
         \/ ProviderError(t)
    \/ \E conn \in Conns : Reconnect(conn)

Spec == Init /\ [][Next]_vars

-----------------------------------------------------------------------------
(* Properties.                                                             *)

\* The variables keep their types, a call is for a tenant that has a schema, and
\* a connection is lent to one call at most.
TypeOK ==
    /\ schema \in Schemas
    /\ path \in [Conns -> Seq(Bytes)]
    /\ created \subseteq Seq(Bytes)
    /\ owners \subseteq Tenants
    /\ call \in [Tasks -> {Idle} \cup [at : {"set", "query", "create", "drop"},
                                       conn : Conns, tenant : Tenants]]
    /\ \A t \in Tasks : call[t] # Idle => schema[call[t].tenant] # None
    /\ \A t, u \in Tasks : call[t].conn = call[u].conn => t = u \/ call[t] = Idle

\* A query that TenantQuery runs for a tenant sees exactly the schema the tenant
\* is configured with, whatever the connection was used for before, and whichever
\* calls failed or were dropped in between.
QueriesOwnSchema ==
    \A t \in Tasks :
        call[t].at = "query" => path[call[t].conn] = schema[call[t].tenant]

\* The schema of a tenant is there from its creation until it is dropped by name:
\* dropping the schema of one tenant does not take away that of another.
SchemaStays == \A o \in owners : schema[o] \in created

\* A pattern such as the default "tenant_{id}", and two ids it can tell apart.  With
\* another "{" in the pattern or in an id, an id may complete a "{name}".
ToldApart(tenant, other) ==
    /\ Starts(Pattern, IdPlace) # {}
    /\ \A i \in DOMAIN Pattern : Pattern[i] = "{" => i \in Starts(Pattern, IdPlace)
    /\ Identity[tenant].id # Identity[other].id
    /\ \A o \in {tenant, other} : "{" \notin Range(Identity[o].id)

\* Tenants whose schema is named by the configuration never query in one schema:
\* not when they have the same name, nor when the server cuts what is too long.
TenantsApart ==
    \A t, u \in Tasks :
        LET tenant == call[t].tenant
            other == call[u].tenant IN
        /\ call[t].at = "query" /\ call[u].at = "query" /\ tenant # other
        /\ schema[tenant] = Configured(tenant) /\ schema[other] = Configured(other)
        /\ ToldApart(tenant, other)
        => path[call[t].conn] # path[call[u].conn]
=============================================================================
