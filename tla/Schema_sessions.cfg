SPECIFICATION Spec
CONSTANTS
    None = None
    t1 = t1
    t2 = t2
    conn1 = conn1
    conn2 = conn2
    acme = acme
    globex = globex
    Tasks = {t1, t2}
    Conns = {conn1, conn2}
    Tenants = {acme, globex}
    Identity <- MCIdentity
    Pattern <- MCPattern
    Names <- MCNames
    Letters = {"a", "p", "x", "y"}
    Digits = {"1"}
    MAX_IDENTIFIER_LEN = 2
    Public <- MCPublic
INVARIANTS
    TypeOK
    QueriesOwnSchema
    SchemaStays
    TenantsApart
