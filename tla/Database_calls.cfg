SPECIFICATION Spec
CONSTANTS
    None = None
    t1 = t1
    t2 = t2
    t3 = t3
    acme = acme
    globex = globex
    bare = bare
    Tasks = {t1, t2, t3}
    Tenants = {acme, globex, bare}
    database <- MCDatabase
    CallsCancel = TRUE
INVARIANTS
    TypeOK
    OneConnectionPerDatabase
    InvalidationIsFinal
    SomebodyMoves
PROPERTIES
    EveryCallEnds
