SPECIFICATION AccessSpec
CONSTANTS
    None = None
    c1 = c1
    r1 = r1
    i1 = i1
    i2 = i2
    acme = acme
    globex = globex
    text = text
    key = key
    Callers = {c1}
    Ids = {i1, i2}
    Slugs = {acme, globex}
    Plans = {"Free"}
    CustomLimits = {}
    Usages <- MCUsages
    Texts = {text}
    Keys = {key}
    CreateRequests <- MCCreates
    UpdateRequests <- MCUpdates
    ProvisionerFails = TRUE
    CallsAbort = TRUE
    Requests = {r1}
    BaseDomain <- MCBaseDomain
    Carried <- MCCarried
    Stacks <- MCStacks
    StoreFails = TRUE
INVARIANTS
    NoOrphanResources
PROPERTIES
    ImplementsLifecycle
    ShutTenantsAdmitNobody
    TerminationDrains
