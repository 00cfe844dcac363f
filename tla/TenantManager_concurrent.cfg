SPECIFICATION Spec
CONSTANTS
    None = None
    c1 = c1
    c2 = c2
    i1 = i1
    i2 = i2
    i3 = i3
    acme = acme
    globex = globex
    text = text
    key = key
    Callers = {c1, c2}
    Ids = {i1, i2, i3}
    Slugs = {acme}
    Plans = {"Free"}
    CustomLimits = {}
    Usages <- MCDefaultUsages
    Texts = {text}
    Keys = {key}
    CreateRequests <- MCPlainCreates
    UpdateRequests <- MCPlainUpdates
    ProvisionerFails = TRUE
    CallsAbort = TRUE
SYMMETRY Symmetry
INVARIANTS
    TypeOK
    RecordCoherent
    SlugRaceBounded
PROPERTIES
    IdentityIsForLife
