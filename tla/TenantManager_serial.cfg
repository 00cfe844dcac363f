SPECIFICATION Spec
CONSTANTS
    None = None
    c1 = c1
    c2 = c2
    i1 = i1
    i2 = i2
    i3 = i3
    acme = acme
    globex = globex
    text = text
    key = key
    Callers = {c1}
    Ids = {i1, i2}
    Slugs = {acme, globex}
    Plans = {"Starter", "Professional"}
    CustomLimits <- MCCustomLimits
    Usages <- MCUsages
    Texts = {text}
    Keys = {key}
    CreateRequests <- MCCreates
    UpdateRequests <- MCUpdates
    ProvisionerFails = TRUE
    CallsAbort = FALSE
INVARIANTS
    SlugUnique
    LimitsMatchPlan
    ResourcesFollowStatus
PROPERTIES
    WritesTouchOwnFields
    UpgradeRelieves
    RollbackFreesSlug
    ProvisioningEnds
