SPECIFICATION Spec
CONSTANTS
    None = None
    r1 = r1
    t1 = t1
    t2 = t2
    Requests = {r1}
    Ids = {t1, t2}
    Names = {"acme", "globex"}
    BaseDomain <- MCBaseDomain
    Carried <- MCCarried
    Stacks <- MCStacks
    StoreFails = TRUE
INVARIANTS
    TypeOK
    BoundIsMember
    HandlerContext
    ForbiddenStaysOut
PROPERTIES
    RevocationSettles
