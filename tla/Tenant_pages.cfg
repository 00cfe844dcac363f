SPECIFICATION Spec
CONSTANTS
    None = None
    i1 = i1
    i2 = i2
    i3 = i3
    Ids = {i1, i2, i3}
    Looks <- MCLooks
    Filters <- MCFilters
    Buckets = {0, 1, 2}
    Instants = 3
    Removals = 1
    WORDS = 4
SYMMETRY Symmetry
INVARIANTS
    TypeOK
    PageIsExact
    WalkIsComplete
    RemovalHidesOne
