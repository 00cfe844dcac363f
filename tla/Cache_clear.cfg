SPECIFICATION Spec
CONSTANTS
    None = None
    c1 = c1
    c2 = c2
    Callers = {c1, c2}
    Bytes <- MCBytes
    Digits <- MCDigits
    Lengths <- MCLengths
    Decimal <- MCDecimal
    Ids <- MCIds
    PartLists <- MCPartLists
    ProviderFails = TRUE
INVARIANTS
    TypeOK
    ReadsOwn
    ClearedIsClear
PROPERTIES
    ClearTouchesOwn
    ImplementsPrivateCaches
    ClearEnds
