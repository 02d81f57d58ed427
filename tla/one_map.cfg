SPECIFICATION Spec
CONSTANTS
    M = 2
    a = a
    b = b
    v1 = v1
    v2 = v2
    Maps <- OneMap
    Slots <- Slots14
    Keys <- Keys8
    Values <- OneValue
    NULL = NULL
    ReuseAfterClear = FALSE
INVARIANTS
    TypeOK
    NodeShape
    ParentAgrees
    RootsAgree
    Occupancy
    Validates
    LookupComplete
    StoreAccounted
    IInv
VIEW Canonical
