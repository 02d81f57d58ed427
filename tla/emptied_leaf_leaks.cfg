SPECIFICATION Spec
CONSTANTS
    M = 2
    a = a
    b = b
    v1 = v1
    v2 = v2
    Maps <- OneMap
    Slots <- Slots8
    Keys <- Keys4
    Values <- OneValue
    NULL = NULL
    ReuseAfterClear = FALSE
INVARIANTS
    NoLeak
VIEW Canonical
