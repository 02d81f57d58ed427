SPECIFICATION PanicSpec
CONSTANTS
    M = 4
    a = a
    b = b
    v1 = v1
    v2 = v2
    Maps <- OneMap
    Slots <- Slots6
    Keys <- Keys5
    Values <- OneValue
    NULL = NULL
    ReuseAfterClear = FALSE
INVARIANTS
    RootlessIsEmpty
VIEW CanonicalPanic
