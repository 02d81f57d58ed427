SPECIFICATION RangeSpec
CONSTANTS
    M = 2
    a = a
    b = b
    v1 = v1
    v2 = v2
    Maps <- OneMap
    Slots <- Slots10
    Keys <- Keys5
    Values <- OneValue
    NULL = NULL
    ReuseAfterClear = FALSE
INVARIANTS
    BoundsExact
    RangeCursorsAlive
    RangeInOrder
    OmitsAtMostOne
VIEW CanonicalRange
