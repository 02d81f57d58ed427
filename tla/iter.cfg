SPECIFICATION IntoIterSpec
CONSTANTS
    M = 2
    a = a
    b = b
    v1 = v1
    v2 = v2
    Maps <- OneMap
    Slots <- Slots12
    Keys <- Keys6
    Values <- TwoValues
    NULL = NULL
    ReuseAfterClear = FALSE
CONSTRAINT FewLeftBehind
INVARIANTS
    EachEntryOnce
    WritesOwnEntry
    OwnsEachEntryOnce
    NeededNodesKept
    GivesNodesBack
VIEW CanonicalIter
