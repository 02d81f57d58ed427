SPECIFICATION IntoIterSpec
CONSTANTS
    M = 2
    a = a
    b = b
    v1 = v1
    v2 = v2
    Maps <- TwoMaps
    Slots <- Slots8
    Keys <- Keys3
    Values <- OneValue
    NULL = NULL
    ReuseAfterClear = FALSE
CONSTRAINT FewLeftBehind
INVARIANTS
    CursorsAlive
    NodesStayOwned
PROPERTIES
    OnlyOwnMap
VIEW CanonicalIter
