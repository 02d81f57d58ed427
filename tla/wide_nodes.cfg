SPECIFICATION PanicSpec
CONSTANTS
    M = 4
    a = a
    b = b
    v1 = v1
    v2 = v2
    Maps <- OneMap
    Slots <- Slots14
    Keys <- Keys16
    Values <- OneValue
    NULL = NULL
    ReuseAfterClear = FALSE
INVARIANTS
    ParentAgrees
    OccupiedButForPanics
    LookupComplete
    ValidButForLost
    LeftBehindApart
VIEW CanonicalPanic
ACTION_CONSTRAINT FillPanicDrain
PROPERTIES
    PanicsLoseOneEntry
