SPECIFICATION FairSpec
CONSTANTS
    M = 2
    a = a
    b = b
    v1 = v1
    v2 = v2
    Maps <- OneMap
    Slots <- Slots7
    Keys <- Keys5
    Values <- TwoValues
    NULL = NULL
    ReuseAfterClear = FALSE
PROPERTIES
    RebalanceEnds
    Implements
    CallsDoWhatTheySay
VIEW Canonical
