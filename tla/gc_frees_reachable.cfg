SPECIFICATION GcSpec
CONSTANTS
    M = 2
    a = a
    b = b
    v1 = v1
    v2 = v2
    Maps <- OneMap
    Slots <- Slots8
    Keys <- Keys4
    Values <- OneValue
    NULL = NULL
    ReuseAfterClear = FALSE
INVARIANTS
    ReachableNodesStay
\* what NodeIter does once it has gone astray is undefined: the behaviour ends there
CHECK_DEADLOCK FALSE
