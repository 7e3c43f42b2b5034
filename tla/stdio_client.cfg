SPECIFICATION Spec
CONSTANTS
    c1 = c1
    c2 = c2
    Callers = {c1, c2}
    Nobody = Nobody
    MaxCalls = 2
    MaxExits = 1
INVARIANTS
    NobodyIsForgotten
    NoSendBlocks
    RunsAtMostOnce
    NotInitializedMeansExit
PROPERTIES
    CallsEnd
CHECK_DEADLOCK FALSE
