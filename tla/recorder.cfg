SPECIFICATION Spec
CONSTANTS
    Rows = {a, b, c}
    a = a
    b = b
    c = c
    Kinds = {"request", "mcp"}
    KindOf <- MCKindOf
    Capacity = 1
    NoRow = NoRow
INVARIANTS
    RowsAccounted
    CloseFlushesQueue
    FlushCoversQuietCallers
PROPERTIES
    FlushReturns
    CloseReturns
CHECK_DEADLOCK FALSE
