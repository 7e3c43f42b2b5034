SPECIFICATION UserTokensSpec
CONSTANTS
    Calls = {c1, c2}
    Flows = {f1}
    Seconds = {s1}
    MaxRefresh = 2
    MaxRows = 2
INVARIANT RevokedStaysRevoked
CHECK_DEADLOCK FALSE
