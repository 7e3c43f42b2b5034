SPECIFICATION Spec
CONSTANTS
    p1 = p1
    p2 = p2
    i1 = i1
    i2 = i2
    Names = {n1, n2, n3}
    Groups = {"team"}
    Models = {1}
    MaxMembers = 2
    MaxClicks = 4
    McpProviders = {p1, p2}
    Items = {i1, i2}
    All = All
    ItemsOf <- MCItemsOf
    MaxEntries = 2
    MaxEdits = 3
    Calls = {c1, c2}
    Flows = {f1}
    Seconds = {s1}
    MaxRefresh = 2
    MaxRows = 2
    Filters = {0, 1}
    MaxInFlight = 2
    MaxActs = 2
    MaxData = 1
    MaxFails = 1
    McpCombos = {b1, b2}
    NoCombo = NoCombo
    Tools = {1, 2}
    MaxToolLoads = 3
    MaxChoices = 5
    Listed <- MCListedPairs
    UpstreamNames <- MCUpstreamNames
    MaxTries = 4
INVARIANTS
    ShownIsWhatRuns
    RevivedOnlyByRefresh
    RefreshTokenKept
    QuietPageShowsItsQuery
    ToolOfShownCombo
    FormatAccepted
PROPERTIES
    QuietSuggestionIsLocal
    AutoRefreshConverges
CHECK_DEADLOCK FALSE
