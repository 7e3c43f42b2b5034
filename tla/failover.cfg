SPECIFICATION HotFairSpec
CONSTANTS
    Gens = {1, 2}
    Providers = {"keyed", "other"}
    k1 = k1
    k2 = k2
    k3 = k3
    Keys = {k1, k2, k3}
    Models = {"m1", "m2"}
    Combos = {"main", "relay"}
    Requests = {r1, r2}
    Configs = {"ff", "rr", "before", "after"}
    Timed = {"rr", "after"}
    Members <- MCMembers
    ComboStrategy <- MCComboStrategy
    KeysOf <- MCKeysOf
    KeyStrategy <- MCKeyStrategy
    MaxRetries <- MCMaxRetries
    Relay <- MCRelay
    Rules <- MCRules
    NoModel = NoModel
    NoKey = NoKey
    NoMember = NoMember
    NoCombo = NoCombo
INVARIANTS
    SingleReply
    EveryCallRecorded
    ExhaustedMeansAllTried
    CallsWithinBudget
    InFlightUsesOwnSnapshot
PROPERTIES
    CooldownsSurviveReload
    GiveUpJustified
    EveryRequestAnswered
ACTION_CONSTRAINT
    OnlyAfterBefore
CHECK_DEADLOCK FALSE
