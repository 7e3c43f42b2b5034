SPECIFICATION HotSpec
CONSTANTS
    Gens = {1}
    Providers = {"keyed", "other"}
    k1 = k1
    k2 = k2
    k3 = k3
    Keys = {k1, k2, k3}
    Models = {"m1", "m2"}
    Combos = {"main", "relay"}
    Requests = {r1, r2}
    Configs = {"ff", "rr"}
    Timed = {"rr"}
    Members <- MCMembers
    ComboStrategy <- MCComboStrategy
    KeysOf <- MCKeysOf
    KeyStrategy <- MCKeyStrategy
    MaxRetries <- MCMaxRetries
    Relay <- MCRelay
    Rules <- MCRules
    NoModel = NoModel
    NoKey = NoKey
    NoMember = NoMember
    NoCombo = NoCombo
INVARIANT
    AttemptsWithinMaxRetries
CHECK_DEADLOCK FALSE
