SPECIFICATION Spec
CONSTANTS
    Urls = {u1, u2}
    Ttls = {1}
    Backoff = 1
    AgeCap = 2
    MaxGeneration = 2
    Fetchers = {f1, f2}
    NoUrl = NoUrl
INVARIANTS
    CatalogMatchesUrl
PROPERTIES
    NothingPublishedAfterClose
    StaleKeepsTrying
