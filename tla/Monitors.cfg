CONSTANTS
    o = o
    g = g
    s = s
    x = x
    Types = {"t1", "t2"}
    Prefix = "t*"
    Values = {x}
    MaxTime = 2
    NoList = NoList
    Clients <- Everybody
    Owner = o
    Grantees <- OneGrantee
    Nobody = Nobody
    Capabilities = {"observe", "act"}
    DefaultGrant = {"observe"}
    StoredFilters <- TwoFilters
    InlineFilters <- AskedFilters
SPECIFICATION Spec
INVARIANTS
    GrantsAreBacked
    ConfigOnRecord
    NothingInflated
    InlineNarrows
