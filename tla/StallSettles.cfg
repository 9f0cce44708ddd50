SPECIFICATION FairSpec
CONSTANTS
    p1 = p1
    p2 = p2
    bundle = bundle
    spec = spec
    title = title
    c1 = c1
    c2 = c2
    c3 = c3
    NONE = NONE
    Profiles = {p1}
    Skus = {bundle}
    Lane <- LaneOne
    Price <- PriceOne
    Limit <- LimitQueue
    Stock <- StockOne
    Tokens <- TokensOne
    Calls = {c1}
    MaxOrders = 2
    SweepLimit = 2
    FailsToStop = 2
    LateCalls = TRUE
    ConfirmRefunds = FALSE
    Reachable = {2}
    Deploys = FALSE
PROPERTY EveryOrderSettles
