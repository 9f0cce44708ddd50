SPECIFICATION Spec
CONSTANTS
    p1 = p1
    p2 = p2
    bundle = bundle
    spec = spec
    title = title
    c1 = c1
    c2 = c2
    c3 = c3
    NONE = NONE
    Profiles = {p1}
    Skus = {bundle}
    Lane <- LaneOne
    Price <- PriceOne
    Limit <- LimitOne
    Stock <- StockOne
    Tokens <- TokensOne
    Calls = {c1, c2, c3}
    MaxOrders = 2
    SweepLimit = 1
    FailsToStop = 1
    LateCalls = TRUE
    ConfirmRefunds = FALSE
    Reachable = {1, 2}
    Deploys = FALSE
SYMMETRY CallSymmetry
INVARIANT NoBlindRefund
