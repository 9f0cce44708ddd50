SPECIFICATION Spec
CONSTANTS
    p1 = p1
    p2 = p2
    bundle = bundle
    spec = spec
    title = title
    c1 = c1
    c2 = c2
    c3 = c3
    NONE = NONE
    Profiles = {p1, p2}
    Skus = {bundle, spec, title}
    Lane <- LaneThree
    Price <- PriceThree
    Limit <- LimitThree
    Stock <- StockThree
    Tokens <- TokensTwo
    Calls = {c1, c2}
    MaxOrders = 2
    SweepLimit = 2
    FailsToStop = 2
    LateCalls = FALSE
    ConfirmRefunds = FALSE
    Reachable = {1, 2}
    Deploys = FALSE
SYMMETRY CallSymmetry
INVARIANTS TokensConserved LimitsHold NoBlindRefund
PROPERTIES KeepsPromise
