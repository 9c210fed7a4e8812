SPECIFICATION MarketFairSpec
CONSTANTS
    o1 = o1
    o2 = o2
    o3 = o3
    w1 = w1
    w2 = w2
    s1 = s1
    s2 = s2
    NoOrder = NoOrder
    Orders = {o1, o2, o3}
    BankOrders = {o1, o3}
    BridgedOrders = {}
    RebatedOrders = {o1, o2}
    Workers = {w1, w2, s1, s2}
    Screens = {w1, w2}
    SweepOf <- SweepsOfOne
    Scenes <- AllScenes
    Operations = {"release", "retrySettlement", "refreshPayout", "refund", "ship"}
    MaxSwaps = 2
    MaxPayouts = 1
    MaxFaults = 1
    MaxExpiries = 0
INVARIANTS MarketTypeOK WindowRespected ForwardedOnce OffersMatchEscrow
PROPERTIES DisputeIsJudged PayoutIsFollowed
