SPECIFICATION Spec
CONSTANTS
    NoOrder = NoOrder
    Orders = {o1}
    BankOrders = {}
    BridgedOrders = {}
    RebatedOrders = {o1}
    Workers = {w1}
    Operations = {"fund", "release", "retrySettlement", "refreshPayout", "refund", "reconcile", "markFunding", "ship", "expire"}
    MaxSwaps = 2
    MaxPayouts = 0
    MaxFaults = 0
    MaxExpiries = 0
INVARIANT SwappedOnce
