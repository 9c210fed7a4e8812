SPECIFICATION Spec
CONSTANTS
    NoOrder = NoOrder
    Orders = {o1}
    BankOrders = {o1}
    BridgedOrders = {}
    RebatedOrders = {}
    Workers = {w1}
    Operations = {"fund", "release", "retrySettlement", "refreshPayout", "refund", "reconcile", "markFunding", "ship", "expire"}
    MaxSwaps = 0
    MaxPayouts = 1
    MaxFaults = 0
    MaxExpiries = 0
PROPERTY RefusalsStall
