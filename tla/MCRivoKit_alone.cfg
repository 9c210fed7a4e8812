SPECIFICATION OneOrderFairSpec
CONSTANTS
    NoOrder = NoOrder
    Orders = {o1, o2}
    BankOrders = {o1}
    BridgedOrders = {o1, o2}
    RebatedOrders = {o1, o2}
    Workers = {w1}
    Operations = {"fund", "release", "retrySettlement", "refreshPayout", "refund", "reconcile", "markFunding", "ship", "expire"}
    MaxSwaps = 2
    MaxPayouts = 2
    MaxFaults = 1
    MaxExpiries = 3
INVARIANTS RoadsStayApart AnnouncedOnce PayoutIsTracked EvidenceInv AloneInv PaidOrRefundedOnce RecordAgreesWithMoney
PROPERTIES PayoutIsSettled FundingIsReconciled
