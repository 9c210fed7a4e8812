SPECIFICATION Spec
CONSTANTS
    NoOrder = NoOrder
    Orders = {o1}
    BankOrders = {}
    BridgedOrders = {o1}
    RebatedOrders = {o1}
    Workers = {w1, w2}
    Operations = {"fund", "release", "retrySettlement", "refund", "reconcile"}
    MaxSwaps = 2
    MaxPayouts = 0
    MaxFaults = 0
    MaxExpiries = 3
SYMMETRY WorkersAreAlike
INVARIANTS TypeOK LedgerIsEvidence AnnouncementsAreBacked
PROPERTY RecordNeverAhead
