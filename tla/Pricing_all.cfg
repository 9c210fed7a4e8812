\* Small amounts and large fees and buffers: every rounding of units.ts and
\* fee.ts, both roads, and the search of grossUpForFee to its end.
SPECIFICATION FairSpec
CONSTANTS
    Prices = {1, 3}
    Fees = {0, 3333, 9000}
    Buffers = {0, 5000}
    Amounts = {0, 1, 2, 3, 4}
    Minimums = {0, 2, 3}
    Divisor = 2
INVARIANTS
    TypeOK
    PricingInv
    SmallestGross
    SellerNeverShort
    BufferIsEnough
PROPERTIES
    SearchEnds
CHECK_DEADLOCK FALSE
