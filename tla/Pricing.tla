------------------------------ MODULE Pricing ------------------------------
(***************************************************************************)
(* The amounts of one order, from its checkout to its settlement: what the *)
(* payer authorizes (createOrder and sizeForPayout of src/sdk/rivokit.ts,  *)
(* lockQuote of src/settlement-fx/swap.ts, src/settlement-fx/units.ts and  *)
(* src/sdk/fee.ts), what the escrow hands over, and what the market or the *)
(* payout rail then makes of it.                                           *)
(*                                                                         *)
(* Amounts are integers of minor units, as in the code; the market answers *)
(* whatever it likes.  At checkout, quotes that are refused outright (no    *)
(* route, a rail that throws) are no subject of this module.                *)
(***************************************************************************)
EXTENDS Integers

CONSTANTS
    Prices,     \* prices of orders, in EUR of six decimals
    Fees,       \* operator fees, in basis points
    Buffers,    \* buffers, in basis points
    Amounts,    \* what the market and the rail answer
    Minimums,   \* the least a corridor takes
    Divisor     \* 10 ^ (6 - destinationScale) of the corridor

Bps   == 10000
SCALE == 1000000

ASSUME PricingAssumption ==
    /\ Prices \subseteq Nat \ {0}
    /\ Fees \subseteq 0..(Bps - 1)
    /\ Buffers \subseteq Nat
    /\ Amounts \subseteq Nat
    /\ Minimums \subseteq Nat
    /\ Divisor \in Nat \ {0}

VARIABLES
    order,      \* the road, price, fee and buffer of the order
    phase,      \* how far it has come
    quoted,     \* the quote it was sized with, and the corridor's minimum then
    net,        \* what the receiver must be handed to clear the price
    lo, hi,     \* the search of grossUpForFee
    amount,     \* max_amount, what the payer authorizes
    received,   \* what the escrow handed over
    offer,      \* the terms of the latest attempt to settle
    rebate      \* the surplus

vars == <<order, phase, quoted, net, lo, hi, amount, received, offer, rebate>>

-----------------------------------------------------------------------------
(* units.ts, fee.ts and rail.ts.                                           *)

ceilDiv(n, d) == (n + d - 1) \div d

deriveRate(q) == (q.out * SCALE) \div q.in

\* Mutant: the buffer is added to the price and not to its cost.
computeUsdcAmount_Unbuffered(price, rate, buffer) ==
    ceilDiv(price * SCALE, rate)
computeUsdcAmount(price, rate, buffer) ==
    ceilDiv(ceilDiv(price * SCALE, rate) * (Bps + buffer), Bps)

computeRebate(out, price) == IF out > price THEN out - price ELSE 0

\* Mutant: a fee of per cent.
feeOf_PerCent(a, fee) == (a * fee) \div 100
feeOf(a, fee) == (a * fee) \div Bps
netOfFee(a, fee) == a - feeOf(a, fee)

\* Mutant: a fraction of the corridor's unit is dropped.
toDestinationMinor_Down(price) == price \div Divisor
toDestinationMinor(price) ==
    IF price % Divisor = 0 THEN price \div Divisor ELSE price \div Divisor + 1

-----------------------------------------------------------------------------
(* Checkout.                                                               *)

\* Where the fiat comes from: the swap, the payout rail, or a payout rail
\* that cannot estimate and leaves the sizing to the swap's market.
Roads == {"wallet", "bank", "bankUnestimated"}

Terms == [in : Nat, out : Nat, min : Nat]
NoTerms == [in |-> 0, out |-> 0, min |-> 0]

\* One question to the market, and the trade its answer leads to.  A rate of
\* zero is refused.
Ask(size) ==
    /\ \E out \in Amounts : quoted' = [quoted EXCEPT !.in = size, !.out = out]
    /\ net' = IF deriveRate(quoted') = 0
                THEN net
                ELSE computeUsdcAmount(order.price, deriveRate(quoted'), order.buffer)

\* lockQuote: the market is asked about the price, and then, unless that is
\* the size of the trade already, about the size it led to.
Probe ==
    /\ phase = "checkout"
    /\ order.road # "bank"
    /\ Ask(order.price)
    /\ phase' = CASE deriveRate(quoted') = 0 -> "refused"
                  [] deriveRate(quoted') # 0 /\ net' = order.price -> "sized"
                  [] OTHER -> "requote"
    /\ UNCHANGED <<order, lo, hi, amount, received, offer, rebate>>

Requote ==
    /\ phase = "requote"
    /\ Ask(net)
    /\ phase' = IF deriveRate(quoted') = 0 THEN "refused" ELSE "sized"
    /\ UNCHANGED <<order, lo, hi, amount, received, offer, rebate>>

\* sizeForPayout: what the rail says the floor costs today, and the buffer.
Estimate ==
    /\ phase = "checkout"
    /\ order.road = "bank"
    /\ \E cost \in Amounts :
         /\ quoted' = [quoted EXCEPT !.in = cost,
                                     !.out = toDestinationMinor(order.price)]
         /\ net' = cost + (cost * order.buffer) \div Bps
    /\ phase' = "sized"
    /\ UNCHANGED <<order, lo, hi, amount, received, offer, rebate>>

\* assertWithinCorridor: an order below the minimum or above the maximum of
\* its corridor is refused.
Corridor ==
    /\ phase = "sized"
    /\ \/ /\ order.road = "wallet"
          /\ phase' = "net"
          /\ UNCHANGED quoted
       \/ /\ order.road # "wallet"
          /\ \E min \in Minimums :
               /\ net >= min
               /\ quoted' = [quoted EXCEPT !.min = min]
          /\ phase' = "net"
       \/ /\ order.road # "wallet"
          /\ phase' = "refused"
          /\ UNCHANGED quoted
    /\ UNCHANGED <<order, net, lo, hi, amount, received, offer, rebate>>

\* grossUpForFee.  The loop that raises the ceiling until it is enough is left
\* out: the ceiling is always enough.
GrossUp ==
    /\ phase = "net"
    /\ IF order.fee = 0 \/ net = 0
         THEN /\ amount' = net
              /\ phase' = "created"
              /\ UNCHANGED <<lo, hi>>
         ELSE /\ lo' = net
              /\ hi' = ceilDiv(net * Bps, Bps - order.fee)
              /\ phase' = "search"
              /\ UNCHANGED amount
    /\ UNCHANGED <<order, quoted, net, received, offer, rebate>>

\* Mutant: the middle is rounded up.
middle_Up == lo + (hi - lo + 1) \div 2
middle == lo + (hi - lo) \div 2

\* Mutant: only more than the net is enough.
Enough_Strict(a) == netOfFee(a, order.fee) > net
Enough(a) == netOfFee(a, order.fee) >= net

Search ==
    /\ phase = "search"
    /\ lo < hi
    /\ IF Enough(middle) THEN hi' = middle /\ UNCHANGED lo
                         ELSE lo' = middle + 1 /\ UNCHANGED hi
    /\ UNCHANGED <<order, phase, quoted, net, amount, received, offer, rebate>>

Found ==
    /\ phase = "search"
    /\ lo >= hi
    /\ amount' = lo
    /\ phase' = "created"
    /\ UNCHANGED <<order, quoted, net, lo, hi, received, offer, rebate>>

-----------------------------------------------------------------------------
(* Settlement: release(), and retrySettlement() when it stalled.           *)

\* The escrow withholds the operator's fee and hands over the rest.
Capture ==
    /\ phase = "created"
    /\ received' = netOfFee(amount, order.fee)
    /\ phase' = "captured"
    /\ UNCHANGED <<order, quoted, net, lo, hi, amount, offer, rebate>>

Settle(terms, ok, surplus) ==
    /\ offer' = terms
    /\ IF ok THEN phase' = "settled" /\ rebate' = surplus
             ELSE phase' = "stalled" /\ UNCHANGED rebate
    /\ UNCHANGED <<order, quoted, net, lo, hi, amount, received>>

\* swapWithFloor converts all that was received, or nothing.
Swap ==
    /\ phase \in {"captured", "stalled"}
    /\ order.road = "wallet"
    /\ \E out \in Amounts :
         Settle([in |-> received, out |-> out, min |-> 0],
                out >= order.price, computeRebate(out, order.price))

\* payoutAfterCapture: the corridor's minimum of today...
BelowMinimum ==
    /\ phase \in {"captured", "stalled"}
    /\ order.road # "wallet"
    /\ \E min \in Minimums :
         /\ received < min
         /\ Settle([quoted EXCEPT !.min = min], FALSE, 0)

Affordable(cost) == cost <= received

\* ...and then the quote: it must clear the floor, and be affordable.  What is
\* submitted is what was quoted.
PayOut ==
    /\ phase \in {"captured", "stalled"}
    /\ order.road # "wallet"
    /\ \E cost \in Amounts, out \in Amounts, min \in Minimums :
         /\ received >= min
         /\ Settle([in |-> cost, out |-> out, min |-> min],
                   /\ out >= toDestinationMinor(order.price)
                   /\ Affordable(cost),
                   received - cost)

\* A quote that fails or has expired by the time it is used is no matter of
\* amounts: the order waits as it did when it was captured, with no terms.
NoQuote ==
    /\ phase \in {"captured", "stalled"}
    /\ order.road # "wallet"
    /\ \E min \in Minimums : received >= min
    /\ phase' = "captured"
    /\ offer' = NoTerms
    /\ UNCHANGED <<order, quoted, net, lo, hi, amount, received, rebate>>

-----------------------------------------------------------------------------
Init ==
    /\ order \in [road : Roads, price : Prices, fee : Fees, buffer : Buffers]
    /\ phase = "checkout"
    /\ quoted = NoTerms
    /\ net = 0
    /\ lo = 0
    /\ hi = 0
    /\ amount = 0
    /\ received = 0
    /\ offer = NoTerms
    /\ rebate = 0

Next ==
    \/ Probe \/ Requote \/ Estimate \/ Corridor
    \/ GrossUp \/ Search \/ Found
    \/ Capture \/ Swap \/ BelowMinimum \/ PayOut \/ NoQuote

Spec == Init /\ [][Next]_vars

Phases == {"checkout", "requote", "sized", "net", "search", "created",
           "captured", "settled", "stalled", "refused"}

TypeOK ==
    /\ order \in [road : Roads, price : Prices, fee : Fees, buffer : Buffers]
    /\ phase \in Phases
    /\ quoted \in Terms
    /\ offer \in Terms
    /\ net \in Nat
    /\ lo \in Nat
    /\ hi \in Nat
    /\ amount \in Nat
    /\ received \in Nat
    /\ rebate \in Nat
=============================================================================
