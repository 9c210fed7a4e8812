------------------------- MODULE PricingProperties -------------------------
(***************************************************************************)
(* What the amounts of an order promise: the payer is charged the least    *)
(* that clears the price, the buffer absorbs the drift it was sold for,    *)
(* and the seller is never handed less than the price.                     *)
(***************************************************************************)
EXTENDS Pricing

Charged == {"created", "captured", "settled", "stalled"}

\* The escrow's fee taken off, the receiver is handed the net.
Clears(a) == netOfFee(a, order.fee) >= net

-----------------------------------------------------------------------------
(* What is true of the order at every stage.                               *)

\* The loop invariant of grossUpForFee: the answer is between lo and hi.
SearchInv ==
    phase = "search" =>
        /\ lo <= hi
        /\ Clears(hi)
        /\ \A a \in 0..(lo - 1) : ~Clears(a)

\* fee.ts, grossUpForFee ("Smallest gross amount whose post-fee remainder
\* still covers netMinor"): what the payer authorizes clears the net once the
\* escrow has withheld its fee, and no smaller amount would have.
SmallestGross ==
    phase \in Charged =>
        /\ Clears(amount)
        /\ \A a \in 0..(amount - 1) : ~Clears(a)

\* The second question to the market is about a trade of some size.
RequoteHasSize == phase = "requote" => order.road # "bank" /\ net > 0

\* What the receiver is to be handed covers the price at the rate that was
\* quoted, and the buffer on top.
NetCovers ==
    phase \in {"sized", "net", "search"} \cup Charged =>
        CASE order.road = "wallet" ->
               /\ quoted.in > 0
               /\ net * quoted.out * Bps >= order.price * quoted.in * (Bps + order.buffer)
          [] order.road = "bank" ->
               (net + 1) * Bps > quoted.in * (Bps + order.buffer)
          [] OTHER -> TRUE

\* Once the corridor was checked, the net is not below its minimum of then.
MinimumMet ==
    phase \in {"net", "search"} \cup Charged /\ order.road # "wallet" =>
        net >= quoted.min

Handed ==
    phase \in {"captured", "settled", "stalled"} =>
        received = netOfFee(amount, order.fee)

\* The inductive invariant: the facts above, which carry the quote of the
\* checkout through the search and the escrow's fee to the settlement.
PricingInv ==
    /\ TypeOK
    /\ SearchInv
    /\ SmallestGross
    /\ RequoteHasSize
    /\ NetCovers
    /\ MinimumMet
    /\ Handed

-----------------------------------------------------------------------------
\* swapWithFloor and payoutAfterCapture: a settled order has handed the seller
\* the price or more, in the units of the road it took, has spent no more
\* than the escrow handed over, and returns the surplus and nothing else.
SellerNeverShort ==
    phase = "settled" =>
        \/ /\ order.road = "wallet"
           /\ offer.in = received
           /\ offer.out - rebate = order.price
           /\ rebate >= 0
        \/ /\ order.road # "wallet"
           /\ offer.out * Divisor >= order.price
           /\ offer.in + rebate = received
           /\ rebate >= 0

\* lockQuote and sizeForPayout ("the buffer that absorbs the drift between
\* now and release"): settlement stalls only when the market moved against the
\* order by more than its buffer, or a corridor raised its minimum, or the
\* rail quoted less than it was asked for.  Nothing is promised to a rail that
\* cannot estimate, whose orders are sized in another market.
BufferIsEnough ==
    phase = "stalled" =>
        CASE order.road = "wallet" ->
               offer.out * quoted.in * (Bps + order.buffer)
                 < offer.in * quoted.out * Bps
          [] order.road = "bank" ->
               \/ offer.min > quoted.min
               \/ offer.out < toDestinationMinor(order.price)
               \/ offer.in * Bps > quoted.in * (Bps + order.buffer)
          [] OTHER -> TRUE

-----------------------------------------------------------------------------
\* The search is a loop of one synchronous call: once begun it runs.
FairSpec == Spec /\ WF_vars(Search \/ Found)

\* Why it ends, and soon: every round of the loop leaves at most half of the
\* amounts between lo and hi, and never the same.
SearchHalves ==
    [][phase = "search" /\ phase' = "search" =>
         /\ hi' - lo' < hi - lo
         /\ 2 * (hi' - lo') <= hi - lo]_<<phase, lo, hi>>

\* grossUpForFee: the search ends.
SearchEnds == phase = "search" ~> phase = "created"
=============================================================================
