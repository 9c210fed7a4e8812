------------------------ MODULE CheckoutProperties ------------------------
(***************************************************************************)
(* What is claimed of paying for an order: module Checkout.                 *)
(***************************************************************************)
EXTENDS Checkout

Burned == setting.away - away

\* "A failure that already burned must NOT look payable" (payFromWallet): once
\* a transfer has burned and nothing is in flight, the panel offers to pay only
\* behind the warning of a payment under way, however many browsers raced, and
\* whatever the kit says of a transfer that broke off, unless it denied the burn
\* itself (bridge.ts interpret and classifyThrow, wallet-errors.ts
\* fundsMayBeInFlight, and the marking of mpPay and payFromWallet).
BurnIsShown ==
    Burned > 0 /\ Alone /\ payable(Now) => stalled(Now) \/ denied \/ faults > 0

\* A funding row that is not yet spent is money: as long as the escrow has not
\* collected, what "The USDC reached Arc" promises beside Finish payment is
\* there, whatever raced, failed or died (mpRecordWalletFunding, mpPay).
LandedIsOnArc == Landed /\ ~collected => arc > 0

\* An order is closed only if nothing was collected for it, also by a screen
\* that is out of date: the action reads the order again (mpExpireOrder).  A
\* collection that overlaps the close, or that died unrecorded, escapes it.
ClosedHoldsNothing ==
    state = "failed" /\ collected => overtaken \/ faults > 0

\* No unpaid order is out of reach: a current screen offers to pay it, to
\* finish it, or, when its window has closed, only to close it
\* (Marketplace.tsx BuyerPanel).
WayForward ==
    state \in Unfunded =>
      /\ ~expired => payable(Now) \/ canFinish(Now)
      /\ expired  => canClose(Now) /\ ~payable(Now)

\* A screen does not go on showing a payment under way that is over, however
\* many of its reads are dropped or fail, unless another tab undoes it first
\* (live.ts useLive, liveWork). A board that lists no order shows no payment.
Behind(t) == state \in {"funded", "failed"} /\ stalled(view[t])
ScreenCatchesUp == \A t \in Tabs : Behind(t) ~> ~Behind(t)
=============================================================================
