----------------------------- MODULE OrderView -----------------------------
(***************************************************************************)
(* What a screen makes of an order: demo/lib/board.server.ts and the        *)
(* panels of demo/app/Marketplace.tsx.                                      *)
(*                                                                         *)
(* A view is taken on the server from the row of the order and from its     *)
(* events, and the panels decide from the view alone which controls they    *)
(* offer.  Nothing on the server looks at a control again, so a control     *)
(* that is offered is a call that will be made.                             *)
(***************************************************************************)
EXTENDS OrderState

\* expired: preApprovalExpiry had passed when the view was taken.  landed: a
\* payments row of kind "funding" exists.  The rest are events of the order.
Views == [state : ORDER_STATES, expired : BOOLEAN, landed : BOOLEAN,
          shipped : BOOLEAN, confirmed : BOOLEAN, disputed : BOOLEAN]

\* What a board shows of the order when the list of orders could not be read:
\* boardSnapshot answers with a list of none.
Blank == [state |-> "absent", expired |-> FALSE, landed |-> FALSE,
          shipped |-> FALSE, confirmed |-> FALSE, disputed |-> FALSE]

\* The events a view is made from.
Signals == {"mp.shipped", "mp.buyer_confirmed", "mp.dispute",
            "mp.seller_payout"}

\* A dispute is over once the money is on its way.
Judged == {"released", "paid_out", "payout_pending", "refunded",
           "refund_pending"}

\* Mutant: the buyer's confirmation ends a dispute.
buildView_ConfirmationEnds(s, late, paid, events) ==
    [state |-> s, expired |-> late, landed |-> paid,
     shipped |-> "mp.shipped" \in events,
     confirmed |-> "mp.buyer_confirmed" \in events,
     disputed |-> "mp.dispute" \in events /\ s \notin Judged
                  /\ "mp.buyer_confirmed" \notin events]
\* s: the order's state.  late: the authorization window has passed.  paid: a
\* funding row exists.
buildView(s, late, paid, events) ==
    [state |-> s, expired |-> late, landed |-> paid,
     shipped |-> "mp.shipped" \in events,
     confirmed |-> "mp.buyer_confirmed" \in events,
     disputed |-> "mp.dispute" \in events /\ s \notin Judged]

\* States that decide the status by themselves; absent is that of Blank.
StatusOf ==
    [failed |-> "failed", refunded |-> "refunded",
     refund_pending |-> "refunding", released |-> "completed",
     paid_out |-> "completed", payout_pending |-> "paying_out",
     settlement_pending |-> "settling", absent |-> "none"]

Unfunded == {"created", "funding_pending"}

\* Mutant: an order whose seller is paid falls through to what comes next.
deriveStatus_Released(v) ==
    CASE v.state \in DOMAIN StatusOf \ {"released"} -> StatusOf[v.state]
      [] v.disputed /\ v.state \notin DOMAIN StatusOf -> "dispute"
      [] v.state = "released" -> IF v.confirmed THEN "confirmed" ELSE "shipped"
      [] ~v.disputed /\ v.state \in Unfunded       ->
           IF v.expired THEN "expired" ELSE
           IF v.state = "created" THEN "waiting_payment"
                                  ELSE "processing_payment"
      [] ~v.disputed /\ v.state \in {"funded", "shipped"} ->
           IF v.confirmed THEN "confirmed" ELSE
           IF v.shipped   THEN "shipped"   ELSE "paid"
\* Its cases in the order the code asks them.
deriveStatus(v) ==
    CASE v.state \in DOMAIN StatusOf               -> StatusOf[v.state]
      [] v.disputed /\ v.state \notin DOMAIN StatusOf -> "dispute"
      [] ~v.disputed /\ v.state \in Unfunded       ->
           IF v.expired THEN "expired" ELSE
           IF v.state = "created" THEN "waiting_payment"
                                  ELSE "processing_payment"
      [] ~v.disputed /\ v.state \in {"funded", "shipped"} ->
           IF v.confirmed THEN "confirmed" ELSE
           IF v.shipped   THEN "shipped"   ELSE "paid"

\* Mutant: only the seller's money is watched.
liveWork_Payouts(v) ==
    /\ deriveStatus(v) # "expired"
    /\ \/ v.state \in {"settlement_pending", "payout_pending", "refund_pending"}
       \/ deriveStatus(v) = "refunding"
\* The board polls while an order may move by itself.
liveWork(v) ==
    /\ deriveStatus(v) # "expired"
    /\ \/ v.state \in {"funding_pending", "settlement_pending",
                       "payout_pending", "refund_pending"}
       \/ deriveStatus(v) \in {"processing_payment", "refunding"}

-----------------------------------------------------------------------------
(* The buyer's panel. *)

stalled(v) == deriveStatus(v) = "processing_payment"

\* Mutant: a payment under way is not payable, so one that failed is lost.
payable_WaitingOnly(v) == deriveStatus(v) = "waiting_payment"
\* A payment under way may be paid again, behind a warning, as long as no
\* funding is recorded.
payable(v) ==
    \/ deriveStatus(v) = "waiting_payment"
    \/ stalled(v) /\ ~v.landed

canFinish(v)  == stalled(v) /\ v.landed
canClose(v)   == deriveStatus(v) = "expired"
canConfirm(v) == deriveStatus(v) = "shipped"
canDispute(v) == deriveStatus(v) \in {"shipped", "paid", "confirmed"}

(* The seller's panel, and the host's. *)

canShip(v) == deriveStatus(v) = "paid"

settleable(v) == deriveStatus(v) \in {"confirmed", "shipped"} /\ ~v.disputed
canJudge(v)   == deriveStatus(v) = "dispute"
canRetry(v)   == v.state = "settlement_pending"

\* The host's button waits for the buyer's word or for the window to pass.
\* Mutant: the window counts for nothing.
held_Never(v, windowPassed) == FALSE
held(v, windowPassed) == ~v.confirmed /\ ~(v.shipped /\ windowPassed)
=============================================================================
