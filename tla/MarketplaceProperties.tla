----------------------- MODULE MarketplaceProperties -----------------------
(***************************************************************************)
(* What is claimed of the marketplace: module Marketplace.                  *)
(***************************************************************************)
EXTENDS Marketplace, RivoKitProperties

\* The seller is paid out of the escrow only after the buyer had their say:
\* they confirmed, or disputed and were judged, or let the whole window pass
\* after the shipment (HostPanel windowLeft, held, disputes).
WindowRespected ==
    escrow[order] \in {"captured", "refunded"} =>
      \/ "mp.dispute" \in events
      \/ /\ "mp.shipped" \in events
         /\ "mp.buyer_confirmed" \in events \/ windowPassed

\* Nothing guards the forward of the floor but an event written after it; still
\* the seller is sent one floor at most, and only EURC this order was swapped
\* for, however many screens release it: kit.release returns to one of them
\* only, since the second capture reverts (mpRelease).
ForwardedOnce ==
    /\ forwards <= 1
    /\ forwards <= swaps[order]
    /\ "mp.seller_payout" \in events => forwards = 1

\* A current screen settles no order under dispute: the host has to judge it,
\* also when the buyer has confirmed before or after (deriveStatus, settleable).
DisputeIsJudged ==
    [][\A w \in Screens :
         /\ PressRelease(w)
         /\ "mp.dispute" \in events /\ view[w] = Now
         => canJudge(view[w])]_marketVars

\* "Never release again - that would capture twice": as long as buttons are
\* pressed one at a time on current screens, no call dies and no rebate throws,
\* a wallet order is offered for release only while the escrow has not let go
\* of it (unless to the payer, who may take an expired authorization back), and
\* for retry only when it was captured and not converted (HostPanel settleable,
\* disputes, stalled).  A rebate that throws comes after the swap and before the
\* move, and then release or retry is offered of an order that is converted.
OffersMatchEscrow ==
    /\ order \notin BankOrders /\ Alone
    /\ ~overtaken /\ faults = 0 /\ "threw" \notin rebates[order]
    =>
      /\ settleable(Now) \/ canJudge(Now) =>
           escrow[order] \in {"authorized", "reclaimed"}
      /\ canRetry(Now) => escrow[order] = "captured" /\ swaps[order] = 0

\* The promise of the facade survives its host: no server action, sweep or stale
\* screen makes the record of an order claim money that has not moved, or a fact
\* about money come before its causes (marketplace.actions.ts writes an order
\* only through kit and store, at funds or shipments it has asked for).
PromiseKept ==
    [][Promise!Next]_<<[o \in Orders |-> FactsOf(o)],
                       [o \in Orders |-> Claim[state[o]]]>>

\* A screen that shows a payout on its way finds out what became of it, unless
\* a call or a read fails: the sweep asks the rail as long as the screen shows
\* it, overlapping ones do not undo each other, and the board is polled
\* (Marketplace.tsx, the effect over pendingPayouts, and liveWork).
PayoutIsFollowed ==
    \A w \in Screens :
      view[w].state = "payout_pending"
        ~> view[w].state # "payout_pending" \/ faults > 0

-----------------------------------------------------------------------------
(* Why OffersMatchEscrow holds: buttons pressed in turn are calls in turn.  *)

\* One screen at most waits for a server action.
OneAction == \A v, w \in Screens : v = w \/ task[v] = "none" \/ task[w] = "none"

\* No board shows a payout, or is about to, and no sweep asks for one.
NothingToSweep ==
    /\ \A w \in Screens :
         view[w].state # "payout_pending" /\ reading[w] # "payout_pending"
    /\ \A w \in Workers \ Screens : At(w, "idle")

\* The inductive invariant behind OffersMatchEscrow.
InTurnInv ==
    order \notin BankOrders /\ ~overtaken =>
      OneAction /\ NothingToSweep /\ AloneInv

-----------------------------------------------------------------------------
(* What the repository says and the code does not do.                       *)

\* Marketplace.tsx, SellerPanel: "Set an address and the floored EURC is
\* forwarded there", and of a completed order "... EURC forwarded to ...".
\* Checked with one screen, nothing under way, and no faults.
ReleasedIsForwarded ==
    /\ scene.sellerAddress /\ Alone
    /\ state[order] = "released" /\ faults = 0
    => forwards = 1
=============================================================================
