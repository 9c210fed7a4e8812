------------------------- MODULE RivoKitProperties -------------------------
(***************************************************************************)
(* What is claimed of the order facade of module RivoKit.                  *)
(***************************************************************************)
EXTENDS RivoKit

-----------------------------------------------------------------------------
(* The facts of the money, and the record as a claim about them.           *)

Collected(o) == escrow[o] # "none"
Captured(o)  == escrow[o] \in {"captured", "refunded"}
Converted(o) == swaps[o] > 0
Broadcast(o) == \E k \in PaymentIds : rail[o][k] # "none"
Delivered(o) == \E k \in PaymentIds : rail[o][k] = "delivered"
Returned(o)  == IF o \in BridgedOrders
                  THEN bridge[o] = "arrived"
                  ELSE escrow[o] \in {"voided", "reclaimed", "refunded"}

FactsOf(o) ==
    {f \in {"collected", "captured", "converted", "broadcast", "paid",
            "returned"} :
       \/ f = "collected" /\ Collected(o)
       \/ f = "captured"  /\ Captured(o)
       \/ f = "converted" /\ Converted(o)
       \/ f = "broadcast" /\ Broadcast(o)
       \/ f = "paid"      /\ Delivered(o)
       \/ f = "returned"  /\ Returned(o)}

Claim ==
    [created |-> "nothing", funding_pending |-> "nothing",
     refund_pending |-> "nothing", failed |-> "nothing",
     funded |-> "held", shipped |-> "held", settlement_pending |-> "owed",
     released |-> "released", payout_pending |-> "offramped",
     paid_out |-> "paid", refunded |-> "refunded"]

Promise == INSTANCE FundsPromise
             WITH facts <- [o \in Orders |-> FactsOf(o)],
                  told  <- [o \in Orders |-> Claim[state[o]]]

\* However requests interleave and wherever they die, the order's state never
\* claims money that has not moved: rivokit.ts writes each state only after
\* the transfer it stands for.
RecordNeverAhead == Promise!Spec

-----------------------------------------------------------------------------
(* What holds however requests interleave and wherever they die.           *)

\* A confirmed row of the payments table is evidence: the transfer it names
\* happened, whatever became of the call that wrote it.
LedgerIsEvidence ==
    \A o \in Orders :
      /\ ledger[o]["authorize"] = "confirmed" => Collected(o)
      /\ ledger[o]["capture"] = "confirmed" => Captured(o)
      /\ ledger[o]["swap"] = "confirmed" => Converted(o)
      /\ ledger[o]["rebate"] = "confirmed" => "paid" \in rebates[o]
      /\ ledger[o]["payout"] = "confirmed" => Delivered(o)

\* A host acts on events: it ships on funded, and tells the seller of released
\* and paid_out.  None is announced before its money has moved.
AnnouncementsAreBacked ==
    \A o \in Orders :
      /\ emitted[o]["funded"] > 0 => Collected(o)
      /\ emitted[o]["released"] > 0 => Captured(o) /\ Converted(o)
      /\ emitted[o]["payout_pending"] > 0 => Captured(o) /\ Broadcast(o)
      /\ emitted[o]["paid_out"] > 0 => Delivered(o)
      /\ emitted[o]["refunded"] > 0 => Returned(o)

\* The two roads out of a capture never meet: no swap is made for an order
\* bound for a bank, no payout broadcast for one bound for a wallet, and a
\* surplus is returned only on a road that was taken.
RoadsStayApart ==
    \A o \in Orders :
      /\ o \in BankOrders => swaps[o] = 0 /\ state[o] # "released"
      /\ o \notin BankOrders => ~ Broadcast(o) /\ ~ isOffRamped(state[o])
      /\ "paid" \in rebates[o] => Converted(o) \/ Broadcast(o)

-----------------------------------------------------------------------------
(* Why the types hold: an instruction that is followed points at a payment, *)
(* and a call in flight is about an order.                                  *)

PointsAtPayment(p) == p.kind = "live" => p.id \in PaymentIds

CallTyped(c) ==
    /\ c \in Calls
    /\ c.at # "idle" => c.o \in Orders
    /\ PointsAtPayment(c.pay)
    /\ c.at = "refresh.status" => c.pay.kind = "live"

CallsTyped == \A w \in Workers : CallTyped(call[w])

\* The inductive invariant behind TypeOK.
TypeInv ==
    /\ TypeOK
    /\ \A o \in Orders : PointsAtPayment(payout[o])
    /\ CallsTyped

-----------------------------------------------------------------------------
(* Why it holds: what every request in flight knows about the money of its *)
(* order, and goes on knowing, because facts about money stay facts.       *)

\* The facts a claim of state s rests on.
Backs(o, s) ==
    /\ s \in {"funded", "shipped"} => Collected(o)
    /\ s = "settlement_pending" => Captured(o)
    /\ s = "released" => Captured(o) /\ Converted(o)
    /\ s = "payout_pending" => Captured(o) /\ Broadcast(o)
    /\ s = "paid_out" => Delivered(o)
    /\ s = "refunded" => Returned(o)

\* A live instruction points at a payment of the rail, and a final status
\* copied from it is its status.
Trustworthy(o, p) ==
    p.kind = "live" =>
      /\ rail[o][p.id] # "none"
      /\ RailTerminal(p.status) => rail[o][p.id] = p.status

MoneyInOrder(o) ==
    /\ Converted(o) => Captured(o) /\ o \notin BankOrders
    /\ Broadcast(o) => Captured(o) /\ o \in BankOrders
    /\ bridge[o] # "idle" => escrow[o] \in {"voided", "refunded"}
    /\ "paid" \in rebates[o] => Converted(o) \/ Broadcast(o)

\* The escrow lets go of a payment once, so one call at most has a refund to
\* carry over the bridge.
BridgedAlone ==
    \A w \in Workers : At(w, "refund.bridge") =>
      /\ escrow[call[w].o] \in {"voided", "refunded"}
      /\ bridge[call[w].o] = "idle"
      /\ \A v \in Workers :
           At(v, "refund.bridge") /\ call[v].o = call[w].o => v = w

RecordBacked(o) ==
    /\ Backs(o, state[o])
    /\ Trustworthy(o, payout[o])
    /\ \A e \in Events : emitted[o][e] > 0 => Backs(o, e)
    /\ ledger[o]["authorize"] = "confirmed" => Collected(o)
    /\ ledger[o]["capture"] = "confirmed" => Captured(o)
    /\ ledger[o]["swap"] = "confirmed" => Converted(o)
    /\ ledger[o]["rebate"] = "confirmed" => "paid" \in rebates[o]
    /\ ledger[o]["payout"] = "confirmed" => Delivered(o)

InTransition(c) == c.at \in {"transition.read", "transition.write"}

\* What call c may rely on, by the place it has reached.
CallKnows(c) ==
    c.at # "idle" =>
      /\ Trustworthy(c.o, c.pay)
      /\ InTransition(c) =>
           /\ Backs(c.o, c.to)
           /\ c.then = "emit" => c.to \in Events
           /\ c.then = "settle.payout" => c.to = "released"
           /\ c.then = "payout.rebate" => c.to = "payout_pending"
      /\ c.at = "emit" => c.to \in Events /\ Backs(c.o, c.to)
      /\ c.at \in {"fund.record", "fund.reread"} => Collected(c.o)
      /\ c.at \in {"release.swap", "retry.swap"} =>
           Captured(c.o) /\ c.o \notin BankOrders
      /\ c.at = "release.captureRow" =>
           /\ Captured(c.o)
           /\ c.o \notin BankOrders /\ c.to = "released" => Converted(c.o)
      /\ c.at \in {"settle.swapRow", "settle.rebate", "settle.rebateRow",
                   "settle.payout"} =>
           Captured(c.o) /\ Converted(c.o) /\ c.o \notin BankOrders
      /\ c.at = "settle.payout" => c.to = "released"
      /\ c.at \in {"payout.quote", "payout.submit"} =>
           Captured(c.o) /\ c.o \in BankOrders
      /\ c.at \in {"payout.save", "payout.row", "payout.rebate",
                   "payout.rebateRow"} =>
           Captured(c.o) /\ Broadcast(c.o)
      /\ c.at \in {"payout.rebate", "payout.rebateRow"} =>
           c.to = "payout_pending"
      /\ c.at \in {"settle.rebateRow", "payout.rebateRow"} =>
           "paid" \in rebates[c.o]
      /\ c.at \in {"refresh.status", "refresh.save", "refresh.row"} =>
           c.pay.kind = "live"
      /\ c.at = "refund.bridge" => c.o \in BridgedOrders

\* The inductive invariant behind LedgerIsEvidence, AnnouncementsAreBacked and
\* RoadsStayApart: each record and each request rests on facts of the money.
EvidenceInv ==
    /\ TypeInv
    /\ \A o \in Orders : MoneyInOrder(o) /\ RecordBacked(o)
    /\ \A w \in Workers : CallKnows(call[w])
    /\ BridgedAlone

-----------------------------------------------------------------------------
(* What holds when the host makes one call at a time, even if calls die.   *)

OneCall == \A v, w \in Workers : v = w \/ At(v, "idle") \/ At(w, "idle")

\* An order is announced funded, released, paid out and refunded once, by a
\* host that makes one call at a time.
AnnouncedOnce ==
    \A o \in Orders : \A e \in Events \ {"payout_pending"} : emitted[o][e] <= 1

\* settlement_pending means what retrySettlement() takes it to mean: the
\* escrow is empty, and what was captured has not gone back to the payer.
SettlementPendingHoldsCapture ==
    \A o \in Orders : state[o] = "settlement_pending" => escrow[o] = "captured"

\* The payout an order in flight points at is the last one broadcast, so that
\* refreshPayout() follows the money; and paid_out was read off that payout:
\* for a host that makes one call at a time, though calls die.
PayoutIsTracked ==
    \A o \in Orders :
      /\ state[o] = "payout_pending" =>
           \A k \in PaymentIds : rail[o][k] # "none" => k <= payout[o].id
      /\ state[o] = "paid_out" => rail[o][payout[o].id] = "delivered"

-----------------------------------------------------------------------------
(* What holds when besides no call has died.                               *)

Quiet == \A w \in Workers : At(w, "idle")

Outstanding(o) == {k \in PaymentIds : rail[o][k] \in {"pending", "delivered"}}

\* The money of a bank order leaves once.  A second payout is broadcast only
\* after the first has failed and its money has come back, and the payer gets
\* it back only when no payout is left: the second of two would come out of the
\* operator's own balance (retrySettlement, refund).
PaidOrRefundedOnce ==
    faults = 0 =>
      \A o \in BankOrders :
        /\ Cardinality(Outstanding(o)) <= 1
        /\ ~ (Outstanding(o) # {} /\ escrow[o] = "refunded")

\* No transfer of a surplus has thrown between the swap of order o and its move.
NothingAfterSwap(o) == o \in BankOrders \/ "threw" \notin rebates[o]

\* An order that is settlement_pending holds its capture at every moment; and
\* between calls the state of any order says where its money is, except that a
\* wallet order whose rebate threw may be converted without saying so.
RecordAgreesWithMoney ==
  /\ SettlementPendingHoldsCapture
  /\ Quiet /\ faults = 0 =>
      \A o \in Orders :
        /\ state[o] \in {"created", "funding_pending", "failed"} =>
             escrow[o] = "none"
        /\ state[o] = "released" => escrow[o] = "captured"
        /\ NothingAfterSwap(o) =>
             /\ state[o] \in {"funded", "shipped"} =>
                  o \in BankOrders \/ escrow[o] \in {"authorized", "reclaimed"}
             /\ state[o] = "settlement_pending" => swaps[o] = 0
             /\ state[o] = "released" => swaps[o] = 1
        /\ state[o] = "refunded" => escrow[o] \in {"voided", "refunded"}

-----------------------------------------------------------------------------
(* Why these hold: while one call is served, nobody else moves its order.  *)

\* The states release() and retrySettlement() leave for a settlement.
Releasable == {"funded", "shipped", "settlement_pending"}

\* No payout that is not the one under id is left.
OnlyOutstanding(o, id) ==
    \A k \in PaymentIds : k # id => rail[o][k] \in {"none", "failed"}
NoneOutstanding(o) == \A k \in PaymentIds : rail[o][k] \in {"none", "failed"}

\* p is the order's last broadcast, paid for by what was captured.
IsLatest(o, p) ==
    /\ escrow[o] = "captured"
    /\ p.kind = "live"
    /\ \A k \in PaymentIds : rail[o][k] # "none" => k <= p.id

\* The states an order can be in once the event has been announced.
After == [funded   |-> ORDER_STATES \ {"created", "funding_pending"},
          released |-> {"released", "refund_pending", "refunded"},
          paid_out |-> {"paid_out"},
          refunded |-> {"refunded"}]
OneTimeEvents == {"funded", "released", "paid_out", "refunded"}

\* What an order's state says, whatever calls have died.
StateTells(o) ==
    /\ state[o] = "settlement_pending" => escrow[o] = "captured"
    /\ isOffRamped(state[o]) => IsLatest(o, payout[o])
    /\ state[o] = "paid_out" => rail[o][payout[o].id] = "delivered"
    /\ state[o] = "failed" => clock[o] >= 1
    /\ isFunded(state[o]) => fundedAt[o]
    /\ \A e \in OneTimeEvents :
         emitted[o][e] <= 1 /\ (emitted[o][e] > 0 => state[o] \in After[e])

\* The move a call is about to make is one the order's state allows, and what
\* the new state will say is so already.
MoveFits(c) ==
    /\ c.to # "created"
    /\ c.to = "funding_pending" => state[c.o] = "created"
    /\ c.to = "funded" => state[c.o] = "funding_pending"
    /\ c.to = "shipped" => state[c.o] = "funded"
    /\ c.to = "failed" =>
         state[c.o] \in {"created", "funding_pending"} /\ clock[c.o] >= 1
    /\ c.to = "settlement_pending" =>
         /\ state[c.o] \in {"funded", "shipped", "payout_pending"}
         /\ escrow[c.o] = "captured"
    /\ c.to = "released" =>
         state[c.o] \in Releasable /\ escrow[c.o] = "captured"
    /\ c.to = "payout_pending" =>
         state[c.o] \in Releasable /\ IsLatest(c.o, payout[c.o])
    /\ c.to = "paid_out" =>
         /\ state[c.o] = "payout_pending"
         /\ rail[c.o][payout[c.o].id] = "delivered"
    /\ c.to = "refunded" =>
         /\ state[c.o] = "refund_pending"
         /\ escrow[c.o] \in {"voided", "refunded"}

\* What the one call in flight knows of its order's state.
CallTells(c) ==
    c.at # "idle" =>
      /\ InTransition(c) =>
           /\ MoveFits(c)
           /\ c.then = "fund.execute" => c.to = "funding_pending"
           /\ c.then = "refund.escrow" => c.to = "refund_pending"
      /\ c.at = "transition.write" => canTransition(state[c.o], c.to)
      /\ c.at \in {"emit", "settle.payout"} =>
           /\ state[c.o] = c.to
           /\ c.to \in OneTimeEvents => emitted[c.o][c.to] = 0
      /\ c.at \in {"payout.rebate", "payout.rebateRow"} =>
           state[c.o] = "payout_pending"
      /\ c.at = "fund.execute" => state[c.o] # "created"
      /\ c.at \in {"release.capture", "payout.quote", "refresh.read"} =>
           c.snap = state[c.o]
      /\ c.at = "release.capture" => state[c.o] \in Releasable
      /\ c.at \in {"release.swap", "release.captureRow"} =>
           /\ state[c.o] \in {"funded", "shipped"}
           /\ c.snap = state[c.o]
           /\ escrow[c.o] = "captured"
      /\ c.at \in {"settle.swapRow", "settle.rebate", "settle.rebateRow",
                   "payout.quote", "payout.submit"} =>
           state[c.o] \in Releasable /\ escrow[c.o] = "captured"
      /\ c.at \in {"payout.save", "payout.row"} =>
           state[c.o] \in Releasable /\ IsLatest(c.o, c.pay)
      /\ c.at = "payout.row" => payout[c.o] = c.pay
      /\ c.at = "retry.swap" => state[c.o] = "settlement_pending"
      /\ c.at \in {"refresh.status", "refresh.save", "refresh.row"} =>
           /\ c.snap = state[c.o]
           /\ isOffRamped(state[c.o])
           /\ c.pay.id = payout[c.o].id
      /\ c.at \in {"refund.escrow", "refund.bridge"} =>
           state[c.o] = "refund_pending"
      /\ c.at = "reconcile.read" => state[c.o] = "funding_pending"

\* The order's state says where its money is.
Settled(o) ==
    /\ state[o] \in {"created", "funding_pending", "failed"} =>
         escrow[o] = "none"
    /\ state[o] = "released" => escrow[o] = "captured"
    /\ state[o] = "refunded" => escrow[o] \in {"voided", "refunded"}
    /\ NothingAfterSwap(o) =>
         /\ state[o] \in {"funded", "shipped"} =>
              o \in BankOrders \/ escrow[o] \in {"authorized", "reclaimed"}
         /\ state[o] = "settlement_pending" => swaps[o] = 0
         /\ state[o] = "released" => swaps[o] = 1
    /\ o \in BankOrders =>
         IF isOffRamped(state[o]) THEN OnlyOutstanding(o, payout[o].id)
                                  ELSE NoneOutstanding(o)

BoundFor(c, s) == InTransition(c) /\ c.to = s

\* Call c is between a transfer and the move of the order it stands for.
IsAhead(c) ==
    \/ c.at \in {"fund.record", "release.swap", "release.captureRow",
                 "settle.swapRow", "settle.rebate", "settle.rebateRow",
                 "payout.quote", "payout.submit", "payout.save", "payout.row"}
    \/ c.at = "fund.reread" /\ state[c.o] = "funding_pending"
    \/ \E s \in {"funded", "settlement_pending", "released",
                 "payout_pending"} : BoundFor(c, s)

\* It knows what it has moved.
Ahead(c) ==
    /\ c.at = "fund.record" =>
         state[c.o] \in {"funding_pending", "refund_pending"}
    /\ c.at \in {"fund.record", "fund.reread"} \/ BoundFor(c, "funded") =>
         escrow[c.o] \in {"authorized", "reclaimed"}
    /\ c.at = "release.swap" \/ BoundFor(c, "settlement_pending") =>
         swaps[c.o] = 0
    /\ c.at = "release.captureRow" /\ c.o \notin BankOrders =>
         \/ c.to = "released" /\ swaps[c.o] = 1
         \/ c.to = "settlement_pending" /\ swaps[c.o] = 0
    /\ \/ c.at \in {"release.captureRow", "payout.quote", "payout.submit"}
       \/ BoundFor(c, "settlement_pending")
       => (c.o \in BankOrders => NoneOutstanding(c.o))
    /\ \/ c.at \in {"settle.swapRow", "settle.rebate", "settle.rebateRow"}
       \/ BoundFor(c, "released")
       => (NothingAfterSwap(c.o) => swaps[c.o] = 1)
    /\ c.at \in {"payout.save", "payout.row"} =>
         OnlyOutstanding(c.o, c.pay.id)
    /\ BoundFor(c, "payout_pending") => OnlyOutstanding(c.o, payout[c.o].id)

\* As long as no call has died, an order is settled unless the call in flight
\* is ahead of its record.
Accounted ==
    faults = 0 =>
      \A o \in Orders :
        \/ Settled(o)
        \/ \E w \in Workers : call[w].o = o /\ IsAhead(call[w])
AheadKnows == faults = 0 => \A w \in Workers : IsAhead(call[w]) => Ahead(call[w])

\* The inductive invariant behind AnnouncedOnce, PayoutIsTracked,
\* PaidOrRefundedOnce and RecordAgreesWithMoney, for hosts that make one call at
\* a time: the order's state tells where its money is, and what it does not
\* tell yet the call in flight knows.
AloneInv ==
    /\ EvidenceInv
    /\ \A o \in Orders : StateTells(o)
    /\ \A w \in Workers : CallTells(call[w])
    /\ Accounted
    /\ AheadKnows

-----------------------------------------------------------------------------
(* Liveness.  A call goes on as long as its awaits answer; the rail settles *)
(* what it accepted; and the host keeps polling, which it can do whenever   *)
(* no call is in flight.                                                    *)

Fairness ==
    /\ \A w \in Workers : WF_vars(Continue(w))
    /\ \A o \in Orders, k \in PaymentIds : WF_vars(RailSettles(o, k))
    /\ \A w \in Workers, o \in Orders :
         SF_vars(RefreshPayout(w, o)) /\ SF_vars(Reconcile(w, o))

FairSpec == Spec /\ Fairness

\* As long as no call has died, a broadcast payout is settled in the record
\* too, one way or the other.
PayoutIsSettled ==
    \A o \in Orders :
      state[o] = "payout_pending"
        ~> state[o] # "payout_pending" \/ faults > 0

\* An order whose money reached the escrow does not stay funding_pending,
\* whatever became of the call that collected it.
FundingIsReconciled ==
    \A o \in Orders :
      state[o] = "funding_pending" /\ escrow[o] = "authorized"
        ~> state[o] # "funding_pending" \/ escrow[o] # "authorized"

-----------------------------------------------------------------------------
(* What the repository says and the code does not do.                      *)

\* orchestrator/order-store.ts: "a replayed step reuses its nonce and collides
\* instead of moving money twice".
SwappedOnce == \A o \in Orders : swaps[o] <= 1

\* sdk/rivokit.ts, refreshPayout(): it will "advance the order if it has
\* finished", whatever became of an earlier refresh.
PayoutIsAdvanced ==
    \A o \in Orders : state[o] = "payout_pending" ~> state[o] # "payout_pending"

\* sdk/rivokit.ts, releaseToBank(): "Every refusal before `submit` lands the
\* order in `settlement_pending`", from where it can be retried.  A call that
\* gives up on a payout has done so, or is about to.
RefusalsStall ==
    [][\A w \in Workers :
         At(w, "payout.quote") /\ call'[w].at = "idle"
           => state[call[w].o] = "settlement_pending"]_vars
=============================================================================
