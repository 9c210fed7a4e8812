------------------------ MODULE RivoKitAlone_Proofs ------------------------
(***************************************************************************)
(* The order facade while the calls of its host do not overlap: any orders, *)
(* any workers, any bounds, any calls that die, one call at a time.         *)
(*                                                                         *)
(* A step of the lone call touches one order.  What the other orders say    *)
(* stays true, and for its own order there is one step below per action:    *)
(* either the order's state still says where the money is, or the call that *)
(* is ahead of it knows.                                                    *)
(***************************************************************************)
EXTENDS RivoKit_Proofs, FiniteSetTheorems

USE DEF orderRow, database, chain

\* What the order's state, with the call c on it, says about its money.
InAccount(o, c) == IF IsAhead(c) THEN Ahead(c) ELSE Settled(o)

-----------------------------------------------------------------------------
(* What the one call in flight has to go by, and what it has to leave.      *)

\* Worker w serves call c on order o, and knows what it should.
Serves(w, o, c) ==
    /\ call[w] = c /\ c.o = o /\ c.at # "idle"
    /\ CallKnows(c) /\ CallTells(c)
    /\ StateTells(o) /\ MoneyInOrder(o) /\ Backs(o, state[o])
    /\ faults = 0 => InAccount(o, c)

LEMMA LoneCall ==
  ASSUME AloneInv, OneCall, NEW w \in Workers, ~ At(w, "idle")
  PROVE  \E o \in Orders, c \in Calls : Serves(w, o, c)
<1>1. call[w] \in Calls /\ call[w].o \in Orders /\ call[w].at # "idle"
  BY InFlight DEF AloneInv, EvidenceInv, At
<1>2. faults = 0 => InAccount(call[w].o, call[w])
  BY <1>1 DEF AloneInv, Accounted, AheadKnows, OneCall, InAccount, At, IsAhead,
              BoundFor, InTransition
<1> QED
  BY <1>1, <1>2 DEF AloneInv, EvidenceInv, RecordBacked, Serves

\* A rebate that has thrown is never one that has not.
LEMMA StillThrown ==
  ASSUME AloneInv, [Next]_vars, NEW o \in Orders
  PROVE  NothingAfterSwap(o)' => NothingAfterSwap(o)
BY FactsStay DEF AloneInv, FactsKept, NothingAfterSwap

\* What a step of the lone call has to establish.
LEMMA LoneStep ==
  ASSUME AloneInv, OneCall, OneCall', EvidenceInv', [Next]_vars,
         NEW w \in Workers, NEW o \in Orders,
         At(w, "idle") => call'[w].at # "idle",
         ~ At(w, "idle") => call[w].o = o,
         \A v \in Workers \ {w} : call'[v] = call[v],
         \A p \in Orders \ {o} :
           /\ state'[p] = state[p] /\ fundedAt'[p] = fundedAt[p]
           /\ payout'[p] = payout[p] /\ emitted'[p] = emitted[p]
           /\ escrow'[p] = escrow[p] /\ clock'[p] = clock[p]
           /\ swaps'[p] = swaps[p] /\ rail'[p] = rail[p],
         call'[w].at = "idle" \/ call'[w].o = o,
         StateTells(o)', CallTells(call[w])',
         faults' = 0 => faults = 0 /\ InAccount(o, call[w])'
  PROVE  AloneInv'
<1>0. \A v \in Workers \ {w} : At(v, "idle") /\ At(v, "idle")'
  BY DEF OneCall, At
<1>1. \A p \in Orders : StateTells(p)'
  BY DEF AloneInv, StateTells, IsLatest
<1>2. \A v \in Workers : CallTells(call[v])'
  BY <1>0 DEF CallTells, At
<1>3. faults' = 0 => \A p \in Orders \ {o} : Settled(p)'
  <2> SUFFICES ASSUME faults' = 0, NEW p \in Orders \ {o} PROVE Settled(p)'
    OBVIOUS
  <2>1. Settled(p)
    BY <1>0 DEF AloneInv, Accounted, IsAhead, At, BoundFor, InTransition
  <2> QED BY <2>1, StillThrown DEF Settled, OnlyOutstanding, NoneOutstanding
<1>4. Accounted'
  BY <1>3 DEF Accounted, InAccount, IsAhead, BoundFor, InTransition
<1>5. AheadKnows'
  BY <1>0 DEF AheadKnows, InAccount, At, IsAhead, BoundFor, InTransition
<1> QED BY <1>1, <1>2, <1>4, <1>5 DEF AloneInv

\* The variables that neither a row of the ledger nor a rebate changes.
standing == <<state, fundedAt, payout, emitted, escrow, clock, swaps, rail,
              faults>>

\* A step that moves nothing leaves a call that knows where things stand.
LEMMA NothingMoves ==
  ASSUME AloneInv, OneCall, OneCall', EvidenceInv', [Next]_vars,
         NEW w \in Workers, NEW o \in Orders,
         At(w, "idle") \/ call[w].o = o, UNCHANGED standing,
         NEW c, call' = [call EXCEPT ![w] = c],
         call[w].at = "idle" => c.at # "idle",
         c.at = "idle" \/ c.o = o,
         CallTells(c), faults = 0 => InAccount(o, c)
  PROVE  AloneInv'
<1>1. call'[w] = c /\ \A v \in Workers \ {w} : call'[v] = call[v]
  BY DEF AloneInv, EvidenceInv, TypeInv, TypeOK
<1>2. StateTells(o)'
  BY DEF AloneInv, StateTells, IsLatest, standing
<1>3. CallTells(c)'
  BY DEF CallTells, MoveFits, IsLatest, standing
<1>4. faults = 0 => InAccount(o, c)'
  <2>1. NothingAfterSwap(o)' => NothingAfterSwap(o)
    BY StillThrown
  <2>2. CASE IsAhead(c)
    <3>1. IsAhead(c)' /\ c.o = o
      BY <2>2 DEF IsAhead, BoundFor, InTransition, standing
    <3>2. c.o = o => (faults = 0 /\ Ahead(c) => Ahead(c)')
      BY <2>1
         DEF Ahead, BoundFor, OnlyOutstanding, NoneOutstanding, standing
    <3> QED BY <2>2, <3>1, <3>2 DEF InAccount
  <2>3. CASE ~ IsAhead(c)
    <3>1. ~ IsAhead(c)'
      BY <2>3 DEF IsAhead, BoundFor, InTransition, standing
    <3>2. Settled(o) => Settled(o)'
      BY <2>1 DEF Settled, OnlyOutstanding, NoneOutstanding, standing
    <3> QED BY <2>3, <3>1, <3>2 DEF InAccount
  <2> QED BY <2>2, <2>3
<1> QED BY <1>1, <1>2, <1>3, <1>4, LoneStep DEF standing, At

\* A call that ends leaves its order settled.
LEMMA EndsSettled ==
  ASSUME AloneInv, OneCall, OneCall', EvidenceInv', [Next]_vars,
         NEW w \in Workers, NEW o \in Orders,
         call[w].at # "idle", call[w].o = o, UNCHANGED standing, End(w),
         faults = 0 => Settled(o)
  PROVE  AloneInv'
<1>1. Idle.at = "idle" /\ ~ IsAhead(Idle)
  BY DEF Idle, IsAhead, BoundFor, InTransition
<1>2. CallTells(Idle)
  BY <1>1 DEF CallTells
<1> QED BY <1>1, <1>2, NothingMoves DEF End, InAccount

\* How each way of going on rewrites the call.
LEMMA GotoGives ==
  ASSUME NEW w \in Workers, NEW c \in Calls, call[w] = c, NEW l \in Labels,
         Goto(w, l)
  PROVE  \E d \in Calls :
           /\ call' = [call EXCEPT ![w] = d]
           /\ d.at = l /\ d.o = c.o /\ d.snap = c.snap /\ d.pay = c.pay
           /\ d.to = c.to /\ d.then = c.then
<1>1. [c EXCEPT !.at = l] \in Calls
  BY DEF Calls
<1> WITNESS [c EXCEPT !.at = l] \in Calls
<1> QED BY DEF Goto, Calls

LEMMA MoveGives ==
  ASSUME NEW w \in Workers, NEW c \in Calls, call[w] = c,
         NEW to \in ORDER_STATES, NEW l \in Continuations, Move(w, to, l)
  PROVE  \E d \in Calls :
           /\ call' = [call EXCEPT ![w] = d]
           /\ d.at = "transition.read" /\ d.o = c.o /\ d.snap = c.snap
           /\ d.pay = c.pay /\ d.to = to /\ d.then = l
<1>. DEFINE d == [c EXCEPT !.at = "transition.read", !.to = to, !.then = l]
<1>1. d \in Calls
  BY DEF Calls, Labels
<1> WITNESS d \in Calls
<1> QED BY DEF Move, Calls

\* A call that sets out to move the order knows what the new state will say.
LEMMA SetsOut ==
  ASSUME AloneInv, OneCall, OneCall', EvidenceInv', [Next]_vars,
         NEW w \in Workers, NEW o \in Orders,
         NEW c \in Calls, call[w] = c, c.o = o, UNCHANGED standing,
         NEW to \in ORDER_STATES \ {"refund_pending", "funding_pending"},
         NEW l \in {"idle", "emit", "settle.payout", "payout.rebate"},
         Move(w, to, l),
         \A d \in Calls : BoundFor(d, to) /\ d.o = o =>
           MoveFits(d) /\ (faults = 0 => InAccount(o, d))
  PROVE  AloneInv'
<1>1. PICK d \in Calls :
        /\ call' = [call EXCEPT ![w] = d]
        /\ d.at = "transition.read" /\ d.o = o /\ d.to = to /\ d.then = l
  BY MoveGives DEF Continuations
<1>2. BoundFor(d, to) /\ CallTells(d)
  BY <1>1 DEF CallTells, InTransition, BoundFor
<1> QED BY <1>1, <1>2, NothingMoves

\* Call d is call c a step later, at label l.
Follows(d, c, l) ==
    /\ d.at = l /\ d.o = c.o /\ d.snap = c.snap /\ d.pay = c.pay
    /\ d.to = c.to /\ d.then = c.then

\* A call that goes on takes along what it needs to know.
LEMMA GoesOn ==
  ASSUME AloneInv, OneCall, OneCall', EvidenceInv', [Next]_vars,
         NEW w \in Workers, NEW o \in Orders,
         NEW c \in Calls, Serves(w, o, c), UNCHANGED standing,
         NEW l \in Labels, Goto(w, l),
         \A d \in Calls : Follows(d, c, l) =>
           CallTells(d) /\ (faults = 0 => InAccount(o, d))
  PROVE  AloneInv'
<1>1. PICK d \in Calls :
        call' = [call EXCEPT ![w] = d] /\ Follows(d, c, l)
  BY GotoGives DEF Serves, Follows
<1> QED BY <1>1, NothingMoves DEF Serves, Follows

-----------------------------------------------------------------------------
(* The steps that move no money and no order.                              *)

LEMMA ReadsOn ==
  ASSUME AloneInv, OneCall, OneCall', [Next]_vars, NEW w \in Workers, TransitionRead(w)
  PROVE  AloneInv'
<1>0. EvidenceInv'
  BY EvidenceStays DEF AloneInv
<1>1. PICK o \in Orders, c \in Calls : Serves(w, o, c)
  BY LoneCall DEF TransitionRead, At
<1>2. c.at = "transition.read" /\ UNCHANGED standing
  BY <1>1 DEF TransitionRead, At, standing, Serves
<1>3. MoveFits(c)
  BY <1>1, <1>2 DEF CallTells, InTransition, Serves
<1>4. CASE canTransition(state[o], c.to)
  <2>1. PICK d \in Calls :
          /\ call' = [call EXCEPT ![w] = d]
          /\ d.at = "transition.write" /\ d.o = o /\ d.snap = c.snap
          /\ d.pay = c.pay /\ d.to = c.to /\ d.then = c.then
    BY <1>1, <1>4, GotoGives DEF TransitionRead, Serves, Labels
  <2>2. MoveFits(d)
    BY <1>1, <1>3, <2>1 DEF MoveFits, Serves
  <2>3. CallTells(d)
    BY <1>1, <1>2, <1>4, <2>1, <2>2 DEF CallTells, InTransition, Serves
  <2>4. faults = 0 => InAccount(o, d)
    BY <1>1, <1>2, <2>1
       DEF InAccount, IsAhead, Ahead, BoundFor, InTransition, Serves
  <2> QED BY <1>0, <1>1, <1>2, <2>1, <2>3, <2>4, NothingMoves DEF Serves
<1>5. CASE ~ canTransition(state[o], c.to)
  <2>1. End(w)
    BY <1>1, <1>5 DEF TransitionRead, Serves
  <2>2. faults = 0 => Settled(o)
    BY <1>1, <1>2, <1>3, <1>5
       DEF InAccount, IsAhead, BoundFor, InTransition, MoveFits, Serves,
           canTransition, TRANSITIONS, Releasable
  <2> QED BY <1>0, <1>1, <1>2, <2>1, <2>2, EndsSettled DEF Serves
<1> QED BY <1>4, <1>5

LEMMA FundGoesOn ==
  ASSUME AloneInv, OneCall, OneCall', [Next]_vars, NEW w \in Workers,
         FundRecord(w) \/ FundReread(w)
  PROVE  AloneInv'
<1>0. EvidenceInv'
  BY EvidenceStays DEF AloneInv
<1>1. PICK o \in Orders, c \in Calls : Serves(w, o, c)
  BY LoneCall DEF FundRecord, FundReread, At
<1>2. UNCHANGED standing
  BY DEF FundRecord, FundReread, standing
<1>3. CASE FundRecord(w)
  <2>1. c.at = "fund.record"
    BY <1>1, <1>3 DEF FundRecord, At, Serves
  <2>2. PICK d \in Calls :
          /\ call' = [call EXCEPT ![w] = d]
          /\ d.at = "fund.reread" /\ d.o = o
    BY <1>1, <1>3, GotoGives DEF FundRecord, Serves, Labels
  <2>3. CallTells(d)
    BY <2>2 DEF CallTells, InTransition
  <2>4. faults = 0 => InAccount(o, d)
    <3>1. escrow[o] \in {"authorized", "reclaimed"} => ~ Broadcast(o)
      BY <1>1 DEF MoneyInOrder, Captured, Serves
    <3>2. ~ Broadcast(o) => NoneOutstanding(o)
      BY DEF Broadcast, NoneOutstanding
    <3> QED
      BY <1>1, <2>1, <2>2, <3>1, <3>2
         DEF InAccount, IsAhead, Ahead, BoundFor, InTransition, Settled,
             isOffRamped, Serves
  <2> QED BY <1>0, <1>1, <1>2, <2>2, <2>3, <2>4, NothingMoves DEF Serves
<1>4. CASE FundReread(w)
  <2>1. c.at = "fund.reread"
    BY <1>1, <1>4 DEF FundReread, At, Serves
  <2>2. CASE state[o] = "funding_pending"
    <3>1. Move(w, "funded", "emit")
      BY <1>1, <1>4, <2>2 DEF FundReread, Serves
    <3>2. ASSUME NEW d \in Calls, BoundFor(d, "funded"), d.o = o
          PROVE  MoveFits(d) /\ (faults = 0 => InAccount(o, d))
      <4>1. MoveFits(d)
        BY <2>2, <3>2 DEF MoveFits, BoundFor
      <4>2. faults = 0 => InAccount(o, d)
        BY <1>1, <2>1, <2>2, <3>2
           DEF InAccount, IsAhead, Ahead, BoundFor, InTransition, Serves
      <4> QED BY <4>1, <4>2
    <3> QED BY <1>0, <1>1, <1>2, <3>1, <3>2, SetsOut
               DEF ORDER_STATES, Serves
  <2>3. CASE state[o] # "funding_pending"
    <3>1. End(w)
      BY <1>1, <1>4, <2>3 DEF FundReread, Serves
    <3>2. faults = 0 => Settled(o)
      BY <1>1, <2>1, <2>3
         DEF InAccount, IsAhead, BoundFor, InTransition, Serves
    <3> QED BY <1>0, <1>1, <1>2, <3>1, <3>2, EndsSettled DEF Serves
  <2> QED BY <2>2, <2>3
<1> QED BY <1>3, <1>4

\* Release, its settlement and its payout, between two transfers.
LEMMA SettlementGoesOn ==
  ASSUME AloneInv, OneCall, OneCall', [Next]_vars, NEW w \in Workers,
         \/ ReleaseCaptureRow(w) \/ SettleSwapRow(w) \/ SettleRebate(w)
         \/ SettleRebateRow(w) \/ PayoutQuote(w) \/ PayoutRow(w)
         \/ PayoutRebate(w) \/ PayoutRebateRow(w)
  PROVE  AloneInv'
<1>0. EvidenceInv'
  BY EvidenceStays DEF AloneInv
<1>1. PICK o \in Orders, c \in Calls : Serves(w, o, c)
  BY LoneCall
     DEF ReleaseCaptureRow, SettleSwapRow, SettleRebate, SettleRebateRow,
         PayoutQuote, PayoutRow, PayoutRebate, PayoutRebateRow, At
<1>2. UNCHANGED standing
  BY DEF ReleaseCaptureRow, SettleSwapRow, SettleRebate, SettleRebateRow,
         PayoutQuote, PayoutRow, PayoutRebate, PayoutRebateRow, standing
<1> USE DEF InTransition, BoundFor
<1>3. CASE ReleaseCaptureRow(w)
  <2>1. c.at = "release.captureRow"
    BY <1>1, <1>3 DEF ReleaseCaptureRow, At, Serves
  <2>2. CASE o \in BankOrders
    <3>1. Goto(w, "payout.quote")
      BY <1>1, <1>3, <2>2 DEF ReleaseCaptureRow, Serves
    <3>2. ASSUME NEW d \in Calls, Follows(d, c, "payout.quote")
          PROVE  CallTells(d) /\ (faults = 0 => InAccount(o, d))
      <4>1. CallTells(d)
        BY <1>1, <2>1, <3>2 DEF Serves, Follows, CallTells, Releasable
      <4>2. faults = 0 => InAccount(o, d)
        BY <1>1, <2>1, <3>2 DEF Serves, Follows, InAccount, IsAhead, Ahead
      <4> QED BY <4>1, <4>2
    <3> QED BY <1>0, <1>1, <1>2, <3>1, <3>2, GoesOn DEF Labels
  <2>3. CASE o \notin BankOrders /\ c.to = "released"
    <3>1. Goto(w, "settle.swapRow")
      BY <1>1, <1>3, <2>3 DEF ReleaseCaptureRow, Serves
    <3>2. ASSUME NEW d \in Calls, Follows(d, c, "settle.swapRow")
          PROVE  CallTells(d) /\ (faults = 0 => InAccount(o, d))
      <4>1. CallTells(d)
        BY <1>1, <2>1, <3>2 DEF Serves, Follows, CallTells, Releasable
      <4>2. faults = 0 => InAccount(o, d)
        BY <1>1, <2>1, <2>3, <3>2
           DEF Serves, Follows, InAccount, IsAhead, Ahead
      <4> QED BY <4>1, <4>2
    <3> QED BY <1>0, <1>1, <1>2, <3>1, <3>2, GoesOn DEF Labels
  <2>4. CASE o \notin BankOrders /\ c.to # "released"
    <3>1. Move(w, "settlement_pending", "idle")
      BY <1>1, <1>3, <2>4 DEF ReleaseCaptureRow, Serves
    <3>2. ASSUME NEW d \in Calls, BoundFor(d, "settlement_pending"), d.o = o
          PROVE  MoveFits(d) /\ (faults = 0 => InAccount(o, d))
      <4>1. MoveFits(d)
        BY <1>1, <2>1, <3>2 DEF Serves, CallTells, MoveFits
      <4>2. faults = 0 => InAccount(o, d)
        BY <1>1, <2>1, <2>4, <3>2 DEF Serves, InAccount, IsAhead, Ahead
      <4> QED BY <4>1, <4>2
    <3> QED BY <1>0, <1>1, <1>2, <3>1, <3>2, SetsOut
               DEF Serves, ORDER_STATES
  <2> QED BY <2>2, <2>3, <2>4
<1>4. CASE SettleSwapRow(w)
  <2>1. c.at = "settle.swapRow" /\ Goto(w, "settle.rebate")
    BY <1>1, <1>4 DEF SettleSwapRow, At, Serves
  <2>2. ASSUME NEW d \in Calls, Follows(d, c, "settle.rebate")
        PROVE  CallTells(d) /\ (faults = 0 => InAccount(o, d))
    <3>1. CallTells(d)
      BY <1>1, <2>1, <2>2 DEF Serves, Follows, CallTells
    <3>2. faults = 0 => InAccount(o, d)
      BY <1>1, <2>1, <2>2 DEF Serves, Follows, InAccount, IsAhead, Ahead
    <3> QED BY <3>1, <3>2
  <2> QED BY <1>0, <1>1, <1>2, <2>1, <2>2, GoesOn DEF Labels
<1>5. ASSUME c.at \in {"settle.rebate", "settle.rebateRow"},
             Move(w, "released", "settle.payout")
      PROVE  AloneInv'
  <2>1. ASSUME NEW d \in Calls, BoundFor(d, "released"), d.o = o
        PROVE  MoveFits(d) /\ (faults = 0 => InAccount(o, d))
    <3>1. MoveFits(d)
      BY <1>1, <1>5, <2>1 DEF Serves, CallTells, MoveFits
    <3>2. faults = 0 => InAccount(o, d)
      BY <1>1, <1>5, <2>1 DEF Serves, InAccount, IsAhead, Ahead
    <3> QED BY <3>1, <3>2
  <2> QED BY <1>0, <1>1, <1>2, <1>5, <2>1, SetsOut DEF Serves, ORDER_STATES
<1>6. CASE SettleRebate(w)
  <2>1. c.at = "settle.rebate"
    BY <1>1, <1>6 DEF SettleRebate, At, Serves
  <2>2. CASE Goto(w, "settle.rebateRow")
    <3>1. ASSUME NEW d \in Calls, Follows(d, c, "settle.rebateRow")
          PROVE  CallTells(d) /\ (faults = 0 => InAccount(o, d))
      <4>1. CallTells(d)
        BY <1>1, <2>1, <3>1 DEF Serves, Follows, CallTells
      <4>2. faults = 0 => InAccount(o, d)
        BY <1>1, <2>1, <3>1 DEF Serves, Follows, InAccount, IsAhead, Ahead
      <4> QED BY <4>1, <4>2
    <3> QED BY <1>0, <1>1, <1>2, <2>2, <3>1, GoesOn DEF Labels
  <2>3. CASE /\ rebates' = [rebates EXCEPT ![o] = @ \cup {"threw"}]
             /\ End(w)
    <3>1. /\ state[o] \in Releasable /\ escrow[o] = "captured"
          /\ o \notin BankOrders
      BY <1>1, <2>1 DEF Serves, CallKnows, CallTells
    <3>2. "threw" \in rebates'[o]
      BY <2>3 DEF AloneInv, EvidenceInv, TypeInv, TypeOK
    <3>3. Settled(o)'
      BY <1>2, <3>1, <3>2
         DEF Releasable, Settled, NothingAfterSwap, standing
    <3>4. /\ call'[w] = Idle /\ Idle.at = "idle" /\ ~ IsAhead(Idle)'
          /\ \A v \in Workers \ {w} : call'[v] = call[v]
      BY <2>3 DEF End, Idle, IsAhead, AloneInv, EvidenceInv, TypeInv, TypeOK
    <3>5. CallTells(call[w])' /\ ~ IsAhead(call[w])'
      BY <3>4 DEF CallTells, IsAhead
    <3>6. StateTells(o)'
      BY <1>1, <1>2 DEF Serves, StateTells, IsLatest, standing
    <3>7. faults' = 0 => faults = 0 /\ InAccount(o, call[w])'
      BY <1>2, <3>3, <3>5 DEF InAccount, standing
    <3> QED BY <1>0, <1>1, <1>2, <3>4, <3>5, <3>6, <3>7, LoneStep
            DEF Serves, At, standing
  <2> QED BY <1>1, <1>5, <1>6, <2>1, <2>2, <2>3
             DEF SettleRebate, PayRebate, Serves
<1>7. CASE SettleRebateRow(w)
  BY <1>1, <1>5, <1>7 DEF SettleRebateRow, At, Serves
<1>8. CASE PayoutQuote(w)
  <2>1. c.at = "payout.quote"
    BY <1>1, <1>8 DEF PayoutQuote, At, Serves
  <2>2. CASE Goto(w, "payout.submit")
    <3>1. ASSUME NEW d \in Calls, Follows(d, c, "payout.submit")
          PROVE  CallTells(d) /\ (faults = 0 => InAccount(o, d))
      <4>1. CallTells(d)
        BY <1>1, <2>1, <3>1 DEF Serves, Follows, CallTells
      <4>2. faults = 0 => InAccount(o, d)
        BY <1>1, <2>1, <3>1 DEF Serves, Follows, InAccount, IsAhead, Ahead
      <4> QED BY <4>1, <4>2
    <3> QED BY <1>0, <1>1, <1>2, <2>2, <3>1, GoesOn DEF Labels
  <2>3. swaps[o] = 0 /\ o \in BankOrders
    BY <1>1, <2>1
       DEF Serves, CallKnows, MoneyInOrder, Converted, AloneInv, EvidenceInv,
           TypeInv, TypeOK
  <2>4. CASE End(w)
    <3>1. faults = 0 => Settled(o)
      BY <1>1, <2>1, <2>3
         DEF Serves, CallTells, InAccount, IsAhead, Ahead, Releasable,
             Settled, isOffRamped
    <3> QED BY <1>0, <1>1, <1>2, <2>4, <3>1, EndsSettled DEF Serves
  <2>5. CASE /\ c.snap # "settlement_pending"
             /\ Move(w, "settlement_pending", "idle")
    <3>1. ASSUME NEW d \in Calls, BoundFor(d, "settlement_pending"), d.o = o
          PROVE  MoveFits(d) /\ (faults = 0 => InAccount(o, d))
      <4>1. MoveFits(d)
        BY <1>1, <2>1, <2>5, <3>1 DEF Serves, CallTells, MoveFits, Releasable
      <4>2. faults = 0 => InAccount(o, d)
        BY <1>1, <2>1, <2>3, <3>1 DEF Serves, InAccount, IsAhead, Ahead
      <4> QED BY <4>1, <4>2
    <3> QED BY <1>0, <1>1, <1>2, <2>5, <3>1, SetsOut
               DEF Serves, ORDER_STATES
  <2> QED BY <1>1, <1>8, <2>2, <2>4, <2>5 DEF PayoutQuote, Stall, Serves
<1>9. CASE PayoutRow(w)
  <2>1. c.at = "payout.row" /\ Move(w, "payout_pending", "payout.rebate")
    BY <1>1, <1>9 DEF PayoutRow, At, Serves
  <2>2. ASSUME NEW d \in Calls, BoundFor(d, "payout_pending"), d.o = o
        PROVE  MoveFits(d) /\ (faults = 0 => InAccount(o, d))
    <3>1. MoveFits(d)
      BY <1>1, <2>1, <2>2 DEF Serves, CallTells, MoveFits
    <3>2. faults = 0 => InAccount(o, d)
      BY <1>1, <2>1, <2>2 DEF Serves, CallTells, InAccount, IsAhead, Ahead
    <3> QED BY <3>1, <3>2
  <2> QED BY <1>0, <1>1, <1>2, <2>1, <2>2, SetsOut DEF Serves, ORDER_STATES
<1>10. CASE PayoutRebate(w) \/ PayoutRebateRow(w)
  <2>1. /\ c.at \in {"payout.rebate", "payout.rebateRow"}
        /\ c.to = "payout_pending"
        /\ state[o] = "payout_pending"
    BY <1>1, <1>10
       DEF PayoutRebate, PayoutRebateRow, At, Serves, CallKnows, CallTells
  <2>2. faults = 0 => Settled(o)
    BY <1>1, <2>1 DEF Serves, InAccount, IsAhead
  <2>3. ASSUME NEW l \in {"payout.rebateRow", "emit"}, Goto(w, l)
        PROVE  AloneInv'
    <3>1. ASSUME NEW d \in Calls, Follows(d, c, l)
          PROVE  CallTells(d) /\ (faults = 0 => InAccount(o, d))
      <4>1. CallTells(d)
        BY <1>1, <2>1, <2>3, <3>1
           DEF Serves, Follows, CallTells, OneTimeEvents
      <4>2. faults = 0 => InAccount(o, d)
        BY <2>2, <2>3, <3>1 DEF Follows, InAccount, IsAhead
      <4> QED BY <4>1, <4>2
    <3> QED BY <1>0, <1>1, <1>2, <2>3, <3>1, GoesOn DEF Labels
  <2>4. CASE End(w)
    BY <1>0, <1>1, <1>2, <2>2, <2>4, EndsSettled DEF Serves
  <2> QED BY <1>1, <1>10, <2>3, <2>4
             DEF PayoutRebate, PayoutRebateRow, PayRebate, Serves
<1> QED BY <1>3, <1>4, <1>6, <1>7, <1>8, <1>9, <1>10

\* A call that takes instruction q in hand.
LEMMA HoldingGives ==
  ASSUME NEW w \in Workers, NEW c \in Calls, call[w] = c, NEW l \in Labels,
         NEW q, Holding(w, l, q)
  PROVE  \E d : /\ call' = [call EXCEPT ![w] = d]
                /\ d.at = l /\ d.o = c.o /\ d.snap = c.snap /\ d.pay = q
<1> WITNESS [c EXCEPT !.at = l, !.pay = q]
<1> QED BY DEF Holding, Calls

\* A refresh follows the payout its order points at.
LEMMA RefreshGoesOn ==
  ASSUME AloneInv, OneCall, OneCall', [Next]_vars, NEW w \in Workers,
         RefreshRead(w) \/ RefreshStatus(w) \/ RefreshRow(w)
  PROVE  AloneInv'
<1>0. EvidenceInv'
  BY EvidenceStays DEF AloneInv
<1>1. PICK o \in Orders, c \in Calls : Serves(w, o, c)
  BY LoneCall DEF RefreshRead, RefreshStatus, RefreshRow, At
<1>2. UNCHANGED standing
  BY DEF RefreshRead, RefreshStatus, RefreshRow, standing
<1>3. c.at \in {"refresh.read", "refresh.status", "refresh.row"}
  BY <1>1 DEF RefreshRead, RefreshStatus, RefreshRow, At, Serves
<1> USE DEF InTransition, BoundFor
<1>4. faults = 0 => Settled(o)
  BY <1>1, <1>3 DEF Serves, InAccount, IsAhead
<1>5. CASE End(w)
  BY <1>0, <1>1, <1>2, <1>4, <1>5, EndsSettled DEF Serves
<1>6. ASSUME NEW l \in {"refresh.status", "refresh.save"}, NEW q,
             Holding(w, l, q), q.id = payout[o].id, isOffRamped(state[o]),
             c.snap = state[o]
      PROVE  AloneInv'
  <2>1. PICK d : /\ call' = [call EXCEPT ![w] = d]
                 /\ d.at = l /\ d.o = o /\ d.snap = c.snap /\ d.pay = q
    BY <1>1, <1>6, HoldingGives DEF Labels, Serves
  <2>2. CallTells(d)
    BY <1>6, <2>1 DEF CallTells
  <2>3. faults = 0 => InAccount(o, d)
    BY <1>4, <1>6, <2>1 DEF InAccount, IsAhead
  <2> QED BY <1>0, <1>1, <1>2, <2>1, <2>2, <2>3, NothingMoves DEF Serves
<1>7. CASE RefreshRead(w)
  <2>1. c.at = "refresh.read" /\ c.snap = state[o]
    BY <1>1, <1>7 DEF RefreshRead, At, Serves, CallTells
  <2>2. \/ isOffRamped(state[o]) /\ Holding(w, "refresh.status", payout[o])
        \/ End(w)
    BY <1>1, <1>7, <2>1 DEF RefreshRead, Serves
  <2> QED BY <1>5, <1>6, <2>1, <2>2
<1>8. CASE RefreshStatus(w)
  <2>1. /\ c.at = "refresh.status" /\ c.snap = state[o]
        /\ isOffRamped(state[o]) /\ c.pay.id = payout[o].id
        /\ c.pay \in Payouts
    BY <1>1, <1>8 DEF RefreshStatus, At, Serves, CallTells, Calls
  <2>2. ASSUME NEW hash \in BOOLEAN,
               Holding(w, "refresh.save",
                       [c.pay EXCEPT !.status = rail[o][c.pay.id],
                                     !.hash = @ \/ hash])
        PROVE  AloneInv'
    <3>. DEFINE q == [c.pay EXCEPT !.status = rail[o][c.pay.id],
                                   !.hash = @ \/ hash]
    <3>1. q.id = c.pay.id
      BY <2>1 DEF Payouts
    <3> QED BY <1>6, <2>1, <2>2, <3>1
  <2> QED BY <1>1, <1>5, <1>8, <2>2 DEF RefreshStatus, Serves
<1>9. CASE RefreshRow(w)
  <2>1. /\ c.at = "refresh.row" /\ c.snap = state[o]
        /\ isOffRamped(state[o]) /\ c.pay.id = payout[o].id
        /\ c.pay.kind = "live" /\ Trustworthy(o, c.pay)
        /\ IsLatest(o, payout[o])
    BY <1>1, <1>9
       DEF RefreshRow, At, Serves, CallTells, CallKnows, StateTells
  <2>2. CASE /\ state[o] = "payout_pending" /\ PaysOut(c.pay.status)
             /\ Move(w, "paid_out", "emit")
    <3>1. rail[o][payout[o].id] = "delivered"
      BY <2>1, <2>2 DEF Trustworthy, RailTerminal, PaysOut
    <3>2. ASSUME NEW d \in Calls, BoundFor(d, "paid_out"), d.o = o
          PROVE  MoveFits(d) /\ (faults = 0 => InAccount(o, d))
      <4>1. MoveFits(d)
        BY <2>2, <3>1, <3>2 DEF MoveFits
      <4>2. faults = 0 => InAccount(o, d)
        BY <1>4, <3>2 DEF InAccount, IsAhead
      <4> QED BY <4>1, <4>2
    <3> QED BY <1>0, <1>1, <1>2, <2>2, <3>2, SetsOut
               DEF Serves, ORDER_STATES
  <2>3. CASE /\ state[o] = "payout_pending" /\ ~ PaysOut(c.pay.status)
             /\ Falls(c.pay.status)
             /\ Move(w, "settlement_pending", "idle")
    <3>1. rail[o][payout[o].id] = "failed"
      BY <2>1, <2>3 DEF Trustworthy, RailTerminal, PaysOut, Falls
    <3>2. swaps[o] = 0 /\ o \in BankOrders
      BY <1>1, <2>3
         DEF Serves, Backs, MoneyInOrder, Converted, AloneInv, EvidenceInv,
             TypeInv, TypeOK
    <3>3. faults = 0 => NoneOutstanding(o)
      BY <1>4, <2>3, <3>1, <3>2
         DEF Settled, OnlyOutstanding, NoneOutstanding, isOffRamped
    <3>4. ASSUME NEW d \in Calls, BoundFor(d, "settlement_pending"), d.o = o
          PROVE  MoveFits(d) /\ (faults = 0 => InAccount(o, d))
      <4>1. MoveFits(d)
        BY <2>1, <2>3, <3>4 DEF MoveFits, IsLatest
      <4>2. faults = 0 => InAccount(o, d)
        BY <3>2, <3>3, <3>4 DEF InAccount, IsAhead, Ahead
      <4> QED BY <4>1, <4>2
    <3> QED BY <1>0, <1>1, <1>2, <2>3, <3>4, SetsOut
               DEF Serves, ORDER_STATES
  <2> QED BY <1>1, <1>5, <1>9, <2>1, <2>2, <2>3 DEF RefreshRow, Serves
<1> QED BY <1>7, <1>8, <1>9

\* A refund that leaves the bridge, and a reconciliation that has asked.
LEMMA RefundAndReconcileGoOn ==
  ASSUME AloneInv, OneCall, OneCall', [Next]_vars, NEW w \in Workers,
         RefundBridge(w) \/ ReconcileRead(w)
  PROVE  AloneInv'
<1>0. EvidenceInv'
  BY EvidenceStays DEF AloneInv
<1>1. PICK o \in Orders, c \in Calls : Serves(w, o, c)
  BY LoneCall DEF RefundBridge, ReconcileRead, At
<1>2. UNCHANGED standing
  BY DEF RefundBridge, ReconcileRead, standing
<1> USE DEF InTransition, BoundFor
<1>3. c.at \in {"refund.bridge", "reconcile.read"}
  BY <1>1 DEF RefundBridge, ReconcileRead, At, Serves
<1>4. faults = 0 => Settled(o)
  BY <1>1, <1>3 DEF Serves, InAccount, IsAhead
<1>5. CASE End(w)
  BY <1>0, <1>1, <1>2, <1>4, <1>5, EndsSettled DEF Serves
<1>6. CASE RefundBridge(w) /\ Move(w, "refunded", "emit")
  <2>1. /\ state[o] = "refund_pending"
        /\ escrow[o] \in {"voided", "refunded"}
    BY <1>1, <1>6
       DEF RefundBridge, At, Serves, CallTells, AloneInv, EvidenceInv,
           BridgedAlone
  <2>2. ASSUME NEW d \in Calls, BoundFor(d, "refunded"), d.o = o
        PROVE  MoveFits(d) /\ (faults = 0 => InAccount(o, d))
    <3>1. MoveFits(d)
      BY <2>1, <2>2 DEF MoveFits
    <3>2. faults = 0 => InAccount(o, d)
      BY <1>4, <2>2 DEF InAccount, IsAhead
    <3> QED BY <3>1, <3>2
  <2> QED BY <1>0, <1>1, <1>2, <1>6, <2>2, SetsOut DEF Serves, ORDER_STATES
<1>7. CASE ReconcileRead(w) /\ HoldsAuthorized(o) /\ Move(w, "funded", "idle")
  <2>1. state[o] = "funding_pending" /\ escrow[o] = "authorized"
    BY <1>1, <1>7
       DEF ReconcileRead, At, Serves, CallTells, HoldsAuthorized
  <2>2. ASSUME NEW d \in Calls, BoundFor(d, "funded"), d.o = o
        PROVE  MoveFits(d) /\ (faults = 0 => InAccount(o, d))
    <3>1. MoveFits(d)
      BY <2>1, <2>2 DEF MoveFits
    <3>2. faults = 0 => InAccount(o, d)
      BY <2>1, <2>2 DEF InAccount, IsAhead, Ahead
    <3> QED BY <3>1, <3>2
  <2> QED BY <1>0, <1>1, <1>2, <1>7, <2>2, SetsOut DEF Serves, ORDER_STATES
<1> QED BY <1>1, <1>5, <1>6, <1>7 DEF RefundBridge, ReconcileRead, Serves

-----------------------------------------------------------------------------
(* A call that begins.                                                      *)

\* A call that begins is the only one.
LEMMA BeginsAlone ==
  ASSUME AloneInv, OneCall', NEW w \in Workers, NEW o \in Orders, Begin(w, o)
  PROVE  \A v \in Workers \ {w} : At(v, "idle")
<1>1. \E d : d.at # "idle" /\ call' = [call EXCEPT ![w] = d]
  BY DEF Begin, Fund, Release, RetrySettlement, RefreshPayout, Refund,
         Reconcile, MarkFunding, Ship, Expire, HostMove, Start, Depart, Idle,
         RetryRoad
<1> QED BY <1>1 DEF OneCall, At, AloneInv, EvidenceInv, TypeInv, TypeOK

LEMMA BeginsSettled ==
  ASSUME AloneInv, OneCall, OneCall', [Next]_vars, NEW w \in Workers,
         NEW o \in Orders, Begin(w, o)
  PROVE  AloneInv'
<1>0. EvidenceInv'
  BY EvidenceStays DEF AloneInv
<1>1. At(w, "idle") /\ UNCHANGED standing
  BY DEF Begin, Fund, Release, RetrySettlement, RefreshPayout, Refund,
         Reconcile, MarkFunding, Ship, Expire, HostMove, standing
<1>2. /\ StateTells(o)
      /\ faults = 0 => Settled(o)
  <2>1. \A v \in Workers \ {w} : At(v, "idle")
    BY <1>1, BeginsAlone
  <2> QED
    BY <1>1, <2>1 DEF AloneInv, Accounted, IsAhead, At, BoundFor, InTransition
<1> USE DEF InTransition, BoundFor
<1>3. ASSUME NEW l \in Labels \ {"idle"}, Start(w, o, l),
             \A d : d.at = l /\ d.o = o /\ d.snap = state[o] =>
               CallTells(d) /\ (faults = 0 => InAccount(o, d))
      PROVE  AloneInv'
  <2>. DEFINE d == [Idle EXCEPT !.at = l, !.o = o, !.snap = state[o]]
  <2>1. d.at = l /\ d.o = o /\ d.snap = state[o]
    BY DEF Idle
  <2>2. call' = [call EXCEPT ![w] = d]
    BY <1>3 DEF Start
  <2> HIDE DEF d
  <2> QED BY <1>0, <1>1, <1>3, <2>1, <2>2, NothingMoves
<1>4. ASSUME NEW l \in {"fund.execute", "release.capture", "refresh.read",
                        "reconcile.read", "retry.swap"},
             Start(w, o, l),
             l = "fund.execute" => state[o] # "created",
             l = "release.capture" => state[o] \in Releasable,
             l = "reconcile.read" => state[o] = "funding_pending",
             l = "retry.swap" => state[o] = "settlement_pending"
      PROVE  AloneInv'
  <2>1. ASSUME NEW d, d.at = l, d.o = o, d.snap = state[o]
        PROVE  CallTells(d) /\ (faults = 0 => InAccount(o, d))
    <3>1. CallTells(d)
      BY <1>4, <2>1 DEF CallTells
    <3>2. faults = 0 => InAccount(o, d)
      BY <1>2, <1>4, <2>1 DEF InAccount, IsAhead
    <3> QED BY <3>1, <3>2
  <2> QED BY <1>3, <1>4, <2>1 DEF Labels
<1>5. ASSUME NEW to \in {"funding_pending", "refund_pending", "shipped",
                         "failed"},
             NEW l \in {"fund.execute", "refund.escrow", "idle"},
             Depart(w, o, to, l),
             to = "funding_pending" => state[o] = "created",
             to = "shipped" => state[o] = "funded",
             to = "failed" =>
               state[o] \in {"created", "funding_pending"} /\ clock[o] >= 1,
             l = "fund.execute" => to = "funding_pending",
             l = "refund.escrow" => to = "refund_pending"
      PROVE  AloneInv'
  <2>. DEFINE d == [Idle EXCEPT !.at = "transition.read", !.o = o,
                                !.snap = state[o], !.to = to, !.then = l]
  <2>1. /\ d.at = "transition.read" /\ d.o = o /\ d.to = to /\ d.then = l
    BY DEF Idle
  <2>2. call' = [call EXCEPT ![w] = d]
    BY <1>5 DEF Depart
  <2> HIDE DEF d
  <2>3. MoveFits(d)
    BY <1>5, <2>1 DEF MoveFits
  <2>4. CallTells(d)
    BY <1>5, <2>1, <2>3 DEF CallTells
  <2>5. faults = 0 => InAccount(o, d)
    BY <1>2, <2>1 DEF InAccount, IsAhead
  <2> QED BY <1>0, <1>1, <2>1, <2>2, <2>4, <2>5, NothingMoves
<1>6. CASE Fund(w, o)
  BY <1>4, <1>5, <1>6 DEF Fund
<1>7. CASE Release(w, o)
  <2>1. state[o] \in Releasable
    <3>1. state[o] \in ORDER_STATES
      BY DEF AloneInv, EvidenceInv, TypeInv, TypeOK
    <3> QED
      BY <1>7, <3>1
         DEF Release, ReleaseTarget, canTransition, TRANSITIONS, Releasable,
             ORDER_STATES
  <2> QED BY <1>4, <1>7, <2>1 DEF Release
<1>8. CASE RetrySettlement(w, o)
  <2>1. state[o] = "settlement_pending" /\ Start(w, o, RetryRoad(o))
    BY <1>8 DEF RetrySettlement, Retryable
  <2>2. CASE o \notin BankOrders
    BY <1>4, <2>1, <2>2 DEF RetryRoad
  <2>3. CASE o \in BankOrders
    <3>1. escrow[o] = "captured" /\ (faults = 0 => NoneOutstanding(o))
      BY <1>2, <2>1, <2>3 DEF StateTells, Settled, isOffRamped
    <3>2. ASSUME NEW d, d.at = "payout.quote", d.o = o, d.snap = state[o]
          PROVE  CallTells(d) /\ (faults = 0 => InAccount(o, d))
      <4>1. CallTells(d)
        BY <2>1, <3>1, <3>2 DEF CallTells, Releasable
      <4>2. faults = 0 => InAccount(o, d)
        BY <3>1, <3>2 DEF InAccount, IsAhead, Ahead
      <4> QED BY <4>1, <4>2
    <3> QED BY <1>3, <2>1, <2>3, <3>2 DEF RetryRoad, Labels
  <2> QED BY <2>2, <2>3
<1>9. CASE RefreshPayout(w, o)
  BY <1>4, <1>9 DEF RefreshPayout
<1>10. CASE Refund(w, o)
  BY <1>5, <1>10 DEF Refund
<1>11. CASE Reconcile(w, o)
  BY <1>4, <1>11 DEF Reconcile
<1>12. CASE MarkFunding(w, o)
  BY <1>5, <1>12 DEF MarkFunding, HostMove
<1>13. CASE Ship(w, o)
  BY <1>5, <1>13 DEF Ship, HostMove
<1>14. CASE Expire(w, o)
  BY <1>5, <1>14 DEF Expire, HostMove
<1> QED
  BY <1>6, <1>7, <1>8, <1>9, <1>10, <1>11, <1>12, <1>13, <1>14 DEF Begin

-----------------------------------------------------------------------------
(* The steps that change what an order says, or where its money is.        *)

\* Nothing is done about any other order.
Elsewhere(o) ==
    \A p \in Orders \ {o} :
      /\ state'[p] = state[p] /\ fundedAt'[p] = fundedAt[p]
      /\ payout'[p] = payout[p] /\ emitted'[p] = emitted[p]
      /\ escrow'[p] = escrow[p] /\ clock'[p] = clock[p]
      /\ swaps'[p] = swaps[p] /\ rail'[p] = rail[p]

LEMMA Moves ==
  ASSUME AloneInv, OneCall, OneCall', EvidenceInv', [Next]_vars,
         NEW w \in Workers, NEW o \in Orders,
         NEW c, Serves(w, o, c), Elsewhere(o),
         NEW d, call' = [call EXCEPT ![w] = d], d.at = "idle" \/ d.o = o,
         StateTells(o)', CallTells(d)',
         faults' = 0 => faults = 0 /\ InAccount(o, d)'
  PROVE  AloneInv'
<1>1. call'[w] = d /\ \A v \in Workers \ {w} : call'[v] = call[v]
  BY DEF AloneInv, EvidenceInv, TypeInv, TypeOK
<1> QED BY <1>1, LoneStep DEF Elsewhere, Serves, At

LEMMA EndMoves ==
  ASSUME AloneInv, OneCall, OneCall', EvidenceInv', [Next]_vars,
         NEW w \in Workers, NEW o \in Orders,
         NEW c, Serves(w, o, c), Elsewhere(o), End(w), StateTells(o)',
         faults' = 0 => faults = 0 /\ Settled(o)'
  PROVE  AloneInv'
<1>1. PICK d : d = Idle
  OBVIOUS
<1>2. d.at = "idle" /\ call' = [call EXCEPT ![w] = d]
  BY <1>1 DEF Idle, End
<1>3. CallTells(d)'
  BY <1>2 DEF CallTells
<1>4. ~ IsAhead(d)'
  BY <1>2 DEF IsAhead, BoundFor, InTransition
<1> QED BY <1>2, <1>3, <1>4, Moves DEF InAccount

LEMMA GotoMoves ==
  ASSUME AloneInv, OneCall, OneCall', EvidenceInv', [Next]_vars,
         NEW w \in Workers, NEW o \in Orders,
         NEW c \in Calls, Serves(w, o, c), Elsewhere(o), StateTells(o)',
         NEW l \in Labels, Goto(w, l),
         \A d \in Calls : Follows(d, c, l) =>
           /\ CallTells(d)'
           /\ faults' = 0 => faults = 0 /\ InAccount(o, d)'
  PROVE  AloneInv'
<1>1. PICK d \in Calls :
        call' = [call EXCEPT ![w] = d] /\ Follows(d, c, l)
  BY GotoGives DEF Serves, Follows
<1>2. d.o = o
  BY <1>1 DEF Follows, Serves
<1> QED BY <1>1, <1>2, Moves

\* An announcement is the first of its kind, or one of a broadcast.
LEMMA EmitMoves ==
  ASSUME AloneInv, OneCall, OneCall', [Next]_vars, NEW w \in Workers, Emit(w)
  PROVE  AloneInv'
<1>0. EvidenceInv'
  BY EvidenceStays DEF AloneInv
<1>1. PICK o \in Orders, c \in Calls : Serves(w, o, c)
  BY LoneCall DEF Emit, At
<1>2. /\ c.at = "emit" /\ c.to \in Events /\ state[o] = c.to
      /\ c.to \in OneTimeEvents => emitted[o][c.to] = 0
  BY <1>1 DEF Emit, At, Serves, CallKnows, CallTells
<1>3. /\ emitted' = [emitted EXCEPT ![o][c.to] = @ + 1]
      /\ UNCHANGED <<state, fundedAt, payout, escrow, clock, swaps, rail,
                     faults>>
      /\ End(w)
  BY <1>1 DEF Emit, Serves
<1>4. emitted \in [Orders -> [Events -> Nat]]
  BY DEF AloneInv, EvidenceInv, TypeInv, TypeOK
<1>5. Elsewhere(o)
  BY <1>3, <1>4 DEF Elsewhere
<1>6. \A e \in OneTimeEvents :
        emitted'[o][e] <= 1 /\ (emitted'[o][e] > 0 => state'[o] \in After[e])
  <2> SUFFICES ASSUME NEW e \in OneTimeEvents
               PROVE  /\ emitted'[o][e] <= 1
                      /\ emitted'[o][e] > 0 => state'[o] \in After[e]
    OBVIOUS
  <2>1. CASE e = c.to
    <3>1. emitted'[o][e] = 1
      BY <1>2, <1>3, <1>4, <2>1
    <3>2. c.to \in After[c.to]
      BY <2>1 DEF After, OneTimeEvents, ORDER_STATES
    <3> QED BY <1>2, <1>3, <2>1, <3>1, <3>2
  <2>2. CASE e # c.to
    <3>1. emitted'[o][e] = emitted[o][e]
      BY <1>3, <1>4, <2>2
    <3> QED BY <1>1, <1>3, <3>1 DEF Serves, StateTells
  <2> QED BY <2>1, <2>2
<1>7. StateTells(o)'
  BY <1>1, <1>3, <1>6 DEF Serves, StateTells, IsLatest
<1>8. faults' = 0 => faults = 0 /\ Settled(o)'
  BY <1>1, <1>2, <1>3, StillThrown
     DEF Serves, InAccount, IsAhead, BoundFor, InTransition, Settled,
         OnlyOutstanding, NoneOutstanding
<1> QED BY <1>0, <1>1, <1>3, <1>5, <1>7, <1>8, EndMoves

\* The instruction saved is the one the order's state is about.
LEMMA SaveMoves ==
  ASSUME AloneInv, OneCall, OneCall', [Next]_vars, NEW w \in Workers,
         SettlePayout(w) \/ PayoutSave(w) \/ RefreshSave(w)
  PROVE  AloneInv'
<1>0. EvidenceInv'
  BY EvidenceStays DEF AloneInv
<1>1. PICK o \in Orders, c \in Calls : Serves(w, o, c)
  BY LoneCall DEF SettlePayout, PayoutSave, RefreshSave, At
<1>2. /\ UNCHANGED <<state, fundedAt, emitted, escrow, clock, swaps, rail,
                     faults>>
  BY DEF SettlePayout, PayoutSave, RefreshSave
<1> USE DEF InTransition, BoundFor
<1>3. ASSUME NEW q, savePayout(o, q)
      PROVE  payout'[o] = q /\ Elsewhere(o)
  BY <1>2, <1>3
     DEF savePayout, Elsewhere, AloneInv, EvidenceInv, TypeInv, TypeOK
<1>4. CASE SettlePayout(w)
  <2>1. /\ c.at = "settle.payout" /\ c.to = "released"
        /\ state[o] = "released"
        /\ savePayout(o, MockPayout) /\ Goto(w, "emit")
    BY <1>1, <1>4 DEF SettlePayout, At, Serves, CallKnows, CallTells
  <2>2. StateTells(o)'
    BY <1>1, <1>2, <2>1 DEF Serves, StateTells, isOffRamped
  <2>3. o \notin BankOrders
    BY <1>1, <2>1 DEF Serves, CallKnows
  <2>4. ASSUME NEW d \in Calls, Follows(d, c, "emit")
        PROVE  /\ CallTells(d)'
               /\ faults' = 0 => faults = 0 /\ InAccount(o, d)'
    <3>1. CallTells(d)'
      BY <1>1, <1>2, <2>1, <2>4 DEF Serves, Follows, CallTells
    <3>2. faults' = 0 => faults = 0 /\ InAccount(o, d)'
      BY <1>1, <1>2, <2>1, <2>3, <2>4, StillThrown
         DEF Serves, Follows, InAccount, IsAhead, Settled
    <3> QED BY <3>1, <3>2
  <2> QED BY <1>0, <1>1, <1>3, <2>1, <2>2, <2>4, GotoMoves DEF Labels
<1>5. CASE PayoutSave(w)
  <2>1. /\ c.at = "payout.save"
        /\ state[o] \in Releasable /\ IsLatest(o, c.pay)
        /\ savePayout(o, c.pay) /\ Goto(w, "payout.row")
    BY <1>1, <1>5 DEF PayoutSave, At, Serves, CallTells
  <2>2. payout'[o] = c.pay
    BY <1>3, <2>1
  <2>3. StateTells(o)'
    BY <1>1, <1>2, <2>1 DEF Serves, StateTells, Releasable, isOffRamped
  <2>4. ASSUME NEW d \in Calls, Follows(d, c, "payout.row")
        PROVE  /\ CallTells(d)'
               /\ faults' = 0 => faults = 0 /\ InAccount(o, d)'
    <3>1. IsLatest(o, d.pay)'
      BY <1>2, <2>1, <2>4 DEF Follows, IsLatest
    <3>2. CallTells(d)'
      BY <1>1, <1>2, <2>1, <2>2, <2>4, <3>1 DEF Serves, Follows, CallTells
    <3>3. faults' = 0 => faults = 0 /\ InAccount(o, d)'
      BY <1>1, <1>2, <2>1, <2>4
         DEF Serves, Follows, InAccount, IsAhead, Ahead, OnlyOutstanding
    <3> QED BY <3>2, <3>3
  <2> QED BY <1>0, <1>1, <1>3, <2>1, <2>3, <2>4, GotoMoves DEF Labels
<1>6. CASE RefreshSave(w)
  <2>1. /\ c.at = "refresh.save"
        /\ c.snap = state[o] /\ isOffRamped(state[o])
        /\ c.pay.id = payout[o].id /\ c.pay.kind = "live"
        /\ savePayout(o, c.pay) /\ Goto(w, "refresh.row")
    BY <1>1, <1>6 DEF RefreshSave, At, Serves, CallKnows, CallTells
  <2>2. payout'[o] = c.pay
    BY <1>3, <2>1
  <2>3. StateTells(o)'
    BY <1>1, <1>2, <2>1, <2>2 DEF Serves, StateTells, IsLatest
  <2>4. ASSUME NEW d \in Calls, Follows(d, c, "refresh.row")
        PROVE  /\ CallTells(d)'
               /\ faults' = 0 => faults = 0 /\ InAccount(o, d)'
    <3>1. CallTells(d)'
      BY <1>1, <1>2, <2>1, <2>2, <2>4 DEF Serves, Follows, CallTells
    <3>2. faults' = 0 => faults = 0 /\ InAccount(o, d)'
      BY <1>1, <1>2, <2>1, <2>2, <2>4, StillThrown
         DEF Serves, Follows, InAccount, IsAhead, Settled, OnlyOutstanding,
             NoneOutstanding
    <3> QED BY <3>1, <3>2
  <2> QED BY <1>0, <1>1, <1>3, <2>1, <2>3, <2>4, GotoMoves DEF Labels
<1> QED BY <1>4, <1>5, <1>6

\* A call that dies leaves the order's state true.
LEMMA InterruptMoves ==
  ASSUME AloneInv, OneCall, OneCall', [Next]_vars, NEW w \in Workers, Interrupt(w)
  PROVE  AloneInv'
<1>0. EvidenceInv'
  BY EvidenceStays DEF AloneInv
<1>1. PICK o \in Orders, c \in Calls : Serves(w, o, c)
  BY LoneCall DEF Interrupt
<1>2. /\ UNCHANGED <<state, fundedAt, payout, emitted, escrow, clock, swaps,
                     rail>>
      /\ faults' = faults + 1 /\ End(w)
  BY DEF Interrupt
<1>3. faults \in Nat
  BY BoundsAssumption DEF AloneInv, EvidenceInv, TypeInv, TypeOK
<1>4. StateTells(o)' /\ Elsewhere(o)
  BY <1>1, <1>2 DEF Serves, StateTells, IsLatest, Elsewhere
<1> QED BY <1>0, <1>1, <1>2, <1>3, <1>4, EndMoves

\* What is not captured has not been broadcast or converted.
LEMMA NothingLeft ==
  ASSUME AloneInv, NEW o \in Orders, escrow[o] \in {"none", "authorized"}
  PROVE  NoneOutstanding(o) /\ swaps[o] = 0 /\ ~ Captured(o)
<1>1. MoneyInOrder(o) /\ swaps[o] \in Nat
  BY DEF AloneInv, EvidenceInv, TypeInv, TypeOK
<1> QED
  BY <1>1 DEF MoneyInOrder, Captured, Converted, Broadcast, NoneOutstanding

\* An executor authorizes only for an order that is still to be promoted, or
\* for one that nothing promotes any more.
LEMMA FundExecuteMoves ==
  ASSUME AloneInv, OneCall, OneCall', [Next]_vars, NEW w \in Workers, FundExecute(w)
  PROVE  AloneInv'
<1>0. EvidenceInv'
  BY EvidenceStays DEF AloneInv
<1>1. PICK o \in Orders, c \in Calls : Serves(w, o, c)
  BY LoneCall DEF FundExecute, At
<1>2. /\ c.at = "fund.execute" /\ state[o] # "created"
      /\ UNCHANGED <<state, fundedAt, payout, emitted, clock, swaps, rail,
                     faults>>
  BY <1>1 DEF FundExecute, At, Serves, CallTells
<1> USE DEF InTransition, BoundFor
<1>3. faults = 0 => Settled(o)
  BY <1>1, <1>2 DEF Serves, InAccount, IsAhead
<1>4. CASE /\ escrow[o] = "none" /\ clock[o] = 0
           /\ escrow' = [escrow EXCEPT ![o] = "authorized"]
           /\ Goto(w, "fund.record")
  <2>1. escrow'[o] = "authorized" /\ Elsewhere(o)
    BY <1>2, <1>4 DEF Elsewhere, AloneInv, EvidenceInv, TypeInv, TypeOK
  <2>2. state[o] \in {"funding_pending", "refund_pending"}
    <3>1. state[o] \in ORDER_STATES
      BY DEF AloneInv, EvidenceInv, TypeInv, TypeOK
    <3>2. ~ Collected(o) /\ ~ Captured(o) /\ ~ Delivered(o) /\ ~ Returned(o)
      BY <1>1, <1>4
         DEF Serves, MoneyInOrder, Collected, Captured, Broadcast, Delivered,
             Returned
    <3>3. state[o] # "failed"
      BY <1>1, <1>4 DEF Serves, StateTells
    <3> QED BY <1>1, <1>2, <3>1, <3>2, <3>3 DEF Serves, Backs, ORDER_STATES
  <2>3. StateTells(o)'
    BY <1>1, <1>2, <2>2 DEF Serves, StateTells, isOffRamped
  <2>4. ASSUME NEW d \in Calls, Follows(d, c, "fund.record")
        PROVE  /\ CallTells(d)'
               /\ faults' = 0 => faults = 0 /\ InAccount(o, d)'
    <3>1. CallTells(d)'
      BY <2>4 DEF Follows, CallTells
    <3>2. faults' = 0 => faults = 0 /\ InAccount(o, d)'
      BY <1>1, <1>2, <2>1, <2>2, <2>4
         DEF Serves, Follows, InAccount, IsAhead, Ahead
    <3> QED BY <3>1, <3>2
  <2> QED BY <1>0, <1>1, <1>4, <2>1, <2>3, <2>4, GotoMoves DEF Labels
<1>5. CASE escrow[o] # "none" /\ Goto(w, "fund.reread") /\ UNCHANGED escrow
  <2>1. ASSUME NEW d \in Calls, Follows(d, c, "fund.reread")
        PROVE  CallTells(d) /\ (faults = 0 => InAccount(o, d))
    <3>1. CallTells(d)
      BY <2>1 DEF Follows, CallTells
    <3>2. faults = 0 => InAccount(o, d)
      BY <1>1, <1>3, <1>5, <2>1
         DEF Serves, Follows, InAccount, IsAhead, Settled
    <3> QED BY <3>1, <3>2
  <2> QED BY <1>0, <1>1, <1>2, <1>5, <2>1, GoesOn DEF Labels, standing
<1>6. CASE End(w) /\ UNCHANGED escrow
  BY <1>0, <1>1, <1>2, <1>3, <1>6, EndsSettled DEF Serves, standing
<1> QED
  BY <1>1, <1>4, <1>5, <1>6 DEF FundExecute, AlreadyCollected, Serves

\* Only an authorization is captured: the order has not been settled before.
LEMMA CaptureMoves ==
  ASSUME AloneInv, OneCall, OneCall', [Next]_vars, NEW w \in Workers, ReleaseCapture(w)
  PROVE  AloneInv'
<1>0. EvidenceInv'
  BY EvidenceStays DEF AloneInv
<1>1. PICK o \in Orders, c \in Calls : Serves(w, o, c)
  BY LoneCall DEF ReleaseCapture, At
<1>2. /\ c.at = "release.capture" /\ state[o] \in Releasable
      /\ c.snap = state[o]
      /\ UNCHANGED <<state, fundedAt, payout, emitted, clock, swaps, rail,
                     faults>>
  BY <1>1 DEF ReleaseCapture, At, Serves, CallTells
<1> USE DEF InTransition, BoundFor
<1>3. faults = 0 => Settled(o)
  BY <1>1, <1>2 DEF Serves, InAccount, IsAhead
<1>4. ASSUME NEW l \in {"release.swap", "release.captureRow"},
             l = "release.captureRow" <=> o \in BankOrders,
             escrow[o] = "authorized",
             escrow' = [escrow EXCEPT ![o] = "captured"], Goto(w, l)
      PROVE  AloneInv'
  <2>1. escrow'[o] = "captured" /\ Elsewhere(o)
    BY <1>2, <1>4 DEF Elsewhere, AloneInv, EvidenceInv, TypeInv, TypeOK
  <2>2. state[o] \in {"funded", "shipped"}
    BY <1>1, <1>2, <1>4 DEF Serves, StateTells, Releasable
  <2>3. StateTells(o)'
    BY <1>1, <1>2, <2>2 DEF Serves, StateTells, isOffRamped
  <2>4. NoneOutstanding(o) /\ swaps[o] = 0
    BY <1>4, NothingLeft
  <2>5. ASSUME NEW d \in Calls, Follows(d, c, l)
        PROVE  /\ CallTells(d)'
               /\ faults' = 0 => faults = 0 /\ InAccount(o, d)'
    <3>1. CallTells(d)'
      BY <1>1, <1>2, <1>4, <2>1, <2>2, <2>5 DEF Serves, Follows, CallTells
    <3>2. faults' = 0 => faults = 0 /\ InAccount(o, d)'
      BY <1>1, <1>2, <1>4, <2>4, <2>5
         DEF Serves, Follows, InAccount, IsAhead, Ahead, NoneOutstanding
    <3> QED BY <3>1, <3>2
  <2> QED BY <1>0, <1>1, <1>4, <2>1, <2>3, <2>5, GotoMoves DEF Labels
<1>5. CASE End(w) /\ UNCHANGED escrow
  BY <1>0, <1>1, <1>2, <1>3, <1>5, EndsSettled DEF Serves, standing
<1> QED
  BY <1>1, <1>4, <1>5 DEF ReleaseCapture, CaptureReverts, Serves

\* A call that has decided on an outcome.
LEMMA OutcomeGives ==
  ASSUME NEW w \in Workers, NEW c \in Calls, call[w] = c,
         NEW to \in ORDER_STATES, NEW l \in Labels, Outcome(w, to, l)
  PROVE  \E d \in Calls :
           /\ call' = [call EXCEPT ![w] = d]
           /\ d.at = l /\ d.o = c.o /\ d.snap = c.snap /\ d.to = to
<1>. DEFINE d == [c EXCEPT !.to = to, !.at = l]
<1>1. d \in Calls
  BY DEF Calls
<1> WITNESS d \in Calls
<1> QED BY DEF Outcome, Calls

\* As long as nothing is lost, an order is swapped when its call says so.
LEMMA SwapMoves ==
  ASSUME AloneInv, OneCall, OneCall', [Next]_vars, NEW w \in Workers,
         ReleaseSwap(w) \/ RetrySwap(w)
  PROVE  AloneInv'
<1>0. EvidenceInv'
  BY EvidenceStays DEF AloneInv
<1>1. PICK o \in Orders, c \in Calls : Serves(w, o, c)
  BY LoneCall DEF ReleaseSwap, RetrySwap, At
<1>2. UNCHANGED <<state, fundedAt, payout, emitted, escrow, clock, rail>>
  BY DEF ReleaseSwap, RetrySwap
<1>3. faults \in Nat
  BY BoundsAssumption DEF AloneInv, EvidenceInv, TypeInv, TypeOK
<1>4. \/ swaps'[o] = swaps[o] + 1 /\ faults' = faults
      \/ swaps'[o] = swaps[o] + 1 /\ faults' = faults + 1
      \/ swaps' = swaps /\ faults' = faults
  BY <1>1
     DEF ReleaseSwap, RetrySwap, Swap, Serves, AloneInv, EvidenceInv, TypeInv,
         TypeOK
<1>5. Elsewhere(o)
  BY <1>1, <1>2
     DEF ReleaseSwap, RetrySwap, Swap, Serves, Elsewhere, AloneInv,
         EvidenceInv, TypeInv, TypeOK
<1>6. StateTells(o)'
  BY <1>1, <1>2 DEF Serves, StateTells, IsLatest
<1> USE DEF InTransition, BoundFor
<1>7. CASE ReleaseSwap(w)
  <2>1. /\ c.at = "release.swap" /\ o \notin BankOrders
        /\ state[o] \in {"funded", "shipped"} /\ c.snap = state[o]
        /\ escrow[o] = "captured"
        /\ faults = 0 => swaps[o] = 0
    BY <1>1, <1>7
       DEF ReleaseSwap, At, Serves, CallKnows, CallTells, InAccount, IsAhead,
           Ahead
  <2>2. \E to \in {"released", "settlement_pending"} :
          /\ Outcome(w, to, "release.captureRow")
          /\ faults' = 0 => swaps'[o] = swaps[o] + (IF to = "released" THEN 1
                                                                       ELSE 0)
    <3>1. \/ /\ Outcome(w, "released", "release.captureRow")
             /\ swaps'[o] = swaps[o] + 1
          \/ /\ Outcome(w, "settlement_pending", "release.captureRow")
             /\ faults' = 0 => swaps'[o] = swaps[o]
      BY <1>1, <1>3, <1>7
         DEF ReleaseSwap, Swap, SwapFails, Serves, AloneInv, EvidenceInv,
             TypeInv, TypeOK
    <3>2. swaps[o] \in Nat
      BY DEF AloneInv, EvidenceInv, TypeInv, TypeOK
    <3> QED BY <3>1, <3>2
  <2>3. PICK to \in {"released", "settlement_pending"} :
          /\ Outcome(w, to, "release.captureRow")
          /\ faults' = 0 => swaps'[o] = swaps[o] + (IF to = "released" THEN 1
                                                                       ELSE 0)
    BY <2>2
  <2>4. PICK d \in Calls :
          /\ call' = [call EXCEPT ![w] = d]
          /\ d.at = "release.captureRow" /\ d.o = o /\ d.snap = c.snap
          /\ d.to = to
    BY <1>1, <2>3, OutcomeGives DEF Serves, ORDER_STATES, Labels
  <2>5. CallTells(d)'
    BY <1>2, <2>1, <2>4 DEF CallTells
  <2>6. faults' = 0 => faults = 0 /\ InAccount(o, d)'
    BY <1>3, <1>4, <2>1, <2>3, <2>4 DEF InAccount, IsAhead, Ahead
  <2> QED BY <1>0, <1>1, <1>5, <1>6, <2>4, <2>5, <2>6, Moves
<1>8. CASE RetrySwap(w)
  <2>1. /\ c.at = "retry.swap" /\ o \notin BankOrders
        /\ state[o] = "settlement_pending" /\ escrow[o] = "captured"
    BY <1>1, <1>8
       DEF RetrySwap, At, Serves, CallKnows, CallTells, StateTells
  <2>2. faults = 0 => Settled(o)
    BY <1>1, <2>1 DEF Serves, InAccount, IsAhead
  <2>3. CASE /\ Outcome(w, "released", "settle.swapRow")
             /\ swaps'[o] = swaps[o] + 1 /\ faults' = faults
    <3>1. PICK d \in Calls :
            /\ call' = [call EXCEPT ![w] = d]
            /\ d.at = "settle.swapRow" /\ d.o = o /\ d.to = "released"
      BY <1>1, <2>3, OutcomeGives DEF Serves, ORDER_STATES, Labels
    <3>2. CallTells(d)'
      BY <1>2, <2>1, <3>1 DEF CallTells, Releasable
    <3>3. faults' = 0 => faults = 0 /\ InAccount(o, d)'
      BY <2>1, <2>2, <2>3, <3>1, StillThrown
         DEF InAccount, IsAhead, Ahead, Settled
    <3> QED BY <1>0, <1>1, <1>5, <1>6, <3>1, <3>2, <3>3, Moves
  <2>4. CASE End(w) /\ (faults' # 0 \/ (swaps' = swaps /\ faults' = faults))
    <3>1. faults' = 0 => faults = 0 /\ Settled(o)'
      BY <1>2, <2>2, <2>4, StillThrown
         DEF Settled, OnlyOutstanding, NoneOutstanding
    <3> QED BY <1>0, <1>1, <1>5, <1>6, <2>4, <3>1, EndMoves
  <2> QED
    BY <1>1, <1>3, <1>8, <2>3, <2>4
       DEF RetrySwap, Swap, Serves, AloneInv, EvidenceInv, TypeInv, TypeOK
<1> QED BY <1>7, <1>8

\* A payout is broadcast under the next id, when none is left outstanding.
LEMMA SubmitMoves ==
  ASSUME AloneInv, OneCall, OneCall', [Next]_vars, NEW w \in Workers, PayoutSubmit(w)
  PROVE  AloneInv'
<1>0. EvidenceInv'
  BY EvidenceStays DEF AloneInv
<1>1. PICK o \in Orders, c \in Calls : Serves(w, o, c)
  BY LoneCall DEF PayoutSubmit, At
<1>2. /\ c.at = "payout.submit" /\ state[o] \in Releasable
      /\ escrow[o] = "captured" /\ o \in BankOrders
      /\ faults = 0 => NoneOutstanding(o)
      /\ UNCHANGED <<state, fundedAt, payout, emitted, escrow, clock, swaps,
                     faults>>
  BY <1>1
     DEF PayoutSubmit, At, Serves, CallKnows, CallTells, InAccount, IsAhead,
         Ahead
<1> USE DEF InTransition, BoundFor
<1>3. CASE End(w) /\ UNCHANGED rail
  <2>1. swaps[o] = 0
    BY <1>1, <1>2
       DEF Serves, MoneyInOrder, Converted, AloneInv, EvidenceInv, TypeInv,
           TypeOK
  <2>2. faults = 0 => Settled(o)
    BY <1>2, <2>1 DEF Settled, Releasable, isOffRamped
  <2> QED BY <1>0, <1>1, <1>2, <1>3, <2>2, EndsSettled DEF Serves, standing
<1>4. ASSUME NEW k \in PaymentIds,
             \A j \in PaymentIds : rail[o][j] = "none" <=> j \geq k,
             rail' = [rail EXCEPT ![o][k] = "pending"],
             Holding(w, "payout.save", livePayout(k))
      PROVE  AloneInv'
  <2>1. /\ Elsewhere(o)
        /\ \A j \in PaymentIds :
             rail'[o][j] = IF j = k THEN "pending" ELSE rail[o][j]
    BY <1>2, <1>4 DEF Elsewhere, AloneInv, EvidenceInv, TypeInv, TypeOK
  <2>2. StateTells(o)'
    BY <1>1, <1>2 DEF Serves, StateTells, Releasable, isOffRamped
  <2>3. PICK d :
          /\ call' = [call EXCEPT ![w] = d]
          /\ d.at = "payout.save" /\ d.o = o /\ d.pay = livePayout(k)
    BY <1>1, <1>4, HoldingGives DEF Serves, Labels
  <2>4. IsLatest(o, d.pay)'
    <3>1. \A j \in PaymentIds : rail'[o][j] # "none" => j <= k
      BY <1>4, <2>1, BoundsAssumption DEF PaymentIds
    <3> QED BY <1>2, <2>3, <3>1 DEF IsLatest, livePayout
  <2>5. CallTells(d)'
    BY <1>2, <2>3, <2>4 DEF CallTells
  <2>6. faults' = 0 => faults = 0 /\ InAccount(o, d)'
    BY <1>2, <2>1, <2>3
       DEF InAccount, IsAhead, Ahead, OnlyOutstanding, NoneOutstanding,
           livePayout
  <2> QED BY <1>0, <1>1, <2>1, <2>2, <2>3, <2>5, <2>6, Moves
<1> QED BY <1>1, <1>3, <1>4 DEF PayoutSubmit, Serves

\* What the escrow gives back is given back for an order that is refunded.
LEMMA RefundMoves ==
  ASSUME AloneInv, OneCall, OneCall', [Next]_vars, NEW w \in Workers, RefundEscrow(w)
  PROVE  AloneInv'
<1>0. EvidenceInv'
  BY EvidenceStays DEF AloneInv
<1>1. PICK o \in Orders, c \in Calls : Serves(w, o, c)
  BY LoneCall DEF RefundEscrow, At
<1>2. /\ c.at = "refund.escrow" /\ state[o] = "refund_pending"
      /\ UNCHANGED <<state, fundedAt, payout, emitted, clock, swaps, rail,
                     faults>>
  BY <1>1 DEF RefundEscrow, At, Serves, CallTells
<1> USE DEF InTransition, BoundFor
<1>3. faults = 0 => Settled(o)
  BY <1>1, <1>2 DEF Serves, InAccount, IsAhead
<1>4. CASE End(w) /\ UNCHANGED escrow
  BY <1>0, <1>1, <1>2, <1>3, <1>4, EndsSettled DEF Serves, standing
<1>5. ASSUME NEW e \in {"voided", "refunded"},
             escrow' = [escrow EXCEPT ![o] = e]
      PROVE  /\ Elsewhere(o) /\ StateTells(o)'
             /\ escrow'[o] = e
             /\ faults' = 0 => faults = 0 /\ Settled(o)'
  <2>1. escrow'[o] = e /\ Elsewhere(o)
    BY <1>2, <1>5 DEF Elsewhere, AloneInv, EvidenceInv, TypeInv, TypeOK
  <2>2. StateTells(o)'
    BY <1>1, <1>2 DEF Serves, StateTells, isOffRamped
  <2>3. faults' = 0 => faults = 0 /\ Settled(o)'
    BY <1>2, <1>3 DEF Settled, NoneOutstanding, isOffRamped
  <2> QED BY <2>1, <2>2, <2>3
<1>6. ASSUME NEW e \in {"voided", "refunded"},
             escrow' = [escrow EXCEPT ![o] = e], Goto(w, "refund.bridge")
      PROVE  AloneInv'
  <2>1. ASSUME NEW d \in Calls, Follows(d, c, "refund.bridge")
        PROVE  /\ CallTells(d)'
               /\ faults' = 0 => faults = 0 /\ InAccount(o, d)'
    <3>1. CallTells(d)'
      BY <1>1, <1>2, <2>1 DEF Serves, Follows, CallTells
    <3>2. faults' = 0 => faults = 0 /\ InAccount(o, d)'
      BY <1>5, <1>6, <2>1 DEF Follows, InAccount, IsAhead
    <3> QED BY <3>1, <3>2
  <2> QED BY <1>0, <1>1, <1>5, <1>6, <2>1, GotoMoves DEF Labels
<1>7. ASSUME NEW e \in {"voided", "refunded"},
             escrow' = [escrow EXCEPT ![o] = e], Move(w, "refunded", "emit")
      PROVE  AloneInv'
  <2>1. PICK d \in Calls :
          /\ call' = [call EXCEPT ![w] = d]
          /\ d.at = "transition.read" /\ d.o = o /\ d.to = "refunded"
          /\ d.then = "emit"
    BY <1>1, <1>7, MoveGives DEF Serves, ORDER_STATES, Continuations
  <2>2. MoveFits(d)'
    BY <1>2, <1>5, <1>7, <2>1 DEF MoveFits
  <2>3. CallTells(d)'
    BY <2>1, <2>2 DEF CallTells
  <2>4. faults' = 0 => faults = 0 /\ InAccount(o, d)'
    BY <1>5, <1>7, <2>1 DEF InAccount, IsAhead
  <2> QED BY <1>0, <1>1, <1>5, <1>7, <2>1, <2>3, <2>4, Moves
<1> QED BY <1>1, <1>4, <1>6, <1>7 DEF RefundEscrow, Serves

\* The moves the facade makes lead on: what was announced stays announced, and
\* only a promotion makes an order funded.
LEMMA MovesLeadOn ==
  ASSUME NEW s \in ORDER_STATES, NEW t \in ORDER_STATES, canTransition(s, t),
         t # "created",
         t = "funded" => s = "funding_pending",
         t = "failed" => s \in {"created", "funding_pending"},
         t = "paid_out" => s = "payout_pending"
  PROVE  /\ isFunded(t) /\ t # "funded" => isFunded(s)
         /\ \A e \in OneTimeEvents : s \in After[e] => t \in After[e] /\ t # e
         /\ t \notin {"settlement_pending", "payout_pending"}
              => (isOffRamped(t) <=> isOffRamped(s))
<1>1. t \in TRANSITIONS[s]
  BY DEF canTransition
<1>2. isFunded(t) /\ t # "funded" => isFunded(s)
  BY <1>1 DEF TRANSITIONS, ORDER_STATES, isFunded
<1>3. ASSUME NEW e \in OneTimeEvents, s \in After[e]
      PROVE  t \in After[e] /\ t # e
  <2>1. CASE e = "funded"
    BY <1>1, <1>3, <2>1 DEF After, TRANSITIONS, ORDER_STATES
  <2>2. CASE e = "released"
    BY <1>1, <1>3, <2>2 DEF After, TRANSITIONS, ORDER_STATES
  <2>3. CASE e \in {"paid_out", "refunded"}
    BY <1>1, <1>3, <2>3 DEF After, TRANSITIONS, ORDER_STATES
  <2> QED BY <2>1, <2>2, <2>3 DEF OneTimeEvents
<1>4. t \notin {"settlement_pending", "payout_pending"}
        => (isOffRamped(t) <=> isOffRamped(s))
  BY <1>1 DEF TRANSITIONS, ORDER_STATES, isOffRamped
<1> QED BY <1>2, <1>3, <1>4

\* An order enters a state that says what its call has seen to.
LEMMA WriteMoves ==
  ASSUME AloneInv, OneCall, OneCall', [Next]_vars, NEW w \in Workers,
         TransitionWrite(w)
  PROVE  AloneInv'
<1>0. EvidenceInv'
  BY EvidenceStays DEF AloneInv
<1>1. PICK o \in Orders, c \in Calls : Serves(w, o, c)
  BY LoneCall DEF TransitionWrite, At
<1>2. /\ c.at = "transition.write" /\ canTransition(state[o], c.to)
      /\ MoveFits(c) /\ Backs(o, c.to)
      /\ c.then = "fund.execute" => c.to = "funding_pending"
      /\ c.then = "refund.escrow" => c.to = "refund_pending"
      /\ c.then = "emit" => c.to \in Events
      /\ c.then = "settle.payout" => c.to = "released"
      /\ c.then = "payout.rebate" => c.to = "payout_pending"
      /\ UNCHANGED <<payout, emitted, escrow, clock, swaps, rail, faults>>
      /\ c.to \in ORDER_STATES /\ c.then \in Continuations
      /\ state[o] \in ORDER_STATES
  BY <1>1
     DEF TransitionWrite, At, Serves, CallKnows, CallTells, InTransition,
         Calls, AloneInv, EvidenceInv, TypeInv, TypeOK
<1> USE DEF BoundFor
<1>3. RowAccepted(o, c.to)
  <2>1. c.to \in {"shipped", "released", "payout_pending", "paid_out"} =>
          fundedAt[o]
    BY <1>1, <1>2
       DEF Serves, StateTells, MoveFits, Releasable, isFunded
  <2>2. c.to \in {"payout_pending", "paid_out"} =>
          o \in BankOrders /\ payout[o].kind = "live"
    BY <1>1, <1>2
       DEF Serves, StateTells, MoveFits, IsLatest, isOffRamped, MoneyInOrder,
           Backs, Broadcast, Delivered
  <2> QED BY <2>1, <2>2 DEF RowAccepted
<1>4. /\ state' = [state EXCEPT ![o] = c.to]
      /\ fundedAt' = [fundedAt EXCEPT ![o] = @ \/ c.to = "funded"]
      /\ IF c.then = "idle" THEN End(w) ELSE Goto(w, c.then)
  BY <1>1, <1>3 DEF TransitionWrite, Serves
<1>5. /\ state'[o] = c.to /\ Elsewhere(o)
      /\ fundedAt'[o] = (fundedAt[o] \/ c.to = "funded")
  BY <1>2, <1>4 DEF Elsewhere, AloneInv, EvidenceInv, TypeInv, TypeOK
<1>6. /\ isFunded(c.to) /\ c.to # "funded" => isFunded(state[o])
      /\ \A e \in OneTimeEvents :
           state[o] \in After[e] => c.to \in After[e] /\ c.to # e
      /\ c.to \notin {"settlement_pending", "payout_pending"}
           => (isOffRamped(c.to) <=> isOffRamped(state[o]))
  <2>1. /\ c.to # "created"
        /\ c.to = "funded" => state[o] = "funding_pending"
        /\ c.to = "failed" => state[o] \in {"created", "funding_pending"}
        /\ c.to = "paid_out" => state[o] = "payout_pending"
    BY <1>1, <1>2 DEF MoveFits, Serves
  <2> QED BY <1>2, <2>1, MovesLeadOn
<1>7. ASSUME NEW e \in OneTimeEvents
      PROVE  /\ emitted[o][e] > 0 => c.to \in After[e]
             /\ emitted[o][e] <= 1
             /\ c.to = e => emitted[o][e] = 0
  <2>1. /\ emitted[o][e] <= 1
        /\ emitted[o][e] > 0 => state[o] \in After[e]
        /\ emitted[o][e] \in Nat
    BY <1>1
       DEF Serves, StateTells, AloneInv, EvidenceInv, TypeInv, TypeOK,
           OneTimeEvents, Events
  <2>2. state[o] \in After[e] => c.to \in After[e] /\ c.to # e
    BY <1>6
  <2> QED BY <2>1, <2>2
<1>8. StateTells(o)'
  <2>1. isFunded(c.to) => fundedAt'[o]
    BY <1>1, <1>5, <1>6 DEF Serves, StateTells
  <2>2. isOffRamped(c.to) => IsLatest(o, payout[o])
    BY <1>1, <1>2 DEF Serves, StateTells, MoveFits, isOffRamped
  <2>3. /\ c.to = "settlement_pending" => escrow[o] = "captured"
        /\ c.to = "paid_out" => rail[o][payout[o].id] = "delivered"
        /\ c.to = "failed" => clock[o] >= 1
    BY <1>1, <1>2 DEF Serves, MoveFits
  <2>4. IsLatest(o, payout[o]) => IsLatest(o, payout[o])'
    BY <1>2 DEF IsLatest
  <2> QED BY <1>2, <1>5, <1>7, <2>1, <2>2, <2>3, <2>4 DEF StateTells
<1>9. faults' = 0 => faults = 0 /\ Settled(o)'
  <2> SUFFICES ASSUME faults = 0
               PROVE  Settled(o)'
    BY <1>2
  <2>1. IF IsAhead(c) THEN Ahead(c) ELSE Settled(o)
    BY <1>1 DEF Serves, InAccount
  <2> USE DEF InTransition
  <2>2. /\ c.to \in {"funding_pending", "failed"} => escrow[o] = "none"
        /\ c.to \in {"funded", "shipped"} =>
             \/ ~ NothingAfterSwap(o) \/ o \in BankOrders
             \/ escrow[o] \in {"authorized", "reclaimed"}
        /\ c.to = "released" => escrow[o] = "captured"
        /\ c.to = "refunded" => escrow[o] \in {"voided", "refunded"}
        /\ c.to # "created"
    BY <1>1, <1>2, <2>1
       DEF Serves, IsAhead, Ahead, Settled, MoveFits
  <2>3. NothingAfterSwap(o) =>
          /\ c.to = "settlement_pending" => swaps[o] = 0
          /\ c.to = "released" => swaps[o] = 1
    BY <1>1, <1>2, <2>1 DEF Serves, IsAhead, Ahead
  <2>4. o \in BankOrders =>
          IF isOffRamped(c.to) THEN OnlyOutstanding(o, payout[o].id)
                               ELSE NoneOutstanding(o)
    <3> SUFFICES ASSUME o \in BankOrders
                 PROVE  IF isOffRamped(c.to)
                          THEN OnlyOutstanding(o, payout[o].id)
                          ELSE NoneOutstanding(o)
      OBVIOUS
    <3>1. CASE c.to = "funded"
      <4>1. escrow[o] \in {"authorized", "reclaimed"}
        BY <1>1, <1>2, <2>1, <3>1 DEF Serves, IsAhead, Ahead
      <4>2. NoneOutstanding(o)
        BY <1>1, <4>1
           DEF Serves, MoneyInOrder, Captured, Broadcast, NoneOutstanding
      <4> QED BY <3>1, <4>2 DEF isOffRamped
    <3>2. CASE c.to \in {"settlement_pending", "payout_pending"}
      BY <1>1, <1>2, <2>1, <3>2
         DEF Serves, IsAhead, Ahead, isOffRamped
    <3>3. CASE c.to = "released"
      BY <1>0, <1>5, <3>3
         DEF EvidenceInv, RecordBacked, Backs, Converted, MoneyInOrder
    <3>4. CASE c.to \notin {"funded", "settlement_pending", "payout_pending",
                            "released"}
      <4>1. Settled(o)
        BY <1>2, <2>1, <3>4 DEF IsAhead
      <4>2. isOffRamped(c.to) <=> isOffRamped(state[o])
        BY <1>6, <3>4
      <4> QED BY <4>1, <4>2 DEF Settled
    <3> QED BY <3>1, <3>2, <3>3, <3>4
  <2>5. /\ OnlyOutstanding(o, payout[o].id) =>
             OnlyOutstanding(o, payout[o].id)'
        /\ NoneOutstanding(o) => NoneOutstanding(o)'
    BY <1>2 DEF OnlyOutstanding, NoneOutstanding
  <2> QED BY <1>2, <1>5, <2>2, <2>3, <2>4, <2>5, StillThrown
             DEF Settled
<1>10. CASE c.then = "idle"
  BY <1>0, <1>1, <1>4, <1>5, <1>8, <1>9, <1>10, EndMoves
<1>11. CASE c.then # "idle"
  <2>1. ASSUME NEW d \in Calls, Follows(d, c, c.then)
        PROVE  /\ CallTells(d)'
               /\ faults' = 0 => faults = 0 /\ InAccount(o, d)'
    <3>1. d.at \in {"emit", "fund.execute", "settle.payout",
                    "payout.rebate", "refund.escrow"}
      BY <1>2, <1>11, <2>1 DEF Follows, Continuations
    <3>2. d.to = c.to /\ d.o = o
      BY <1>1, <2>1 DEF Follows, Serves
    <3>3. CallTells(d)'
      <4>1. d.to \in OneTimeEvents => emitted'[o][d.to] = 0
        BY <1>2, <1>7, <3>2
      <4> QED
        BY <1>2, <1>5, <2>1, <3>1, <3>2, <4>1
           DEF Follows, CallTells, InTransition
    <3>4. faults' = 0 => faults = 0 /\ InAccount(o, d)'
      BY <1>9, <3>1 DEF InAccount, IsAhead, InTransition
    <3> QED BY <3>3, <3>4
  <2>2. c.then \in Labels /\ Goto(w, c.then)
    BY <1>2, <1>4, <1>11 DEF Continuations, Labels
  <2> QED BY <1>0, <1>1, <1>5, <1>8, <2>1, <2>2, GotoMoves
<1> QED BY <1>10, <1>11

\* Time, the payer and the rail take nothing back that a state or a call says.
LEMMA OutsideMoves ==
  ASSUME AloneInv, OneCall, OneCall', [Next]_vars, NEW o \in Orders, Outside(o)
  PROVE  AloneInv'
<1>0. EvidenceInv'
  BY EvidenceStays DEF AloneInv
<1>1. UNCHANGED <<state, fundedAt, payout, emitted, swaps, rebates, call,
                  faults>>
  BY DEF Outside, TimePasses, Reclaim, RailSettles
<1>2. ASSUME NEW p \in Orders
      PROVE  /\ escrow'[p] = escrow[p] \/
                  (escrow[p] = "authorized" /\ escrow'[p] = "reclaimed")
             /\ clock[p] >= 1 => clock'[p] >= 1
             /\ \A k \in PaymentIds :
                  rail'[p][k] = rail[p][k] \/
                    (rail[p][k] = "pending" /\ rail'[p][k] # "none")
  <2>1. clock[p] \in Nat /\ clock[p] + 1 >= 1
    <3>1. clock[p] \in 0..3
      BY DEF AloneInv, EvidenceInv, TypeInv, TypeOK, Clock
    <3> QED BY <3>1
  <2>2. CASE TimePasses(o)
    <3>1. clock'[p] = clock[p] \/ clock'[p] = clock[p] + 1
      BY <2>2 DEF TimePasses, AloneInv, EvidenceInv, TypeInv, TypeOK
    <3> QED BY <2>1, <2>2, <3>1 DEF TimePasses
  <2>3. CASE Reclaim(o)
    BY <2>3 DEF Reclaim, AloneInv, EvidenceInv, TypeInv, TypeOK
  <2>4. ASSUME NEW k \in PaymentIds, RailSettles(o, k)
        PROVE  /\ UNCHANGED <<escrow, clock>>
               /\ \A j \in PaymentIds :
                    rail'[p][j] = rail[p][j] \/
                      (rail[p][j] = "pending" /\ rail'[p][j] # "none")
    BY <2>4 DEF RailSettles, AloneInv, EvidenceInv, TypeInv, TypeOK
  <2> QED BY <2>2, <2>3, <2>4 DEF Outside
<1>3. ASSUME NEW p \in Orders
      PROVE  /\ StateTells(p) => StateTells(p)'
             /\ Settled(p) => Settled(p)'
             /\ NoneOutstanding(p) => NoneOutstanding(p)'
             /\ \A id : OnlyOutstanding(p, id) => OnlyOutstanding(p, id)'
             /\ \A q : IsLatest(p, q) => IsLatest(p, q)'
  <2>1. NoneOutstanding(p) => NoneOutstanding(p)'
    BY <1>2 DEF NoneOutstanding
  <2>2. ASSUME NEW id, OnlyOutstanding(p, id)
        PROVE  OnlyOutstanding(p, id)'
    BY <1>2, <2>2 DEF OnlyOutstanding
  <2>3. ASSUME NEW q, IsLatest(p, q)
        PROVE  IsLatest(p, q)'
    BY <1>2, <2>3 DEF IsLatest
  <2>4. StateTells(p) => StateTells(p)'
    <3>1. ASSUME state[p] = "paid_out", StateTells(p)
          PROVE  rail'[p][payout[p].id] = "delivered"
      <4>1. rail[p][payout[p].id] = "delivered"
        BY <3>1 DEF StateTells
      <4>2. payout[p].id \in PaymentIds
        BY <3>1
           DEF StateTells, IsLatest, isOffRamped, PointsAtPayment, AloneInv,
               EvidenceInv, TypeInv
      <4> QED BY <1>2, <4>1, <4>2
    <3>2. IsLatest(p, payout[p]) => IsLatest(p, payout[p])'
      BY <1>1, <2>3 DEF IsLatest
    <3> QED BY <1>1, <1>2, <3>1, <3>2 DEF StateTells
  <2>5. Settled(p) => Settled(p)'
    <3>1. OnlyOutstanding(p, payout[p].id) => OnlyOutstanding(p, payout[p].id)'
      BY <1>1, <2>2 DEF OnlyOutstanding
    <3> QED BY <1>1, <1>2, <2>1, <3>1 DEF Settled, NothingAfterSwap
  <2> QED BY <2>1, <2>2, <2>3, <2>4, <2>5
<1>4. ASSUME NEW w \in Workers, ~ At(w, "idle")
      PROVE  CallTells(call[w])' /\ (Ahead(call[w]) => Ahead(call[w])')
  <2>1. PICK p \in Orders, c \in Calls : Serves(w, p, c)
    BY <1>4, LoneCall
  <2>2. call'[w] = c
    BY <1>1, <2>1 DEF Serves
  <2>3. MoveFits(c) => MoveFits(c)'
    <3>2. IsLatest(p, payout[p]) => IsLatest(p, payout[p])'
      BY <1>1, <1>3 DEF IsLatest
    <3>3. c.to = "paid_out" /\ MoveFits(c) =>
            rail'[p][payout[p].id] = "delivered"
      <4>1. c.to = "paid_out" /\ MoveFits(c) =>
              /\ rail[p][payout[p].id] = "delivered"
              /\ IsLatest(p, payout[p])
        BY <2>1 DEF MoveFits, Serves, StateTells, isOffRamped
      <4>2. IsLatest(p, payout[p]) => payout[p].id \in PaymentIds
        BY DEF IsLatest, PointsAtPayment, AloneInv, EvidenceInv, TypeInv
      <4> QED BY <1>2, <4>1, <4>2
    <3> QED BY <1>1, <1>2, <2>1, <3>2, <3>3 DEF MoveFits, Serves
  <2>4. IsLatest(p, c.pay) => IsLatest(p, c.pay)'
    <3>1. PICK q : q = c.pay
      OBVIOUS
    <3> QED BY <1>3, <3>1 DEF IsLatest
  <2>5. CallTells(c)'
    <3>1. /\ state'[p] = state[p] /\ payout'[p] = payout[p]
          /\ emitted'[p] = emitted[p]
          /\ escrow[p] = "captured" => escrow'[p] = "captured"
      BY <1>1, <1>2
    <3> QED BY <2>1, <2>3, <2>4, <3>1 DEF CallTells, Serves
  <2>6. Ahead(c) => Ahead(c)'
    <3>1. /\ state'[p] = state[p] /\ payout'[p] = payout[p]
          /\ swaps'[p] = swaps[p]
          /\ escrow[p] \in {"authorized", "reclaimed"}
               => escrow'[p] \in {"authorized", "reclaimed"}
      BY <1>1, <1>2
    <3>2. OnlyOutstanding(p, c.pay.id) => OnlyOutstanding(p, c.pay.id)'
      BY <1>3 DEF OnlyOutstanding
    <3>3. OnlyOutstanding(p, payout[p].id) => OnlyOutstanding(p, payout[p].id)'
      <4>1. PICK id : id = payout[p].id
        OBVIOUS
      <4>2. OnlyOutstanding(p, id) => OnlyOutstanding(p, id)'
        BY <1>3 DEF OnlyOutstanding
      <4> QED BY <1>1, <4>1, <4>2 DEF OnlyOutstanding
    <3>4. NothingAfterSwap(p) <=> NothingAfterSwap(p)'
      BY <1>1 DEF NothingAfterSwap
    <3> QED BY <1>3, <2>1, <3>1, <3>2, <3>3, <3>4
            DEF Ahead, Serves, BoundFor, InTransition
  <2> QED BY <2>1, <2>2, <2>5, <2>6 DEF Serves
<1>5. \A w \in Workers : CallTells(call[w])'
  <2> SUFFICES ASSUME NEW w \in Workers PROVE CallTells(call[w])'
    OBVIOUS
  <2>1. CASE At(w, "idle")
    BY <1>1, <2>1 DEF CallTells, At
  <2> QED BY <1>4, <2>1
<1>6. \A w \in Workers :
        /\ IsAhead(call[w])' <=> IsAhead(call[w])
        /\ IsAhead(call[w]) => ~ At(w, "idle")
  BY <1>1 DEF IsAhead, BoundFor, InTransition, At
<1>7. Accounted' /\ AheadKnows'
  BY <1>1, <1>3, <1>4, <1>6 DEF AloneInv, Accounted, AheadKnows
<1> QED BY <1>0, <1>3, <1>5, <1>7 DEF AloneInv

LEMMA StutterMoves ==
  ASSUME AloneInv, UNCHANGED vars, EvidenceInv'
  PROVE  AloneInv'
<1>1. \A o \in Orders : StateTells(o)' /\ (Settled(o) => Settled(o)')
  BY DEF AloneInv, StateTells, IsLatest, Settled, OnlyOutstanding,
         NoneOutstanding, NothingAfterSwap, vars
<1>2. \A w \in Workers :
        /\ CallTells(call[w])'
        /\ IsAhead(call[w])' <=> IsAhead(call[w])
        /\ Ahead(call[w]) => Ahead(call[w])'
  BY DEF AloneInv, CallTells, MoveFits, IsLatest, IsAhead, Ahead, BoundFor,
         InTransition, OnlyOutstanding, NoneOutstanding, NothingAfterSwap,
         vars
<1> QED BY <1>1, <1>2 DEF AloneInv, Accounted, AheadKnows, vars

-----------------------------------------------------------------------------
(* The theorems.                                                           *)

LEMMA AloneKept ==
  OneCall /\ OneCall' /\ AloneInv /\ [Next]_vars => AloneInv'
<1> SUFFICES ASSUME OneCall, OneCall', AloneInv, [Next]_vars PROVE AloneInv'
  OBVIOUS
<1>1. EvidenceInv'
  BY EvidenceStays DEF AloneInv
<1>2. ASSUME NEW w \in Workers, Continue(w)
      PROVE  AloneInv'
  BY <1>2, ReadsOn, WriteMoves, EmitMoves, FundExecuteMoves, FundGoesOn,
     CaptureMoves, SwapMoves, SettlementGoesOn, SaveMoves, SubmitMoves,
     RefreshGoesOn, RefundMoves, RefundAndReconcileGoOn
     DEF Continue
<1> QED
  BY <1>1, <1>2, BeginsSettled, InterruptMoves, OutsideMoves, StutterMoves
     DEF Next

LEMMA AloneStarts == Init => AloneInv
<1> SUFFICES ASSUME Init PROVE AloneInv
  OBVIOUS
<1>1. EvidenceInv
  BY EvidenceStarts
<1>2. \A w \in Workers : call[w].at = "idle"
  BY DEF Init, NothingYet, Idle
<1>3. \A o \in Orders : StateTells(o) /\ Settled(o)
  BY DEF Init, NothingYet, StateTells, Settled, NoneOutstanding, isOffRamped,
         isFunded, Events, OneTimeEvents
<1> QED
  BY <1>1, <1>2, <1>3
     DEF AloneInv, CallTells, Accounted, AheadKnows, IsAhead, BoundFor,
         InTransition

\* For a host that makes one call at a time, whichever of them die, the order's
\* state tells where its money is, and what it does not tell yet the call in
\* flight knows.
THEOREM AloneHolds == Spec /\ []OneCall => []AloneInv
<1>1. OneCall /\ OneCall' /\ AloneInv /\ [Next]_vars => AloneInv'
  BY AloneKept
<1> QED BY <1>1, AloneStarts, PTL DEF Spec

\* The host hears of funded, released, paid out and refunded once each: every
\* move announced leaves the states the same call would announce it from.
THEOREM AnnouncementsOnce == Spec /\ []OneCall => []AnnouncedOnce
<1>1. Events \ {"payout_pending"} = OneTimeEvents
  BY DEF Events, OneTimeEvents
<1>2. AloneInv => AnnouncedOnce
  BY <1>1 DEF AloneInv, StateTells, AnnouncedOnce
<1> QED BY <1>2, AloneHolds, PTL

\* refreshPayout() follows the last payout that was broadcast, and paid_out was
\* read off that payout.
THEOREM PayoutTracked == Spec /\ []OneCall => []PayoutIsTracked
<1>1. AloneInv => PayoutIsTracked
  BY DEF AloneInv, StateTells, IsLatest, isOffRamped, PayoutIsTracked
<1> QED BY <1>1, AloneHolds, PTL

LEMMA OneOutstanding ==
  ASSUME AloneInv, faults = 0, NEW o \in BankOrders
  PROVE  \/ NoneOutstanding(o)
         \/ escrow[o] = "captured" /\ \E k \in PaymentIds : OnlyOutstanding(o, k)
<1> o \in Orders
  BY OrdersAssumption
<1>0. /\ StateTells(o) /\ MoneyInOrder(o)
      /\ PointsAtPayment(payout[o])
      /\ \A k \in PaymentIds : rail[o][k] \in {"none", "failed"}
                                 \/ rail[o][k] # "none"
  BY DEF AloneInv, EvidenceInv, TypeInv
<1>1. CASE Settled(o)
  <2>1. CASE isOffRamped(state[o])
    BY <1>0, <1>1, <2>1 DEF StateTells, IsLatest, Settled, PointsAtPayment
  <2> QED BY <1>1, <2>1 DEF Settled
<1>2. ASSUME NEW w \in Workers, call[w].o = o, IsAhead(call[w])
      PROVE  \/ NoneOutstanding(o)
             \/ /\ escrow[o] = "captured"
                /\ \E k \in PaymentIds : OnlyOutstanding(o, k)
  <2>1. PICK c : c = call[w]
    OBVIOUS
  <2>2. /\ c.o = o /\ IsAhead(c) /\ Ahead(c) /\ CallTells(c) /\ CallKnows(c)
        /\ PointsAtPayment(c.pay)
    BY <1>2, <2>1
       DEF AloneInv, AheadKnows, EvidenceInv, TypeInv, CallsTyped, CallTyped
  <2>3. c.at # "idle"
    BY <2>2 DEF IsAhead, BoundFor, InTransition
  <2>4. CASE c.at \in {"fund.record", "fund.reread"} \/ BoundFor(c, "funded")
    <3>1. escrow[o] \in {"authorized", "reclaimed"}
      BY <2>2, <2>4 DEF Ahead
    <3> QED BY <1>0, <3>1
            DEF MoneyInOrder, Broadcast, Captured, NoneOutstanding
  <2>5. CASE \/ c.at \in {"release.captureRow", "payout.quote",
                          "payout.submit"}
             \/ BoundFor(c, "settlement_pending")
    BY <2>2, <2>5 DEF Ahead
  <2>6. CASE c.at \in {"payout.save", "payout.row"}
    BY <2>2, <2>3, <2>6 DEF Ahead, CallTells, IsLatest, PointsAtPayment
  <2>7. CASE BoundFor(c, "payout_pending")
    BY <1>0, <2>2, <2>3, <2>7
       DEF Ahead, CallTells, MoveFits, BoundFor, IsLatest, PointsAtPayment
  <2>8. CASE \/ c.at \in {"release.swap", "settle.swapRow", "settle.rebate",
                          "settle.rebateRow"}
             \/ BoundFor(c, "released")
    BY <1>0, <2>2, <2>3, <2>8
       DEF CallKnows, BoundFor, Backs, MoneyInOrder
  <2> QED BY <2>2, <2>4, <2>5, <2>6, <2>7, <2>8 DEF IsAhead
<1> QED BY <1>1, <1>2 DEF AloneInv, Accounted

\* The money of a bank order leaves once, as long as no call has died: a second
\* payout is broadcast only when the first has failed, and the payer is paid
\* back only when no payout is left.
THEOREM MoneyLeavesOnce == Spec /\ []OneCall => []PaidOrRefundedOnce
<1>1. AloneInv => PaidOrRefundedOnce
  <2> SUFFICES ASSUME AloneInv, faults = 0, NEW o \in BankOrders
               PROVE  /\ Cardinality(Outstanding(o)) <= 1
                      /\ ~ (Outstanding(o) # {} /\ escrow[o] = "refunded")
    BY DEF PaidOrRefundedOnce
  <2>1. CASE NoneOutstanding(o)
    <3>1. Outstanding(o) = {}
      BY <2>1 DEF NoneOutstanding, Outstanding
    <3> QED BY <3>1, FS_EmptySet
  <2>2. ASSUME escrow[o] = "captured",
               NEW k \in PaymentIds, OnlyOutstanding(o, k)
        PROVE  /\ Cardinality(Outstanding(o)) <= 1
               /\ ~ (Outstanding(o) # {} /\ escrow[o] = "refunded")
    <3>1. Outstanding(o) \subseteq {k}
      BY <2>2 DEF OnlyOutstanding, Outstanding
    <3>2. Outstanding(o) = {} \/ Outstanding(o) = {k}
      BY <3>1
    <3>3. Cardinality({}) = 0 /\ Cardinality({k}) = 1
      BY FS_EmptySet, FS_Singleton
    <3> QED BY <2>2, <3>2, <3>3
  <2> QED BY <2>1, <2>2, OneOutstanding
<1> QED BY <1>1, AloneHolds, PTL

\* An order that is settlement_pending holds its capture, and between calls the
\* state of any order says where its money is, a wallet order whose rebate threw
\* excepted.
THEOREM RecordAgrees == Spec /\ []OneCall => []RecordAgreesWithMoney
<1>1. AloneInv => RecordAgreesWithMoney
  <2> SUFFICES ASSUME AloneInv PROVE RecordAgreesWithMoney
    OBVIOUS
  <2>1. SettlementPendingHoldsCapture
    BY DEF AloneInv, StateTells, SettlementPendingHoldsCapture
  <2>2. ASSUME Quiet, faults = 0, NEW o \in Orders
        PROVE  Settled(o)
    <3>1. \A w \in Workers : ~ IsAhead(call[w])
      BY <2>2 DEF Quiet, At, IsAhead, BoundFor, InTransition
    <3> QED BY <2>2, <3>1 DEF AloneInv, Accounted
  <2> QED BY <2>1, <2>2 DEF RecordAgreesWithMoney, Settled
<1> QED BY <1>1, AloneHolds, PTL
=============================================================================
