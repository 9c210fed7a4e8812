--------------------------- MODULE RivoKit_Proofs ---------------------------
(***************************************************************************)
(* Theorems about the order facade, for any orders, any number of requests *)
(* in flight, and any bounds.                                              *)
(***************************************************************************)
EXTENDS RivoKitProperties, TLAPS

USE DEF orderRow, database, chain

\* A row that is written keeps the ledger typed.
LEMMA RowTyped ==
  ASSUME TypeOK, NEW o, NEW k, NEW v \in RowStatus, Record(o, k, v)
  PROVE  ledger' \in [Orders -> [PaymentKinds -> RowStatus]]
<1>1. ledger \in [Orders -> [PaymentKinds -> RowStatus]]
  BY DEF TypeOK
<1>2. ASSUME NEW p \in Orders
      PROVE  ledger'[p] \in [PaymentKinds -> RowStatus]
  <2>1. ledger[p] \in [PaymentKinds -> RowStatus]
    BY <1>1
  <2>2. CASE p # o
    BY <1>1, <2>1, <2>2 DEF Record
  <2>3. CASE p = o
    <3>1. ledger'[p] = [ledger[p] EXCEPT ![k] = IF @ = "absent" THEN v ELSE @]
      BY <1>1, <2>3 DEF Record
    <3> QED BY <2>1, <3>1
  <2> QED BY <2>2, <2>3
<1>3. ledger' = [p \in Orders |-> ledger'[p]]
  BY <1>1 DEF Record
<1> QED BY <1>2, <1>3

\* Counting up one entry of a table of counters leaves a table of counters.
LEMMA CountedUp ==
  ASSUME NEW D, NEW f \in [D -> Nat], NEW d
  PROVE  [f EXCEPT ![d] = @ + 1] \in [D -> Nat]
<1>1. CASE d \in D
  BY <1>1
<1>2. CASE d \notin D
  <2>1. [f EXCEPT ![d] = @ + 1] = f
    BY <1>2, Zenon
  <2> QED BY <2>1
<1> QED BY <1>1, <1>2

-----------------------------------------------------------------------------
(* How a call is rewritten by one step.                                    *)

\* An idle worker is a well-typed call.
LEMMA IdleTyped == CallTyped(Idle)
  BY OrdersAssumption, BoundsAssumption
     DEF CallTyped, PointsAtPayment, Idle, NoPayout, Calls, Payouts, Labels,
         Continuations, ORDER_STATES, RailStatus

\* Giving one worker a well-typed call keeps all calls well typed.
LEMMA Reassigned ==
  ASSUME TypeInv, NEW w \in Workers, NEW c, CallTyped(c),
         call' = [call EXCEPT ![w] = c]
  PROVE  CallsTyped' /\ call' \in [Workers -> Calls]
  BY DEF TypeInv, TypeOK, CallTyped, CallsTyped

\* What is known of a call in flight.
LEMMA InFlight ==
  ASSUME TypeInv, NEW w \in Workers
  PROVE  /\ call[w] \in Calls
         /\ CallTyped(call[w])
         /\ ~ At(w, "idle") => call[w].o \in Orders
         /\ call[w].pay \in Payouts
         /\ PointsAtPayment(call[w].pay)
         /\ call[w].to \in ORDER_STATES
         /\ call[w].snap \in ORDER_STATES
         /\ call[w].then \in Continuations
  BY DEF TypeInv, TypeOK, CallsTyped, CallTyped, At, Calls

\* Going to a label keeps calls well typed...
LEMMA GotoTyped ==
  ASSUME TypeInv, NEW w \in Workers, ~ At(w, "idle"),
         NEW l \in Labels \ {"refresh.status"}, Goto(w, l)
  PROVE  CallsTyped' /\ call' \in [Workers -> Calls]
<1>. DEFINE c == [call[w] EXCEPT !.at = l]
<1>1. CallTyped(c)
  BY InFlight DEF CallTyped, Calls, PointsAtPayment
<1>2. call' = [call EXCEPT ![w] = c]
  BY DEF Goto
<1> QED BY <1>1, <1>2, Reassigned

\* ... and so does ending the call,
LEMMA EndTyped ==
  ASSUME TypeInv, NEW w \in Workers, End(w)
  PROVE  CallsTyped' /\ call' \in [Workers -> Calls]
  BY IdleTyped, Reassigned DEF End

\* setting out to move the order,
LEMMA MoveTyped ==
  ASSUME TypeInv, NEW w \in Workers, ~ At(w, "idle"),
         NEW to \in ORDER_STATES, NEW l \in Continuations, Move(w, to, l)
  PROVE  CallsTyped' /\ call' \in [Workers -> Calls]
<1>. DEFINE c == [call[w] EXCEPT !.at = "transition.read", !.to = to,
                                 !.then = l]
<1>1. CallTyped(c)
  BY InFlight DEF CallTyped, Calls, PointsAtPayment, Labels
<1>2. call' = [call EXCEPT ![w] = c]
  BY DEF Move
<1> QED BY <1>1, <1>2, Reassigned

\* taking an instruction in hand,
LEMMA HoldingTyped ==
  ASSUME TypeInv, NEW w \in Workers, ~ At(w, "idle"),
         NEW l \in Labels, NEW p \in Payouts,
         p.kind = "live", p.id \in PaymentIds, Holding(w, l, p)
  PROVE  CallsTyped' /\ call' \in [Workers -> Calls]
<1>. DEFINE c == [call[w] EXCEPT !.at = l, !.pay = p]
<1>1. CallTyped(c)
  BY InFlight DEF CallTyped, Calls, PointsAtPayment
<1>2. call' = [call EXCEPT ![w] = c]
  BY DEF Holding
<1> QED BY <1>1, <1>2, Reassigned

\* deciding on an outcome,
LEMMA OutcomeTyped ==
  ASSUME TypeInv, NEW w \in Workers, ~ At(w, "idle"),
         NEW to \in ORDER_STATES, NEW l \in Labels \ {"refresh.status"},
         Outcome(w, to, l)
  PROVE  CallsTyped' /\ call' \in [Workers -> Calls]
<1>. DEFINE c == [call[w] EXCEPT !.to = to, !.at = l]
<1>1. CallTyped(c)
  BY InFlight DEF CallTyped, Calls, PointsAtPayment
<1>2. call' = [call EXCEPT ![w] = c]
  BY DEF Outcome
<1> QED BY <1>1, <1>2, Reassigned

\* beginning a call,
LEMMA StartTyped ==
  ASSUME TypeInv, NEW w \in Workers, NEW o \in Orders,
         NEW l \in Labels \ {"refresh.status"}, Start(w, o, l)
  PROVE  CallsTyped' /\ call' \in [Workers -> Calls]
<1>. DEFINE c == [Idle EXCEPT !.at = l, !.o = o, !.snap = state[o]]
<1>1. CallTyped(c)
  BY IdleTyped DEF CallTyped, Calls, PointsAtPayment, Idle, TypeInv, TypeOK
<1> QED BY <1>1, Reassigned DEF Start

\* and beginning one that moves the order first.
LEMMA DepartTyped ==
  ASSUME TypeInv, NEW w \in Workers, NEW o \in Orders,
         NEW to \in ORDER_STATES, NEW l \in Continuations,
         Depart(w, o, to, l)
  PROVE  CallsTyped' /\ call' \in [Workers -> Calls]
<1>. DEFINE c == [Idle EXCEPT !.at = "transition.read", !.o = o,
                              !.snap = state[o], !.to = to, !.then = l]
<1>1. CallTyped(c)
  BY IdleTyped DEF CallTyped, Calls, PointsAtPayment, Idle, TypeInv, TypeOK,
                   Labels
<1> QED BY <1>1, Reassigned DEF Depart

-----------------------------------------------------------------------------
(* Type correctness.                                                       *)

\* Every variable begins with its type...
LEMMA InitTyped == Init => TypeInv
  BY OrdersAssumption, BoundsAssumption, IdleTyped
     DEF Init, NothingYet, TypeInv, TypeOK, CallsTyped, CallTyped, PointsAtPayment,
         NoPayout, Payouts, ORDER_STATES, RowStatus, EscrowStates, Clock,
         RailStatus

\* ... and no step takes it away, whatever the requests do.
LEMMA TypesKept ==
  ASSUME TypeInv, [Next]_vars
  PROVE  TypeInv'
<1>1. ASSUME NEW w \in Workers, TransitionRead(w)
     PROVE  TypeInv'
  <2>1. CallsTyped' /\ call' \in [Workers -> Calls]
    BY <1>1, InFlight, GotoTyped, EndTyped
       DEF TransitionRead, At, Labels, Continuations, ORDER_STATES
  <2> QED
    BY <1>1, <2>1, InFlight
       DEF TypeInv, TypeOK, PointsAtPayment, TransitionRead, At
<1>2. ASSUME NEW w \in Workers, TransitionWrite(w)
     PROVE  TypeInv'
  <2>1. CallsTyped' /\ call' \in [Workers -> Calls]
    BY <1>2, InFlight, GotoTyped, EndTyped
       DEF TransitionWrite, At, Labels, Continuations, ORDER_STATES
  <2> QED
    BY <1>2, <2>1, InFlight
       DEF TypeInv, TypeOK, PointsAtPayment, TransitionWrite, At
<1>3. ASSUME NEW w \in Workers, Emit(w)
     PROVE  TypeInv'
  <2>1. CallsTyped' /\ call' \in [Workers -> Calls]
    BY <1>3, InFlight, EndTyped
       DEF Emit, At, Labels, Continuations, ORDER_STATES
  <2>2. call[w].o \in Orders
    BY <1>3, InFlight DEF Emit, At
  <2>3. emitted' \in [Orders -> [Events -> Nat]]
    <3>. DEFINE o == call[w].o
                e == call[w].to
    <3>1. emitted' = [emitted EXCEPT ![o][e] = emitted[o][e] + 1]
      BY <1>3 DEF Emit
    <3>2. emitted[o] \in [Events -> Nat]
      BY <2>2 DEF TypeInv, TypeOK
    <3>3. [emitted[o] EXCEPT ![e] = @ + 1] \in [Events -> Nat]
      BY <3>2, CountedUp
    <3>4. \A p \in Orders : emitted'[p] \in [Events -> Nat]
      <4>1. ASSUME NEW p \in Orders, p # o
            PROVE  emitted'[p] \in [Events -> Nat]
        BY <3>1, <4>1 DEF TypeInv, TypeOK
      <4>2. emitted'[o] = [emitted[o] EXCEPT ![e] = @ + 1]
        BY <2>2, <3>1 DEF TypeInv, TypeOK
      <4> QED BY <3>3, <4>1, <4>2
    <3> QED BY <3>1, <3>4 DEF TypeInv, TypeOK
  <2> QED
    BY <1>3, <2>1, <2>3
       DEF TypeInv, TypeOK, PointsAtPayment, Emit
<1>4. ASSUME NEW w \in Workers, FundExecute(w)
     PROVE  TypeInv'
  <2>1. CallsTyped' /\ call' \in [Workers -> Calls]
    BY <1>4, InFlight, GotoTyped, EndTyped
       DEF FundExecute, At, Labels, Continuations, ORDER_STATES
  <2> QED
    BY <1>4, <2>1, InFlight
       DEF TypeInv, TypeOK, PointsAtPayment, FundExecute, At, EscrowStates
<1>5. ASSUME NEW w \in Workers, FundRecord(w)
     PROVE  TypeInv'
  <2>1. CallsTyped' /\ call' \in [Workers -> Calls]
    BY <1>5, InFlight, GotoTyped
       DEF FundRecord, At, Labels, Continuations, ORDER_STATES, Record
  <2> QED
    BY ZenonT(60), <1>5, <2>1, InFlight
       DEF TypeInv, TypeOK, PointsAtPayment, FundRecord, At, RowStatus,
           Record
<1>6. ASSUME NEW w \in Workers, FundReread(w)
     PROVE  TypeInv'
  <2>1. CallsTyped' /\ call' \in [Workers -> Calls]
    BY <1>6, InFlight, EndTyped, MoveTyped
       DEF FundReread, At, Labels, Continuations, ORDER_STATES
  <2> QED
    BY <1>6, <2>1, InFlight
       DEF TypeInv, TypeOK, PointsAtPayment, FundReread, At
<1>7. ASSUME NEW w \in Workers, ReleaseCapture(w)
     PROVE  TypeInv'
  <2>1. CallsTyped' /\ call' \in [Workers -> Calls]
    BY <1>7, InFlight, GotoTyped, EndTyped
       DEF ReleaseCapture, At, Labels, Continuations, ORDER_STATES,
           CaptureReverts
  <2> QED
    BY <1>7, <2>1, InFlight
       DEF TypeInv, TypeOK, PointsAtPayment, ReleaseCapture, At,
           EscrowStates, CaptureReverts
<1>8. ASSUME NEW w \in Workers, ReleaseSwap(w)
     PROVE  TypeInv'
  <2>1. CallsTyped' /\ call' \in [Workers -> Calls]
    BY <1>8, InFlight, OutcomeTyped
       DEF ReleaseSwap, At, Labels, Continuations, ORDER_STATES, Swap,
           SwapFails
  <2>2. \/ swaps' = [swaps EXCEPT ![call[w].o] = @ + 1]
        \/ swaps' = swaps
    BY <1>8 DEF ReleaseSwap, Swap
  <2>3. swaps' \in [Orders -> Nat]
    <3>1. [swaps EXCEPT ![call[w].o] = @ + 1] \in [Orders -> Nat]
      BY CountedUp DEF TypeInv, TypeOK
    <3> QED BY <2>2, <3>1 DEF TypeInv, TypeOK
  <2>4. faults' \in 0..MaxFaults
    BY <1>8, BoundsAssumption DEF ReleaseSwap, Swap, TypeInv, TypeOK
  <2>5. UNCHANGED <<database, emitted, escrow, rebates, rail, bridge, clock>>
    BY <1>8 DEF ReleaseSwap
  <2> QED
    BY <2>1, <2>3, <2>4, <2>5
       DEF TypeInv, TypeOK, PointsAtPayment, database
<1>9. ASSUME NEW w \in Workers, ReleaseCaptureRow(w)
     PROVE  TypeInv'
  <2>1. CallsTyped' /\ call' \in [Workers -> Calls]
    BY <1>9, InFlight, GotoTyped, MoveTyped
       DEF ReleaseCaptureRow, At, Labels, Continuations, ORDER_STATES,
           Record
  <2> QED
    BY <1>9, <2>1, InFlight
       DEF TypeInv, TypeOK, PointsAtPayment, ReleaseCaptureRow, At,
           RowStatus, Record
<1>10. ASSUME NEW w \in Workers, SettleSwapRow(w)
     PROVE  TypeInv'
  <2>1. CallsTyped' /\ call' \in [Workers -> Calls]
    BY <1>10, InFlight, GotoTyped
       DEF SettleSwapRow, At, Labels, Continuations, ORDER_STATES, Record
  <2>2. ledger' \in [Orders -> [PaymentKinds -> RowStatus]]
    <3>1. CASE UNCHANGED ledger
      BY <3>1 DEF TypeInv, TypeOK
    <3>2. CASE Record(call[w].o, "swap", "confirmed")
      BY <3>2, RowTyped DEF TypeInv, RowStatus
    <3> QED BY <1>10, <3>1, <3>2 DEF SettleSwapRow
  <2> QED
    BY <1>10, <2>1, <2>2
       DEF TypeInv, TypeOK, PointsAtPayment, SettleSwapRow
<1>11. ASSUME NEW w \in Workers, SettleRebate(w)
     PROVE  TypeInv'
  <2>1. CallsTyped' /\ call' \in [Workers -> Calls]
    BY <1>11, InFlight, GotoTyped, EndTyped, MoveTyped
       DEF SettleRebate, At, Labels, Continuations, ORDER_STATES, PayRebate
  <2>2. \/ \E how \in {"paid", "threw"} :
             rebates' = [rebates EXCEPT ![call[w].o] = @ \cup {how}]
        \/ rebates' = rebates
    BY <1>11 DEF SettleRebate, PayRebate
  <2>3. rebates' \in [Orders -> SUBSET {"paid", "threw"}]
    BY <2>2 DEF TypeInv, TypeOK
  <2> QED
    BY <1>11, <2>1, <2>3
       DEF TypeInv, TypeOK, PointsAtPayment, SettleRebate, PayRebate
<1>12. ASSUME NEW w \in Workers, SettleRebateRow(w)
     PROVE  TypeInv'
  <2>1. CallsTyped' /\ call' \in [Workers -> Calls]
    BY <1>12, InFlight, MoveTyped
       DEF SettleRebateRow, At, Labels, Continuations, ORDER_STATES, Record
  <2> QED
    BY <1>12, <2>1, InFlight
       DEF TypeInv, TypeOK, PointsAtPayment, SettleRebateRow, At, RowStatus,
           Record
<1>13. ASSUME NEW w \in Workers, SettlePayout(w)
     PROVE  TypeInv'
  <2>1. CallsTyped' /\ call' \in [Workers -> Calls]
    BY <1>13, InFlight, GotoTyped
       DEF SettlePayout, At, Labels, Continuations, ORDER_STATES,
           savePayout, MockPayout
  <2>2. MockPayout \in Payouts /\ PointsAtPayment(MockPayout)
    BY BoundsAssumption DEF MockPayout, Payouts, RailStatus,
                            PointsAtPayment
  <2> QED
    BY <1>13, <2>1, <2>2, InFlight
       DEF TypeInv, TypeOK, PointsAtPayment, SettlePayout, At, savePayout
<1>14. ASSUME NEW w \in Workers, PayoutQuote(w)
     PROVE  TypeInv'
  <2>1. CallsTyped' /\ call' \in [Workers -> Calls]
    BY <1>14, InFlight, GotoTyped, EndTyped, MoveTyped
       DEF PayoutQuote, At, Labels, Continuations, ORDER_STATES, Stall
  <2> QED
    BY <1>14, <2>1, InFlight
       DEF TypeInv, TypeOK, PointsAtPayment, PayoutQuote, At, Stall
<1>15. ASSUME NEW w \in Workers, PayoutSubmit(w)
     PROVE  TypeInv'
  <2>0. ASSUME NEW k \in PaymentIds
        PROVE  livePayout(k) \in Payouts
    BY BoundsAssumption DEF livePayout, Payouts, PaymentIds, RailStatus
  <2>1. CallsTyped' /\ call' \in [Workers -> Calls]
    <3>1. CASE End(w)
      BY <3>1, EndTyped
    <3>2. ASSUME NEW k \in PaymentIds,
                 Holding(w, "payout.save", livePayout(k))
          PROVE  CallsTyped' /\ call' \in [Workers -> Calls]
      BY <1>15, <2>0, <3>2, HoldingTyped
         DEF PayoutSubmit, At, Labels, livePayout
    <3> QED BY <1>15, <3>1, <3>2 DEF PayoutSubmit
  <2>2. call[w].o \in Orders
    BY <1>15, InFlight DEF PayoutSubmit, At
  <2>3. rail' \in [Orders -> [PaymentIds -> RailStatus]]
    <3>1. CASE UNCHANGED rail
      BY <3>1 DEF TypeInv, TypeOK
    <3>2. ASSUME NEW k \in PaymentIds,
                 rail' = [rail EXCEPT ![call[w].o][k] = "pending"]
          PROVE  rail' \in [Orders -> [PaymentIds -> RailStatus]]
      BY <2>2, <3>2 DEF TypeInv, TypeOK, RailStatus
    <3> QED BY <1>15, <3>1, <3>2 DEF PayoutSubmit
  <2> QED
    BY <1>15, <2>1, <2>3
       DEF TypeInv, TypeOK, PointsAtPayment, PayoutSubmit
<1>16. ASSUME NEW w \in Workers, PayoutSave(w)
     PROVE  TypeInv'
  <2>1. CallsTyped' /\ call' \in [Workers -> Calls]
    BY <1>16, InFlight, GotoTyped
       DEF PayoutSave, At, Labels, Continuations, ORDER_STATES, savePayout
  <2> QED
    BY <1>16, <2>1, InFlight
       DEF TypeInv, TypeOK, PointsAtPayment, PayoutSave, At, savePayout
<1>17. ASSUME NEW w \in Workers, PayoutRow(w)
     PROVE  TypeInv'
  <2>1. CallsTyped' /\ call' \in [Workers -> Calls]
    BY <1>17, InFlight, MoveTyped
       DEF PayoutRow, At, Labels, Continuations, ORDER_STATES, Record
  <2> QED
    BY <1>17, <2>1, InFlight
       DEF TypeInv, TypeOK, PointsAtPayment, PayoutRow, At, RowStatus,
           Record
<1>18. ASSUME NEW w \in Workers, PayoutRebate(w)
     PROVE  TypeInv'
  <2>1. CallsTyped' /\ call' \in [Workers -> Calls]
    BY <1>18, InFlight, GotoTyped, EndTyped
       DEF PayoutRebate, At, Labels, Continuations, ORDER_STATES, PayRebate
  <2>2. \/ \E how \in {"paid", "threw"} :
             rebates' = [rebates EXCEPT ![call[w].o] = @ \cup {how}]
        \/ rebates' = rebates
    BY <1>18 DEF PayoutRebate, PayRebate
  <2>3. rebates' \in [Orders -> SUBSET {"paid", "threw"}]
    BY <2>2 DEF TypeInv, TypeOK
  <2> QED
    BY <1>18, <2>1, <2>3
       DEF TypeInv, TypeOK, PointsAtPayment, PayoutRebate, PayRebate
<1>19. ASSUME NEW w \in Workers, PayoutRebateRow(w)
     PROVE  TypeInv'
  <2>1. CallsTyped' /\ call' \in [Workers -> Calls]
    BY <1>19, InFlight, GotoTyped
       DEF PayoutRebateRow, At, Labels, Continuations, ORDER_STATES, Record
  <2> QED
    BY <1>19, <2>1, InFlight
       DEF TypeInv, TypeOK, PointsAtPayment, PayoutRebateRow, At, RowStatus,
           Record
<1>20. ASSUME NEW w \in Workers, RetrySwap(w)
     PROVE  TypeInv'
  <2>1. CallsTyped' /\ call' \in [Workers -> Calls]
    BY <1>20, InFlight, EndTyped, OutcomeTyped
       DEF RetrySwap, At, Labels, Continuations, ORDER_STATES, Swap
  <2>2. \/ swaps' = [swaps EXCEPT ![call[w].o] = @ + 1]
        \/ swaps' = swaps
    BY <1>20 DEF RetrySwap, Swap
  <2>3. swaps' \in [Orders -> Nat]
    <3>1. [swaps EXCEPT ![call[w].o] = @ + 1] \in [Orders -> Nat]
      BY CountedUp DEF TypeInv, TypeOK
    <3> QED BY <2>2, <3>1 DEF TypeInv, TypeOK
  <2>4. faults' \in 0..MaxFaults
    BY <1>20, BoundsAssumption DEF RetrySwap, Swap, TypeInv, TypeOK
  <2>5. UNCHANGED <<database, emitted, escrow, rebates, rail, bridge, clock>>
    BY <1>20 DEF RetrySwap
  <2> QED
    BY <2>1, <2>3, <2>4, <2>5
       DEF TypeInv, TypeOK, PointsAtPayment, database
<1>21. ASSUME NEW w \in Workers, RefreshRead(w)
     PROVE  TypeInv'
  <2>0. payout[call[w].o] \in Payouts /\ PointsAtPayment(payout[call[w].o])
    BY <1>21, InFlight DEF RefreshRead, At, TypeInv, TypeOK
  <2>1. CallsTyped' /\ call' \in [Workers -> Calls]
    <3>1. CASE End(w)
      BY <3>1, EndTyped
    <3>2. CASE /\ payout[call[w].o].kind = "live"
               /\ Holding(w, "refresh.status", payout[call[w].o])
      BY <1>21, <2>0, <3>2, HoldingTyped
         DEF RefreshRead, At, Labels, PointsAtPayment
    <3> QED BY <1>21, <3>1, <3>2 DEF RefreshRead
  <2> QED
    BY <1>21, <2>1, InFlight
       DEF TypeInv, TypeOK, PointsAtPayment, RefreshRead, At
<1>22. ASSUME NEW w \in Workers, RefreshStatus(w)
     PROVE  TypeInv'
  <2>. DEFINE p == call[w].pay
              observed == rail[call[w].o][p.id]
              q(hash) == [p EXCEPT !.status = observed, !.hash = @ \/ hash]
  <2>1. CallsTyped' /\ call' \in [Workers -> Calls]
    <3>1. p.kind = "live" /\ p.id \in PaymentIds /\ observed \in RailStatus
      BY <1>22, InFlight
         DEF RefreshStatus, At, CallTyped, PointsAtPayment, TypeInv, TypeOK
    <3>2. ASSUME NEW hash \in BOOLEAN
          PROVE  q(hash) \in Payouts /\ q(hash).kind = "live"
                                    /\ q(hash).id \in PaymentIds
      BY <3>1, InFlight DEF Payouts
    <3>3. CASE End(w)
      BY <3>3, EndTyped
    <3>4. ASSUME NEW hash \in BOOLEAN, Holding(w, "refresh.save", q(hash))
          PROVE  CallsTyped' /\ call' \in [Workers -> Calls]
      <4>1. ~ At(w, "idle") /\ "refresh.save" \in Labels
        BY <1>22 DEF RefreshStatus, At, Labels
      <4> HIDE DEF q
      <4> QED BY <3>2, <3>4, <4>1, HoldingTyped
    <3> QED
      <4>1. End(w) \/ \E hash \in BOOLEAN :
                        Holding(w, "refresh.save", q(hash))
        BY <1>22 DEF RefreshStatus
      <4> QED BY <3>3, <3>4, <4>1
  <2> QED
    BY <1>22, <2>1, InFlight
       DEF TypeInv, TypeOK, PointsAtPayment, RefreshStatus, At
<1>23. ASSUME NEW w \in Workers, RefreshSave(w)
     PROVE  TypeInv'
  <2>1. CallsTyped' /\ call' \in [Workers -> Calls]
    BY <1>23, InFlight, GotoTyped
       DEF RefreshSave, At, Labels, Continuations, ORDER_STATES, savePayout
  <2> QED
    BY <1>23, <2>1, InFlight
       DEF TypeInv, TypeOK, PointsAtPayment, RefreshSave, At, savePayout
<1>24. ASSUME NEW w \in Workers, RefreshRow(w)
     PROVE  TypeInv'
  <2>1. CallsTyped' /\ call' \in [Workers -> Calls]
    BY <1>24, InFlight, EndTyped, MoveTyped
       DEF RefreshRow, At, Labels, Continuations, ORDER_STATES,
           AdvancePayout
  <2> QED
    BY ZenonT(60), <1>24, <2>1, InFlight
       DEF TypeInv, TypeOK, PointsAtPayment, RefreshRow, At, RowStatus,
           AdvancePayout
<1>25. ASSUME NEW w \in Workers, RefundEscrow(w)
     PROVE  TypeInv'
  <2>1. CallsTyped' /\ call' \in [Workers -> Calls]
    BY <1>25, InFlight, GotoTyped, EndTyped, MoveTyped
       DEF RefundEscrow, At, Labels, Continuations, ORDER_STATES
  <2> QED
    BY <1>25, <2>1, InFlight
       DEF TypeInv, TypeOK, PointsAtPayment, RefundEscrow, At, EscrowStates
<1>26. ASSUME NEW w \in Workers, RefundBridge(w)
     PROVE  TypeInv'
  <2>1. CallsTyped' /\ call' \in [Workers -> Calls]
    BY <1>26, InFlight, EndTyped, MoveTyped
       DEF RefundBridge, At, Labels, Continuations, ORDER_STATES
  <2> QED
    BY <1>26, <2>1, InFlight
       DEF TypeInv, TypeOK, PointsAtPayment, RefundBridge, At
<1>27. ASSUME NEW w \in Workers, ReconcileRead(w)
     PROVE  TypeInv'
  <2>1. CallsTyped' /\ call' \in [Workers -> Calls]
    BY <1>27, InFlight, EndTyped, MoveTyped
       DEF ReconcileRead, At, Labels, Continuations, ORDER_STATES
  <2> QED
    BY <1>27, <2>1, InFlight
       DEF TypeInv, TypeOK, PointsAtPayment, ReconcileRead, At
<1>28. ASSUME NEW w \in Workers, Interrupt(w)
     PROVE  TypeInv'
  <2>1. CallsTyped' /\ call' \in [Workers -> Calls]
    BY <1>28, InFlight, EndTyped
       DEF Interrupt, At, Labels, Continuations, ORDER_STATES
  <2> QED
    BY <1>28, <2>1, BoundsAssumption
       DEF TypeInv, TypeOK, PointsAtPayment, Interrupt, At
<1>29. ASSUME NEW w \in Workers, NEW o \in Orders, Fund(w, o)
     PROVE  TypeInv'
  <2>1. CallsTyped' /\ call' \in [Workers -> Calls]
    BY <1>29, InFlight, StartTyped, DepartTyped
       DEF Fund, At, Labels, Continuations, ORDER_STATES
  <2> QED
    BY <1>29, <2>1, InFlight
       DEF TypeInv, TypeOK, PointsAtPayment, Fund, At
<1>30. ASSUME NEW w \in Workers, NEW o \in Orders, Release(w, o)
     PROVE  TypeInv'
  <2>1. CallsTyped' /\ call' \in [Workers -> Calls]
    BY <1>30, InFlight, StartTyped
       DEF Release, At, Labels, Continuations, ORDER_STATES
  <2> QED
    BY <1>30, <2>1, InFlight
       DEF TypeInv, TypeOK, PointsAtPayment, Release, At
<1>31. ASSUME NEW w \in Workers, NEW o \in Orders, RetrySettlement(w, o)
     PROVE  TypeInv'
  <2>1. CallsTyped' /\ call' \in [Workers -> Calls]
    BY <1>31, InFlight, StartTyped
       DEF RetrySettlement, At, Labels, Continuations, ORDER_STATES,
           RetryRoad
  <2> QED
    BY <1>31, <2>1, InFlight
       DEF TypeInv, TypeOK, PointsAtPayment, RetrySettlement, At, RetryRoad
<1>32. ASSUME NEW w \in Workers, NEW o \in Orders, RefreshPayout(w, o)
     PROVE  TypeInv'
  <2>1. CallsTyped' /\ call' \in [Workers -> Calls]
    BY <1>32, InFlight, StartTyped
       DEF RefreshPayout, At, Labels, Continuations, ORDER_STATES
  <2> QED
    BY <1>32, <2>1, InFlight
       DEF TypeInv, TypeOK, PointsAtPayment, RefreshPayout, At
<1>33. ASSUME NEW w \in Workers, NEW o \in Orders, Refund(w, o)
     PROVE  TypeInv'
  <2>1. CallsTyped' /\ call' \in [Workers -> Calls]
    BY <1>33, InFlight, DepartTyped
       DEF Refund, At, Labels, Continuations, ORDER_STATES
  <2> QED
    BY <1>33, <2>1, InFlight
       DEF TypeInv, TypeOK, PointsAtPayment, Refund, At
<1>34. ASSUME NEW w \in Workers, NEW o \in Orders, Reconcile(w, o)
     PROVE  TypeInv'
  <2>1. CallsTyped' /\ call' \in [Workers -> Calls]
    BY <1>34, InFlight, StartTyped
       DEF Reconcile, At, Labels, Continuations, ORDER_STATES
  <2> QED
    BY <1>34, <2>1, InFlight
       DEF TypeInv, TypeOK, PointsAtPayment, Reconcile, At
<1>35. ASSUME NEW w \in Workers, NEW o \in Orders, MarkFunding(w, o)
     PROVE  TypeInv'
  <2>1. CallsTyped' /\ call' \in [Workers -> Calls]
    BY <1>35, InFlight, DepartTyped
       DEF MarkFunding, At, Labels, Continuations, ORDER_STATES, HostMove
  <2> QED
    BY <1>35, <2>1, InFlight
       DEF TypeInv, TypeOK, PointsAtPayment, MarkFunding, At, HostMove
<1>36. ASSUME NEW w \in Workers, NEW o \in Orders, Ship(w, o)
     PROVE  TypeInv'
  <2>1. CallsTyped' /\ call' \in [Workers -> Calls]
    BY <1>36, InFlight, DepartTyped
       DEF Ship, At, Labels, Continuations, ORDER_STATES, HostMove
  <2> QED
    BY <1>36, <2>1, InFlight
       DEF TypeInv, TypeOK, PointsAtPayment, Ship, At, HostMove
<1>37. ASSUME NEW w \in Workers, NEW o \in Orders, Expire(w, o)
     PROVE  TypeInv'
  <2>1. CallsTyped' /\ call' \in [Workers -> Calls]
    BY <1>37, InFlight, DepartTyped
       DEF Expire, At, Labels, Continuations, ORDER_STATES, HostMove
  <2> QED
    BY <1>37, <2>1, InFlight
       DEF TypeInv, TypeOK, PointsAtPayment, Expire, At, HostMove
<1>38. ASSUME NEW o \in Orders, TimePasses(o)
     PROVE  TypeInv'
  <2>1. clock[o] + 1 \in Clock
    <3>1. clock[o] \in 0..3 /\ clock[o] < MaxExpiries /\ MaxExpiries \in 0..3
      BY <1>38, BoundsAssumption DEF TimePasses, TypeInv, TypeOK, Clock
    <3> QED BY <3>1 DEF Clock
  <2> QED
    BY <1>38, <2>1
       DEF TimePasses, TypeInv, TypeOK, CallsTyped, CallTyped,
           PointsAtPayment
<1>39. ASSUME NEW o \in Orders, Reclaim(o)
     PROVE  TypeInv'
  BY <1>39, BoundsAssumption
     DEF Reclaim, TypeInv, TypeOK, CallsTyped, CallTyped, PointsAtPayment,
         EscrowStates, Clock
<1>40. ASSUME NEW o \in Orders, NEW k \in PaymentIds, RailSettles(o, k)
     PROVE  TypeInv'
  BY <1>40 DEF RailSettles, TypeInv, TypeOK, CallsTyped, CallTyped,
               PointsAtPayment, RailStatus
<1>41. CASE UNCHANGED vars
  BY <1>41 DEF vars, TypeInv, TypeOK, CallsTyped, CallTyped,
               PointsAtPayment
<1> QED
  BY <1>1, <1>2, <1>3, <1>4, <1>5, <1>6, <1>7, <1>8, <1>9, <1>10, <1>11,
     <1>12, <1>13, <1>14, <1>15, <1>16, <1>17, <1>18, <1>19, <1>20, <1>21,
     <1>22, <1>23, <1>24, <1>25, <1>26, <1>27, <1>28, <1>29, <1>30, <1>31,
     <1>32, <1>33, <1>34, <1>35, <1>36, <1>37, <1>38, <1>39, <1>40, <1>41
     DEF Next, Begin, Continue, Outside

\* Every variable keeps its type.
THEOREM TypeCorrect == Spec => []TypeOK
<1>1. TypeInv => TypeOK
  BY DEF TypeInv
<1> QED BY <1>1, InitTyped, TypesKept, PTL DEF Spec

-----------------------------------------------------------------------------
(* Facts about money stay facts.                                           *)

\* One step takes none of the facts about order o back.
FactsKept(o) ==
    /\ Collected(o) => Collected(o)'
    /\ Captured(o) => Captured(o)'
    /\ Converted(o) => Converted(o)'
    /\ Returned(o) => Returned(o)'
    /\ rebates[o] \subseteq rebates'[o]
    /\ \A k \in PaymentIds :
         /\ rail[o][k] # "none" => rail'[o][k] # "none"
         /\ RailTerminal(rail[o][k]) => rail'[o][k] = rail[o][k]

\* The facts are about the chain, and stay if the chain stays.
LEMMA FactsOfChain ==
  ASSUME UNCHANGED chain, NEW o
  PROVE  FactsKept(o)
  BY DEF FactsKept, Collected, Captured, Converted, Returned

\* No step of the facade, of time, of the payer or of the rail takes a fact
\* back.
LEMMA FactsStay ==
  ASSUME EvidenceInv, [Next]_vars, NEW o \in Orders
  PROVE  FactsKept(o)
<1> USE DEF EvidenceInv
<1>1. ASSUME NEW w \in Workers, FundExecute(w)
      PROVE  FactsKept(o)
  <2>1. call[w].o \in Orders
    BY <1>1, InFlight DEF FundExecute, At
  <2>2. escrow' = escrow \/ (/\ escrow[call[w].o] = "none"
                             /\ escrow' = [escrow EXCEPT ![call[w].o] =
                                             "authorized"])
    BY <1>1 DEF FundExecute
  <2> QED
    BY <1>1, <2>1, <2>2
       DEF FundExecute, TypeInv, TypeOK, FactsKept, Collected, Captured,
           Converted, Returned
<1>2. ASSUME NEW w \in Workers, ReleaseCapture(w)
      PROVE  FactsKept(o)
  <2>1. call[w].o \in Orders
    BY <1>2, InFlight DEF ReleaseCapture, At
  <2>2. escrow' = escrow \/ (/\ escrow[call[w].o] = "authorized"
                             /\ escrow' = [escrow EXCEPT ![call[w].o] =
                                             "captured"])
    BY <1>2 DEF ReleaseCapture
  <2> QED
    BY <1>2, <2>1, <2>2
       DEF ReleaseCapture, TypeInv, TypeOK, FactsKept, Collected, Captured,
           Converted, Returned
<1>3. ASSUME NEW w \in Workers, RefundEscrow(w)
      PROVE  FactsKept(o)
  <2>1. call[w].o \in Orders
    BY <1>3, InFlight DEF RefundEscrow, At
  <2>2. \/ escrow' = escrow
        \/ /\ escrow[call[w].o] = "authorized"
           /\ escrow' = [escrow EXCEPT ![call[w].o] = "voided"]
        \/ /\ escrow[call[w].o] = "captured"
           /\ escrow' = [escrow EXCEPT ![call[w].o] = "refunded"]
    BY <1>3 DEF RefundEscrow
  <2> QED
    BY <1>3, <2>1, <2>2
       DEF RefundEscrow, TypeInv, TypeOK, FactsKept, Collected, Captured,
           Converted, Returned
<1>4. ASSUME NEW w \in Workers, RefundBridge(w)
      PROVE  FactsKept(o)
  <2>1. call[w].o \in Orders /\ bridge[call[w].o] = "idle"
    BY <1>4, InFlight DEF RefundBridge, At, BridgedAlone
  <2>2. \/ bridge' = bridge
        \/ bridge' = [bridge EXCEPT ![call[w].o] = "arrived"]
        \/ bridge' = [bridge EXCEPT ![call[w].o] = "burned"]
    BY <1>4 DEF RefundBridge
  <2> QED
    BY <1>4, <2>1, <2>2
       DEF RefundBridge, TypeInv, TypeOK, FactsKept, Collected, Captured,
           Converted, Returned
<1>5. ASSUME NEW w \in Workers, ReleaseSwap(w) \/ RetrySwap(w)
      PROVE  FactsKept(o)
  <2>1. call[w].o \in Orders
    BY <1>5, InFlight DEF ReleaseSwap, RetrySwap, At
  <2>2. \/ swaps' = swaps
        \/ swaps' = [swaps EXCEPT ![call[w].o] = @ + 1]
    BY <1>5 DEF ReleaseSwap, RetrySwap, Swap
  <2>3. Converted(o) => Converted(o)'
    <3>1. swaps[o] \in Nat
      BY DEF TypeInv, TypeOK
    <3>2. swaps'[o] = swaps[o] \/ swaps'[o] = swaps[o] + 1
      BY <2>1, <2>2 DEF TypeInv, TypeOK
    <3> QED BY <3>1, <3>2 DEF Converted
  <2>4. UNCHANGED <<escrow, rebates, rail, bridge>>
    BY <1>5 DEF ReleaseSwap, RetrySwap
  <2> QED
    BY <2>3, <2>4 DEF FactsKept, Collected, Captured, Returned
<1>6. ASSUME NEW w \in Workers, SettleRebate(w) \/ PayoutRebate(w)
      PROVE  FactsKept(o)
  <2>1. call[w].o \in Orders
    BY <1>6, InFlight DEF SettleRebate, PayoutRebate, At
  <2>2. \/ rebates' = rebates
        \/ \E how \in {"paid", "threw"} :
             rebates' = [rebates EXCEPT ![call[w].o] = @ \cup {how}]
    BY <1>6 DEF SettleRebate, PayoutRebate, PayRebate
  <2>3. rebates[o] \subseteq rebates'[o]
    <3>1. DOMAIN rebates = Orders
      BY DEF TypeInv, TypeOK
    <3>2. ASSUME NEW how,
                 rebates' = [rebates EXCEPT ![call[w].o] = @ \cup {how}]
          PROVE  rebates'[o] = rebates[o] \/ rebates'[o] = rebates[o] \cup {how}
      BY <3>1, <3>2
    <3> QED BY <2>2, <3>2
  <2>4. UNCHANGED <<escrow, swaps, rail, bridge>>
    BY <1>6 DEF SettleRebate, PayoutRebate
  <2> QED
    BY <2>3, <2>4 DEF FactsKept, Collected, Captured, Converted, Returned
<1>7. ASSUME NEW w \in Workers, PayoutSubmit(w)
      PROVE  FactsKept(o)
  <2>1. call[w].o \in Orders
    BY <1>7, InFlight DEF PayoutSubmit, At
  <2>2. CASE UNCHANGED rail
    BY <1>7, <2>2, FactsOfChain DEF PayoutSubmit
  <2>3. ASSUME NEW k \in PaymentIds, rail[call[w].o][k] = "none",
               rail' = [rail EXCEPT ![call[w].o][k] = "pending"]
        PROVE  FactsKept(o)
    BY <1>7, <2>1, <2>3
       DEF PayoutSubmit, TypeInv, TypeOK, FactsKept, Collected, Captured,
           Converted, Returned, RailTerminal
  <2>4. ASSUME NEW k \in PaymentIds,
               \A j \in PaymentIds : rail[call[w].o][j] = "none" <=> j \geq k
        PROVE  rail[call[w].o][k] = "none"
    <3>1. k \geq k
      BY BoundsAssumption DEF PaymentIds
    <3> QED BY <2>4, <3>1
  <2> QED
    BY <1>7, <2>2, <2>3, <2>4 DEF PayoutSubmit
<1>8. ASSUME NEW p \in Orders, Reclaim(p)
      PROVE  FactsKept(o)
  BY <1>8 DEF Reclaim, TypeInv, TypeOK, FactsKept, Collected, Captured,
              Converted, Returned
<1>9. ASSUME NEW p \in Orders, NEW k \in PaymentIds, RailSettles(p, k)
      PROVE  FactsKept(o)
  BY <1>9 DEF RailSettles, TypeInv, TypeOK, FactsKept, Collected, Captured,
              Converted, Returned, RailTerminal
<1>10. CASE UNCHANGED chain
  BY <1>10, FactsOfChain
<1> QED
  <2>1. ASSUME NEW w \in Workers, NEW p \in Orders, Begin(w, p)
        PROVE  UNCHANGED chain
    BY <2>1 DEF Begin, Fund, Release, RetrySettlement, RefreshPayout, Refund,
                Reconcile, MarkFunding, Ship, Expire, HostMove
  <2> QED
    BY ZenonT(60), <1>1, <1>2, <1>3, <1>4, <1>5, <1>6, <1>7, <1>8, <1>9,
       <1>10, <2>1
       DEF Next, Continue, Outside, vars, TransitionRead, TransitionWrite,
           Emit, FundRecord, FundReread, ReleaseCaptureRow, SettleSwapRow,
           SettleRebateRow, SettlePayout, PayoutQuote, PayoutSave, PayoutRow,
           PayoutRebateRow, RefreshRead, RefreshStatus, RefreshSave,
           RefreshRow, ReconcileRead, TimePasses, Interrupt

\* So does what rests on them: a claim that was backed stays backed,
LEMMA BacksStay ==
  ASSUME EvidenceInv, [Next]_vars, NEW o \in Orders
  PROVE  /\ Broadcast(o) => Broadcast(o)'
         /\ Delivered(o) => Delivered(o)'
         /\ \A s : Backs(o, s) => Backs(o, s)'
<1>1. FactsKept(o)
  BY FactsStay
<1>2. Broadcast(o) => Broadcast(o)'
  BY <1>1 DEF FactsKept, Broadcast
<1>3. Delivered(o) => Delivered(o)'
  BY <1>1 DEF FactsKept, Delivered, RailTerminal
<1> QED BY <1>1, <1>2, <1>3 DEF FactsKept, Backs

\* an instruction that could be trusted still can,
LEMMA TrustStays ==
  ASSUME EvidenceInv, [Next]_vars, NEW o \in Orders, NEW p,
         PointsAtPayment(p), Trustworthy(o, p)
  PROVE  Trustworthy(o, p)'
<1>1. FactsKept(o)
  BY FactsStay
<1> QED BY <1>1 DEF FactsKept, Trustworthy, PointsAtPayment, RailTerminal

\* a record that is not written stays backed,
LEMMA RecordStays ==
  ASSUME EvidenceInv, [Next]_vars, NEW o \in Orders,
         state'[o] = state[o], payout'[o] = payout[o],
         ledger'[o] = ledger[o], emitted'[o] = emitted[o]
  PROVE  RecordBacked(o)'
<1>1. FactsKept(o)
  BY FactsStay
<1>2. RecordBacked(o) /\ PointsAtPayment(payout[o])
  BY DEF EvidenceInv, TypeInv
<1>3. Backs(o, state[o])'
  BY <1>2, BacksStay DEF RecordBacked
<1>4. Trustworthy(o, payout[o])'
  BY <1>2, TrustStays DEF RecordBacked
<1>5. \A e \in Events : emitted'[o][e] > 0 => Backs(o, e)'
  BY <1>2, BacksStay DEF RecordBacked
<1> QED BY <1>1, <1>2, <1>3, <1>4, <1>5, BacksStay
           DEF RecordBacked, FactsKept

\* and a request that does not run still knows what it knew.
LEMMA KnowledgeStays ==
  ASSUME EvidenceInv, [Next]_vars, NEW v \in Workers, call'[v] = call[v]
  PROVE  CallKnows(call[v])'
<1>. DEFINE o == call[v].o
<1>1. CASE At(v, "idle")
  BY <1>1 DEF At, CallKnows
<1>2. CASE ~ At(v, "idle")
  <2>1. o \in Orders /\ CallKnows(call[v]) /\ PointsAtPayment(call[v].pay)
    BY <1>2, InFlight DEF EvidenceInv
  <2>2. FactsKept(o)
    BY <2>1, FactsStay
  <2>3. Trustworthy(o, call[v].pay)'
    BY <1>2, <2>1, TrustStays DEF CallKnows, At
  <2>4. /\ Broadcast(o) => Broadcast(o)'
        /\ Backs(o, call[v].to) => Backs(o, call[v].to)'
    BY <2>1, BacksStay
  <2> QED
    BY <1>2, <2>1, <2>2, <2>3, <2>4 DEF CallKnows, FactsKept, InTransition, At
<1> QED BY <1>1, <1>2

-----------------------------------------------------------------------------
(* The record rests on facts.                                              *)

\* What a confirmed row of each kind is evidence of.
RowBacked(o) ==
    /\ ledger[o]["authorize"] = "confirmed" => Collected(o)
    /\ ledger[o]["capture"] = "confirmed" => Captured(o)
    /\ ledger[o]["swap"] = "confirmed" => Converted(o)
    /\ ledger[o]["rebate"] = "confirmed" => "paid" \in rebates[o]
    /\ ledger[o]["payout"] = "confirmed" => Delivered(o)

\* The parts of a record that are not its rows stay backed if they stay.
LEMMA RestOfRecordStays ==
  ASSUME EvidenceInv, [Next]_vars, NEW o \in Orders,
         UNCHANGED <<state, payout, emitted>>, RowBacked(o)'
  PROVE  RecordBacked(o)'
<1>1. RecordBacked(o) /\ PointsAtPayment(payout[o])
  BY DEF EvidenceInv, TypeInv
<1>2. Backs(o, state[o])'
  BY <1>1, BacksStay DEF RecordBacked
<1>3. Trustworthy(o, payout[o])'
  BY <1>1, TrustStays DEF RecordBacked
<1>4. \A e \in Events : emitted'[o][e] > 0 => Backs(o, e)'
  BY <1>1, BacksStay DEF RecordBacked
<1> QED BY <1>2, <1>3, <1>4 DEF RecordBacked, RowBacked

\* A row that is written with the fact it names at hand is evidence.
LEMMA RowWritten ==
  ASSUME EvidenceInv, [Next]_vars, NEW o \in Orders, NEW kind, NEW status,
         Record(o, kind, status), UNCHANGED <<state, payout, emitted>>,
         status = "confirmed" =>
           /\ kind = "authorize" => Collected(o)
           /\ kind = "capture" => Captured(o)
           /\ kind = "swap" => Converted(o)
           /\ kind = "rebate" => "paid" \in rebates[o]
           /\ kind = "payout" => Delivered(o),
         NEW p \in Orders
  PROVE  RecordBacked(p)'
<1>1. FactsKept(p) /\ FactsKept(o) /\ RowBacked(p) /\ RowBacked(o)
  BY FactsStay DEF EvidenceInv, RecordBacked, RowBacked
<1>2. CASE p # o
  <2>1. ledger'[p] = ledger[p]
    BY <1>2 DEF Record, EvidenceInv, TypeInv, TypeOK
  <2> QED BY <2>1, RecordStays
<1>3. CASE p = o
  <2>1. \A k \in PaymentKinds :
          ledger'[o][k] = "confirmed" =>
            ledger[o][k] = "confirmed" \/ (k = kind /\ status = "confirmed")
    BY DEF Record, EvidenceInv, TypeInv, TypeOK
  <2>2. RowBacked(o)'
    BY <1>1, <2>1, BacksStay DEF RowBacked, FactsKept, PaymentKinds
  <2> QED BY <1>3, <2>2, RestOfRecordStays
<1> QED BY <1>2, <1>3

\* An instruction that can be trusted may be saved.
LEMMA PayoutSaved ==
  ASSUME EvidenceInv, [Next]_vars, NEW o \in Orders, NEW q,
         savePayout(o, q), UNCHANGED <<state, ledger, emitted>>,
         Trustworthy(o, q), PointsAtPayment(q), NEW p \in Orders
  PROVE  RecordBacked(p)'
<1>1. CASE p # o
  BY <1>1, RecordStays DEF savePayout, EvidenceInv, TypeInv, TypeOK
<1>2. CASE p = o
  <2>1. RecordBacked(o)
    BY DEF EvidenceInv
  <2>2. Backs(o, state[o])'
    BY <2>1, BacksStay DEF RecordBacked
  <2>3. payout'[o] = q
    BY DEF savePayout, EvidenceInv, TypeInv, TypeOK
  <2>4. Trustworthy(o, payout[o])'
    BY <2>3, TrustStays DEF Trustworthy
  <2>5. \A e \in Events : emitted'[o][e] > 0 => Backs(o, e)'
    BY <2>1, BacksStay DEF RecordBacked
  <2> QED
    BY <1>2, <2>1, <2>2, <2>4, <2>5, BacksStay, FactsStay
       DEF RecordBacked, FactsKept
<1> QED BY <1>1, <1>2

\* Whatever a step writes about an order has happened to its money.
LEMMA RecordKept ==
  ASSUME EvidenceInv, [Next]_vars, NEW p \in Orders
  PROVE  RecordBacked(p)'
<1>. DEFINE Known(w) == /\ call[w].o \in Orders
                        /\ CallKnows(call[w])
                        /\ PointsAtPayment(call[w].pay)
<1>0. \A w \in Workers : ~ At(w, "idle") => Known(w)
  BY InFlight DEF EvidenceInv
<1> HIDE DEF Known
<1>1. ASSUME NEW w \in Workers, TransitionWrite(w)
      PROVE  RecordBacked(p)'
  <2>. DEFINE o == call[w].o
  <2>1. o \in Orders /\ Backs(o, call[w].to)
    BY <1>0, <1>1 DEF TransitionWrite, At, CallKnows, InTransition, Known
  <2>2. state'[p] = state[p] \/ (p = o /\ state'[p] = call[w].to)
    BY <1>1, <2>1 DEF TransitionWrite, EvidenceInv, TypeInv, TypeOK
  <2>3. Backs(p, state[p])'
    <3>1. Backs(p, state[p])
      BY DEF EvidenceInv, RecordBacked
    <3>2. Backs(p, state'[p])
      BY <2>1, <2>2, <3>1
    <3>3. \A s : Backs(p, s) => Backs(p, s)'
      BY BacksStay
    <3> QED BY <3>2, <3>3
  <2>4. RecordBacked(p) /\ PointsAtPayment(payout[p]) /\ FactsKept(p)
    BY FactsStay DEF EvidenceInv, TypeInv
  <2>5. UNCHANGED <<payout, ledger, emitted>>
    BY <1>1 DEF TransitionWrite
  <2>6. Trustworthy(p, payout[p])'
    BY <2>4, <2>5, TrustStays DEF RecordBacked
  <2>7. \A e \in Events : emitted'[p][e] > 0 => Backs(p, e)'
    BY <2>4, <2>5, BacksStay DEF RecordBacked
  <2> QED BY <2>3, <2>4, <2>5, <2>6, <2>7, BacksStay
             DEF RecordBacked, FactsKept
<1>2. ASSUME NEW w \in Workers, Emit(w)
      PROVE  RecordBacked(p)'
  <2>. DEFINE o == call[w].o
  <2>1. o \in Orders /\ Backs(o, call[w].to)
    BY <1>0, <1>2 DEF Emit, At, CallKnows, Known
  <2>2. \A e \in Events :
          emitted'[p][e] # emitted[p][e] => p = o /\ e = call[w].to
    BY <1>2, <2>1 DEF Emit, EvidenceInv, TypeInv, TypeOK
  <2>3. RecordBacked(p) /\ PointsAtPayment(payout[p]) /\ FactsKept(p)
    BY FactsStay DEF EvidenceInv, TypeInv
  <2>4. UNCHANGED <<state, payout, ledger>>
    BY <1>2 DEF Emit
  <2>5. \A e \in Events : emitted'[p][e] > 0 => Backs(p, e)'
    BY <2>1, <2>2, <2>3, BacksStay DEF RecordBacked
  <2>6. Trustworthy(p, payout[p])'
    BY <2>3, <2>4, TrustStays DEF RecordBacked
  <2>7. Backs(p, state[p])'
    BY <2>3, <2>4, BacksStay DEF RecordBacked
  <2> QED BY <2>3, <2>4, <2>5, <2>6, <2>7, BacksStay
             DEF RecordBacked, FactsKept
<1>3. ASSUME NEW w \in Workers, FundRecord(w)
      PROVE  RecordBacked(p)'
  BY <1>0, <1>3, RowWritten DEF FundRecord, At, CallKnows, Known
<1>4. ASSUME NEW w \in Workers, ReleaseCaptureRow(w)
      PROVE  RecordBacked(p)'
  BY <1>0, <1>4, RowWritten DEF ReleaseCaptureRow, At, CallKnows, Known
<1>5. ASSUME NEW w \in Workers, SettleSwapRow(w)
      PROVE  RecordBacked(p)'
  <2>1. CASE UNCHANGED ledger
    BY <1>5, <2>1, RecordStays DEF SettleSwapRow, database, orderRow
  <2>2. CASE Record(call[w].o, "swap", "confirmed")
    BY <1>0, <1>5, <2>2, RowWritten DEF SettleSwapRow, At, CallKnows, Known
  <2> QED BY <1>5, <2>1, <2>2 DEF SettleSwapRow
<1>6. ASSUME NEW w \in Workers, SettleRebateRow(w)
      PROVE  RecordBacked(p)'
  BY <1>0, <1>6, RowWritten DEF SettleRebateRow, At, CallKnows, Known
<1>7. ASSUME NEW w \in Workers, PayoutRebateRow(w)
      PROVE  RecordBacked(p)'
  BY <1>0, <1>7, RowWritten DEF PayoutRebateRow, At, CallKnows, Known
<1>8. ASSUME NEW w \in Workers, PayoutRow(w)
      PROVE  RecordBacked(p)'
  BY <1>0, <1>8, RowWritten DEF PayoutRow, At, CallKnows, Known
<1>9. ASSUME NEW w \in Workers, SettlePayout(w)
      PROVE  RecordBacked(p)'
  <2>1. Trustworthy(call[w].o, MockPayout) /\ PointsAtPayment(MockPayout)
    BY DEF Trustworthy, PointsAtPayment, MockPayout
  <2> QED
    BY <1>0, <1>9, <2>1, PayoutSaved DEF SettlePayout, At, Known
<1>10. ASSUME NEW w \in Workers, PayoutSave(w)
       PROVE  RecordBacked(p)'
  BY <1>0, <1>10, PayoutSaved DEF PayoutSave, At, CallKnows, Known
<1>11. ASSUME NEW w \in Workers, RefreshSave(w)
       PROVE  RecordBacked(p)'
  BY <1>0, <1>11, PayoutSaved DEF RefreshSave, At, CallKnows, Known
<1>12. ASSUME NEW w \in Workers, RefreshRow(w)
       PROVE  RecordBacked(p)'
  <2>. DEFINE o == call[w].o
              q == call[w].pay
  <2>1. o \in Orders /\ Trustworthy(o, q) /\ q.kind = "live"
                     /\ q.id \in PaymentIds
    BY <1>0, <1>12 DEF RefreshRow, At, CallKnows, PointsAtPayment, Known
  <2>2. q.status = "delivered" => Delivered(o)
    BY <2>1 DEF Trustworthy, Delivered, RailTerminal
  <2>3. UNCHANGED <<state, payout, emitted>> /\ AdvancePayout(o, q)
    BY <1>12 DEF RefreshRow
  <2>4. \A k \in PaymentKinds :
          ledger'[p][k] = "confirmed" =>
            \/ ledger[p][k] = "confirmed"
            \/ p = o /\ k = "payout" /\ q.status = "delivered"
    BY <2>1, <2>3 DEF AdvancePayout, EvidenceInv, TypeInv, TypeOK
  <2>5. RowBacked(p)
    BY DEF EvidenceInv, RecordBacked, RowBacked
  <2>6. RowBacked(p)'
    BY <2>2, <2>4, <2>5, BacksStay, FactsStay
       DEF RowBacked, FactsKept, PaymentKinds
  <2> QED BY <2>3, <2>6, RestOfRecordStays
<1>13. CASE UNCHANGED <<database, emitted>>
  BY <1>13, RecordStays
<1> QED
  <2>1. ASSUME NEW w \in Workers, NEW o \in Orders, Begin(w, o)
        PROVE  UNCHANGED <<database, emitted>>
    BY <2>1 DEF Begin, Fund, Release, RetrySettlement, RefreshPayout, Refund,
                Reconcile, MarkFunding, Ship, Expire, HostMove
  <2>2. ASSUME NEW o \in Orders, Outside(o)
        PROVE  UNCHANGED <<database, emitted>>
    BY <2>2 DEF Outside, TimePasses, Reclaim, RailSettles
  <2> QED
    BY ZenonT(60), <1>1, <1>2, <1>3, <1>4, <1>5, <1>6, <1>7, <1>8, <1>9,
       <1>10, <1>11, <1>12, <1>13, <2>1, <2>2
       DEF Next, Continue, vars, TransitionRead, FundExecute, FundReread,
           ReleaseCapture, ReleaseSwap, SettleRebate, PayoutQuote,
           PayoutSubmit, PayoutRebate, RetrySwap, RefreshRead, RefreshStatus,
           RefundEscrow, RefundBridge, ReconcileRead, Interrupt

-----------------------------------------------------------------------------
(* The money moves in order.                                               *)

\* What a call in flight knows, and about which order.
Informed(w) ==
    /\ call[w].o \in Orders
    /\ call[w] \in Calls
    /\ CallTyped(call[w])
    /\ CallKnows(call[w])

\* Every call in flight is informed.
LEMMA InformedCalls ==
  ASSUME EvidenceInv, NEW w \in Workers, ~ At(w, "idle")
  PROVE  Informed(w)
  BY InFlight DEF EvidenceInv, Informed

\* No step lets money skip a stage.
LEMMA MoneyKept ==
  ASSUME EvidenceInv, [Next]_vars, NEW p \in Orders
  PROVE  MoneyInOrder(p)'
<1>1. /\ MoneyInOrder(p)
      /\ FactsKept(p)
      /\ Broadcast(p) => Broadcast(p)'
  BY FactsStay, BacksStay DEF EvidenceInv
<1>2. ASSUME NEW w \in Workers, FundExecute(w)
      PROVE  MoneyInOrder(p)'
  <2>1. UNCHANGED <<swaps, rebates, rail, bridge>>
    BY <1>2 DEF FundExecute
  <2>2. escrow'[p] = escrow[p] \/ escrow[p] = "none"
    BY <1>2 DEF FundExecute, EvidenceInv, TypeInv, TypeOK
  <2> QED BY <1>1, <2>1, <2>2
             DEF MoneyInOrder, FactsKept, Converted, Broadcast
<1>3. ASSUME NEW w \in Workers, ReleaseCapture(w)
      PROVE  MoneyInOrder(p)'
  <2>1. UNCHANGED <<swaps, rebates, rail, bridge>>
    BY <1>3 DEF ReleaseCapture
  <2>2. escrow'[p] = escrow[p] \/ escrow[p] = "authorized"
    BY <1>3 DEF ReleaseCapture, EvidenceInv, TypeInv, TypeOK
  <2> QED BY <1>1, <2>1, <2>2
             DEF MoneyInOrder, FactsKept, Converted, Broadcast
<1>4. ASSUME NEW w \in Workers, RefundEscrow(w)
      PROVE  MoneyInOrder(p)'
  <2>1. UNCHANGED <<swaps, rebates, rail, bridge>>
    BY <1>4 DEF RefundEscrow
  <2>2. escrow'[p] = escrow[p] \/ escrow[p] \in {"authorized", "captured"}
    BY <1>4 DEF RefundEscrow, EvidenceInv, TypeInv, TypeOK
  <2> QED BY <1>1, <2>1, <2>2
             DEF MoneyInOrder, FactsKept, Converted, Broadcast
<1>5. ASSUME NEW o \in Orders, Reclaim(o)
      PROVE  MoneyInOrder(p)'
  <2>1. UNCHANGED <<swaps, rebates, rail, bridge>>
    BY <1>5 DEF Reclaim
  <2>2. escrow'[p] = escrow[p] \/ escrow[p] = "authorized"
    BY <1>5 DEF Reclaim, EvidenceInv, TypeInv, TypeOK
  <2> QED BY <1>1, <2>1, <2>2
             DEF MoneyInOrder, FactsKept, Converted, Broadcast
<1>6. ASSUME NEW w \in Workers, RefundBridge(w)
      PROVE  MoneyInOrder(p)'
  <2>1. UNCHANGED <<escrow, swaps, rebates, rail>>
    BY <1>6 DEF RefundBridge
  <2>2. \/ bridge'[p] = bridge[p]
        \/ escrow[p] \in {"voided", "refunded"}
    BY <1>6 DEF RefundBridge, BridgedAlone, EvidenceInv, TypeInv, TypeOK
  <2> QED BY <1>1, <2>1, <2>2
             DEF MoneyInOrder, FactsKept, Converted, Broadcast
<1>7. ASSUME NEW w \in Workers, ReleaseSwap(w) \/ RetrySwap(w)
      PROVE  MoneyInOrder(p)'
  <2>1. UNCHANGED <<escrow, rebates, rail, bridge>>
    BY <1>7 DEF ReleaseSwap, RetrySwap
  <2>2. Captured(call[w].o) /\ call[w].o \notin BankOrders
    BY <1>7, InformedCalls
       DEF ReleaseSwap, RetrySwap, At, Informed, CallKnows
  <2>3. swaps'[p] = swaps[p] \/ p = call[w].o
    BY <1>7 DEF ReleaseSwap, RetrySwap, Swap, EvidenceInv, TypeInv, TypeOK
  <2> QED BY <1>1, <2>1, <2>2, <2>3
             DEF MoneyInOrder, FactsKept, Converted, Broadcast
<1>8. ASSUME NEW w \in Workers, SettleRebate(w) \/ PayoutRebate(w)
      PROVE  MoneyInOrder(p)'
  <2>1. UNCHANGED <<escrow, swaps, rail, bridge>>
    BY <1>8 DEF SettleRebate, PayoutRebate
  <2>2. Converted(call[w].o) \/ Broadcast(call[w].o)
    BY <1>8, InformedCalls
       DEF SettleRebate, PayoutRebate, At, Informed, CallKnows
  <2>3. rebates'[p] = rebates[p] \/ p = call[w].o
    BY <1>8 DEF SettleRebate, PayoutRebate, PayRebate, EvidenceInv, TypeInv,
                TypeOK
  <2> QED BY <1>1, <2>1, <2>2, <2>3
             DEF MoneyInOrder, FactsKept, Converted, Broadcast
<1>9. ASSUME NEW w \in Workers, PayoutSubmit(w)
      PROVE  MoneyInOrder(p)'
  <2>1. UNCHANGED <<escrow, swaps, rebates, bridge>>
    BY <1>9 DEF PayoutSubmit
  <2>2. Captured(call[w].o) /\ call[w].o \in BankOrders
    BY <1>9, InformedCalls DEF PayoutSubmit, At, Informed, CallKnows
  <2>3. rail'[p] = rail[p] \/ p = call[w].o
    BY <1>9 DEF PayoutSubmit, EvidenceInv, TypeInv, TypeOK
  <2> QED BY <1>1, <2>1, <2>2, <2>3
             DEF MoneyInOrder, FactsKept, Converted, Broadcast
<1>10. ASSUME NEW o \in Orders, NEW k \in PaymentIds, RailSettles(o, k)
       PROVE  MoneyInOrder(p)'
  <2>1. UNCHANGED <<escrow, swaps, rebates, bridge>>
    BY <1>10 DEF RailSettles
  <2>2. Broadcast(p)' => Broadcast(p)
    BY <1>10 DEF RailSettles, Broadcast, EvidenceInv, TypeInv, TypeOK
  <2> QED BY <1>1, <2>1, <2>2 DEF MoneyInOrder, FactsKept, Converted
<1>11. CASE UNCHANGED chain
  BY <1>1, <1>11 DEF MoneyInOrder, Converted, Captured, Broadcast
<1> QED
  <2>1. ASSUME NEW w \in Workers, NEW o \in Orders, Begin(w, o)
        PROVE  UNCHANGED chain
    BY <2>1 DEF Begin, Fund, Release, RetrySettlement, RefreshPayout, Refund,
                Reconcile, MarkFunding, Ship, Expire, HostMove
  <2> QED
    BY <1>2, <1>3, <1>4, <1>5, <1>6, <1>7, <1>8, <1>9, <1>10, <1>11, <2>1
       DEF Next, Continue, Outside, vars, TransitionRead, TransitionWrite,
           Emit, FundRecord, FundReread, ReleaseCaptureRow, SettleSwapRow,
           SettleRebateRow, SettlePayout, PayoutQuote, PayoutSave, PayoutRow,
           PayoutRebateRow, RefreshRead, RefreshStatus, RefreshSave,
           RefreshRow, ReconcileRead, TimePasses, Interrupt

-----------------------------------------------------------------------------
(* What a request knows after it has run.                                  *)

Others(w) == \A v \in Workers : v # w => call'[v] = call[v]

\* The fields of a call after each way of rewriting it.
LEMMA GotoFields ==
  ASSUME TypeInv, NEW w \in Workers, NEW l, Goto(w, l)
  PROVE  /\ Others(w)
         /\ call'[w].at = l
         /\ call'[w].o = call[w].o
         /\ call'[w].pay = call[w].pay
         /\ call'[w].to = call[w].to
         /\ call'[w].then = call[w].then
  BY InFlight DEF Goto, Others, TypeInv, TypeOK, Calls

\* An ended call is idle.
LEMMA EndFields ==
  ASSUME TypeInv, NEW w \in Workers, End(w)
  PROVE  Others(w) /\ call'[w].at = "idle"
  BY DEF End, Others, TypeInv, TypeOK, Idle

\* A call that sets out to move its order knows where.
LEMMA MoveFields ==
  ASSUME TypeInv, NEW w \in Workers, NEW to, NEW l, Move(w, to, l)
  PROVE  /\ Others(w)
         /\ call'[w].at = "transition.read"
         /\ call'[w].o = call[w].o
         /\ call'[w].pay = call[w].pay
         /\ call'[w].to = to
         /\ call'[w].then = l
  BY InFlight DEF Move, Others, TypeInv, TypeOK, Calls

\* A call that takes an instruction in hand holds it.
LEMMA HoldingFields ==
  ASSUME TypeInv, NEW w \in Workers, NEW l, NEW q, Holding(w, l, q)
  PROVE  /\ Others(w)
         /\ call'[w].at = l
         /\ call'[w].o = call[w].o
         /\ call'[w].pay = q
         /\ call'[w].to = call[w].to
         /\ call'[w].then = call[w].then
  BY InFlight DEF Holding, Others, TypeInv, TypeOK, Calls

\* A call that has decided on an outcome remembers it.
LEMMA OutcomeFields ==
  ASSUME TypeInv, NEW w \in Workers, NEW to, NEW l, Outcome(w, to, l)
  PROVE  /\ Others(w)
         /\ call'[w].at = l
         /\ call'[w].o = call[w].o
         /\ call'[w].pay = call[w].pay
         /\ call'[w].to = to
         /\ call'[w].then = call[w].then
  BY InFlight DEF Outcome, Others, TypeInv, TypeOK, Calls

\* A call that starts holds no instruction.
LEMMA StartFields ==
  ASSUME TypeInv, NEW w \in Workers, NEW o, NEW l, Start(w, o, l)
  PROVE  /\ Others(w)
         /\ call'[w].at = l
         /\ call'[w].o = o
         /\ call'[w].pay = NoPayout
  BY InFlight DEF Start, Others, TypeInv, TypeOK, Calls, Idle

\* Neither does one that starts by moving its order.
LEMMA DepartFields ==
  ASSUME TypeInv, NEW w \in Workers, NEW o, NEW to, NEW l,
         Depart(w, o, to, l)
  PROVE  /\ Others(w)
         /\ call'[w].at = "transition.read"
         /\ call'[w].o = o
         /\ call'[w].pay = NoPayout
         /\ call'[w].to = to
         /\ call'[w].then = l
  BY InFlight DEF Depart, Others, TypeInv, TypeOK, Calls, Idle

\* What is kept, of order o and instruction q, by every step.
Kept(o, q) ==
    /\ FactsKept(o)
    /\ Broadcast(o) => Broadcast(o)'
    /\ \A s : Backs(o, s) => Backs(o, s)'
    /\ Trustworthy(o, q)'

\* A request that runs keeps what it knows about its order.
LEMMA RunningKeeps ==
  ASSUME EvidenceInv, [Next]_vars, NEW w \in Workers, ~ At(w, "idle")
  PROVE  \E o \in Orders, q \in Payouts :
           /\ call[w].o = o /\ call[w].pay = q
           /\ CallKnows(call[w])
           /\ Trustworthy(o, q) /\ PointsAtPayment(q)
           /\ Kept(o, q)
<1>1. PICK o \in Orders, q \in Payouts : call[w].o = o /\ call[w].pay = q
  BY InFlight DEF EvidenceInv
<1>2. /\ CallKnows(call[w])
      /\ Trustworthy(o, q) /\ PointsAtPayment(q)
  BY <1>1, InFlight DEF EvidenceInv, CallKnows, At
<1>3. Kept(o, q)
  BY <1>2, FactsStay, BacksStay, TrustStays DEF Kept
<1> QED BY <1>1, <1>2, <1>3

\* An idle call knows nothing, and need not.
LEMMA EndKnows ==
  ASSUME TypeInv, NEW w \in Workers, End(w)
  PROVE  CallKnows(call[w])' /\ Others(w)
  BY EndFields DEF CallKnows

\* Each request knows, after it has run, what its place asks of it.
LEMMA RunsInformed ==
  ASSUME EvidenceInv, [Next]_vars, NEW w \in Workers,
         Continue(w) \/ Interrupt(w)
  PROVE  CallKnows(call[w])' /\ Others(w)
<1> USE DEF At, FactsKept, Kept
<1>1. CASE TransitionRead(w)
  <2>1. PICK o \in Orders, q \in Payouts :
          /\ call[w].o = o /\ call[w].pay = q
          /\ CallKnows(call[w])
          /\ Trustworthy(o, q) /\ PointsAtPayment(q)
          /\ Kept(o, q)
    BY <1>1, RunningKeeps DEF TransitionRead
  <2> QED
    BY <1>1, <2>1, EndKnows, GotoFields
       DEF TransitionRead, CallKnows, InTransition, EvidenceInv, Backs, Events
<1>2. CASE TransitionWrite(w)
  <2>1. PICK o \in Orders, q \in Payouts :
          /\ call[w].o = o /\ call[w].pay = q
          /\ CallKnows(call[w])
          /\ Trustworthy(o, q) /\ PointsAtPayment(q)
          /\ Kept(o, q)
    BY <1>2, RunningKeeps DEF TransitionWrite
  <2>2. CASE End(w)
    BY <2>2, EndKnows DEF EvidenceInv
  <2>3. ASSUME NEW l \in Continuations \ {"idle"}, l = call[w].then,
               Goto(w, l)
        PROVE  CallKnows(call[w])' /\ Others(w)
    <3>1. PICK s : s = call[w].to
      OBVIOUS
    <3>2. /\ call'[w].at = l /\ call'[w].o = o
          /\ call'[w].pay = q /\ call'[w].to = s
          /\ Others(w)
      BY <2>1, <2>3, <3>1, GotoFields DEF EvidenceInv
    <3>3. Backs(o, s) /\ Backs(o, s)'
      BY <1>2, <2>1, <3>1 DEF TransitionWrite, CallKnows, InTransition
    <3>4. /\ l = "emit" => s \in Events
          /\ l = "settle.payout" => s = "released"
          /\ l = "payout.rebate" => s = "payout_pending"
      BY <1>2, <2>1, <2>3, <3>1 DEF TransitionWrite, CallKnows, InTransition
    <3>5. Converted(o) => o \notin BankOrders
      BY DEF EvidenceInv, MoneyInOrder
    <3>6. Trustworthy(o, q)'
      BY <2>1
    <3> QED
      BY <3>2, <3>3, <3>4, <3>5, <3>6
         DEF CallKnows, InTransition, Continuations, Backs
  <2>4. call[w].then \in Continuations
    BY InFlight DEF EvidenceInv
  <2> QED
    BY <1>2, <2>2, <2>3, <2>4 DEF TransitionWrite
<1>3. CASE Emit(w)
  <2>1. PICK o \in Orders, q \in Payouts :
          /\ call[w].o = o /\ call[w].pay = q
          /\ CallKnows(call[w])
          /\ Trustworthy(o, q) /\ PointsAtPayment(q)
          /\ Kept(o, q)
    BY <1>3, RunningKeeps DEF Emit
  <2> QED
    BY <1>3, <2>1, EndKnows
       DEF Emit, CallKnows, InTransition, EvidenceInv, Backs, Events
<1>4. CASE FundExecute(w)
  <2>1. PICK o \in Orders, q \in Payouts :
          /\ call[w].o = o /\ call[w].pay = q
          /\ CallKnows(call[w])
          /\ Trustworthy(o, q) /\ PointsAtPayment(q)
          /\ Kept(o, q)
    BY <1>4, RunningKeeps DEF FundExecute
  <2>2. escrow'[o] = "authorized" => Collected(o)'
    BY <2>1
       DEF Collected
  <2>3. CASE End(w)
    BY <2>3, EndKnows DEF EvidenceInv
  <2>4. CASE Goto(w, "fund.record") /\ escrow'[o] = "authorized"
    BY <1>4, <2>1, <2>2, <2>4, GotoFields
       DEF FundExecute, At, CallKnows, InTransition, EvidenceInv, Backs,
           Events, Continuations
  <2>5. CASE Goto(w, "fund.reread") /\ Collected(o)
    BY <1>4, <2>1, <2>5, GotoFields
       DEF FundExecute, At, CallKnows, InTransition, EvidenceInv, Backs,
           Events, Continuations
  <2> QED
    BY <1>4, <2>1, <2>3, <2>4, <2>5
       DEF FundExecute, AlreadyCollected, Collected, EvidenceInv, TypeInv,
           TypeOK
<1>5. CASE FundRecord(w)
  <2>1. PICK o \in Orders, q \in Payouts :
          /\ call[w].o = o /\ call[w].pay = q
          /\ CallKnows(call[w])
          /\ Trustworthy(o, q) /\ PointsAtPayment(q)
          /\ Kept(o, q)
    BY <1>5, RunningKeeps DEF FundRecord
  <2> QED
    BY <1>5, <2>1, GotoFields
       DEF FundRecord, CallKnows, InTransition, EvidenceInv, Backs, Events
<1>6. CASE FundReread(w)
  <2>1. PICK o \in Orders, q \in Payouts :
          /\ call[w].o = o /\ call[w].pay = q
          /\ CallKnows(call[w])
          /\ Trustworthy(o, q) /\ PointsAtPayment(q)
          /\ Kept(o, q)
    BY <1>6, RunningKeeps DEF FundReread
  <2> QED
    BY <1>6, <2>1, EndKnows, MoveFields
       DEF FundReread, CallKnows, InTransition, EvidenceInv, Backs, Events
<1>7. CASE ReleaseCapture(w)
  <2>1. PICK o \in Orders, q \in Payouts :
          /\ call[w].o = o /\ call[w].pay = q
          /\ CallKnows(call[w])
          /\ Trustworthy(o, q) /\ PointsAtPayment(q)
          /\ Kept(o, q)
    BY <1>7, RunningKeeps DEF ReleaseCapture
  <2>2. escrow'[o] = "captured" => Captured(o)'
    BY <2>1
       DEF Captured
  <2>3. CASE End(w)
    BY <2>3, EndKnows DEF EvidenceInv
  <2>4. CASE Goto(w, "release.captureRow") /\ escrow'[o] = "captured"
             /\ o \in BankOrders
    BY <1>7, <2>1, <2>2, <2>4, GotoFields
       DEF ReleaseCapture, At, CallKnows, InTransition, EvidenceInv, Backs,
           Events, Continuations
  <2>5. CASE Goto(w, "release.swap") /\ escrow'[o] = "captured"
             /\ o \notin BankOrders
    BY <1>7, <2>1, <2>2, <2>5, GotoFields
       DEF ReleaseCapture, At, CallKnows, InTransition, EvidenceInv, Backs,
           Events, Continuations
  <2> QED
    BY <1>7, <2>1, <2>3, <2>4, <2>5
       DEF ReleaseCapture, CaptureReverts, EvidenceInv, TypeInv, TypeOK
<1>8. CASE ReleaseSwap(w)
  <2>1. PICK o \in Orders, q \in Payouts :
          /\ call[w].o = o /\ call[w].pay = q
          /\ CallKnows(call[w])
          /\ Trustworthy(o, q) /\ PointsAtPayment(q)
          /\ Kept(o, q)
    BY <1>8, RunningKeeps DEF ReleaseSwap
  <2>2. swaps' = [swaps EXCEPT ![o] = @ + 1] => Converted(o)'
    BY <2>1
       DEF Converted, EvidenceInv, TypeInv, TypeOK
  <2>3. CASE End(w)
    BY <2>3, EndKnows DEF EvidenceInv
  <2>4. CASE Outcome(w, "released", "release.captureRow")
             /\ swaps' = [swaps EXCEPT ![o] = @ + 1]
    BY <1>8, <2>1, <2>2, <2>4, OutcomeFields
       DEF ReleaseSwap, At, CallKnows, InTransition, EvidenceInv, Backs,
           Events, Continuations
  <2>5. CASE Outcome(w, "settlement_pending", "release.captureRow")
    BY <1>8, <2>1, <2>5, OutcomeFields
       DEF ReleaseSwap, At, CallKnows, InTransition, EvidenceInv, Backs,
           Events, Continuations
  <2> QED
    BY <1>8, <2>1, <2>3, <2>4, <2>5
       DEF ReleaseSwap, Swap, SwapFails
<1>9. CASE ReleaseCaptureRow(w)
  <2>1. PICK o \in Orders, q \in Payouts :
          /\ call[w].o = o /\ call[w].pay = q
          /\ CallKnows(call[w])
          /\ Trustworthy(o, q) /\ PointsAtPayment(q)
          /\ Kept(o, q)
    BY <1>9, RunningKeeps DEF ReleaseCaptureRow
  <2> QED
    BY <1>9, <2>1, GotoFields, MoveFields
       DEF ReleaseCaptureRow, CallKnows, InTransition, EvidenceInv, Backs,
           Events
<1>10. CASE SettleSwapRow(w)
  <2>1. PICK o \in Orders, q \in Payouts :
          /\ call[w].o = o /\ call[w].pay = q
          /\ CallKnows(call[w])
          /\ Trustworthy(o, q) /\ PointsAtPayment(q)
          /\ Kept(o, q)
    BY <1>10, RunningKeeps DEF SettleSwapRow
  <2> QED
    BY <1>10, <2>1, GotoFields
       DEF SettleSwapRow, CallKnows, InTransition, EvidenceInv, Backs, Events
<1>11. CASE SettleRebate(w)
  <2>1. PICK o \in Orders, q \in Payouts :
          /\ call[w].o = o /\ call[w].pay = q
          /\ CallKnows(call[w])
          /\ Trustworthy(o, q) /\ PointsAtPayment(q)
          /\ Kept(o, q)
    BY <1>11, RunningKeeps DEF SettleRebate
  <2>2. rebates' = [rebates EXCEPT ![o] = @ \cup {"paid"}] =>
          "paid" \in rebates'[o]
    BY <2>1
       DEF EvidenceInv, TypeInv, TypeOK
  <2>3. CASE End(w)
    BY <2>3, EndKnows DEF EvidenceInv
  <2>4. CASE Goto(w, "settle.rebateRow")
             /\ rebates' = [rebates EXCEPT ![o] = @ \cup {"paid"}]
    BY <1>11, <2>1, <2>2, <2>4, GotoFields
       DEF SettleRebate, At, CallKnows, InTransition, EvidenceInv, Backs,
           Events, Continuations
  <2>5. CASE Move(w, "released", "settle.payout")
    BY <1>11, <2>1, <2>5, MoveFields
       DEF SettleRebate, At, CallKnows, InTransition, EvidenceInv, Backs,
           Events, Continuations
  <2> QED
    BY <1>11, <2>1, <2>3, <2>4, <2>5
       DEF SettleRebate, PayRebate
<1>12. CASE SettleRebateRow(w)
  <2>1. PICK o \in Orders, q \in Payouts :
          /\ call[w].o = o /\ call[w].pay = q
          /\ CallKnows(call[w])
          /\ Trustworthy(o, q) /\ PointsAtPayment(q)
          /\ Kept(o, q)
    BY <1>12, RunningKeeps DEF SettleRebateRow
  <2> QED
    BY <1>12, <2>1, MoveFields
       DEF SettleRebateRow, CallKnows, InTransition, EvidenceInv, Backs,
           Events
<1>13. CASE SettlePayout(w)
  <2>1. PICK o \in Orders, q \in Payouts :
          /\ call[w].o = o /\ call[w].pay = q
          /\ CallKnows(call[w])
          /\ Trustworthy(o, q) /\ PointsAtPayment(q)
          /\ Kept(o, q)
    BY <1>13, RunningKeeps DEF SettlePayout
  <2> QED
    BY <1>13, <2>1, GotoFields
       DEF SettlePayout, CallKnows, InTransition, EvidenceInv, Backs, Events
<1>14. CASE PayoutQuote(w)
  <2>1. PICK o \in Orders, q \in Payouts :
          /\ call[w].o = o /\ call[w].pay = q
          /\ CallKnows(call[w])
          /\ Trustworthy(o, q) /\ PointsAtPayment(q)
          /\ Kept(o, q)
    BY <1>14, RunningKeeps DEF PayoutQuote
  <2> QED
    BY <1>14, <2>1, EndKnows, GotoFields, MoveFields
       DEF PayoutQuote, CallKnows, InTransition, EvidenceInv, Backs, Events,
           Stall
<1>15. CASE PayoutSubmit(w)
  <2>1. PICK o \in Orders, q \in Payouts :
          /\ call[w].o = o /\ call[w].pay = q
          /\ CallKnows(call[w])
          /\ Trustworthy(o, q) /\ PointsAtPayment(q)
          /\ Kept(o, q)
    BY <1>15, RunningKeeps DEF PayoutSubmit
  <2>2. CASE End(w)
    BY <2>2, EndKnows DEF EvidenceInv
  <2>3. ASSUME NEW k \in PaymentIds, rail' = [rail EXCEPT ![o][k] = "pending"],
               Holding(w, "payout.save", livePayout(k))
        PROVE  CallKnows(call[w])' /\ Others(w)
    <3>1. rail'[o][k] = "pending"
      BY <2>3 DEF EvidenceInv, TypeInv, TypeOK
    <3>2. /\ call'[w].at = "payout.save" /\ call'[w].o = o
          /\ call'[w].pay = livePayout(k)
          /\ Others(w)
      BY <2>1, <2>3, HoldingFields DEF EvidenceInv
    <3>3. Trustworthy(o, livePayout(k))'
      BY <3>1 DEF Trustworthy, livePayout, RailTerminal
    <3>4. Broadcast(o)'
      BY <3>1 DEF Broadcast
    <3>5. Captured(o)'
      BY <1>15, <2>1 DEF PayoutSubmit, CallKnows
    <3> QED
      BY <3>2, <3>3, <3>4, <3>5 DEF CallKnows, InTransition, livePayout
  <2> QED
    BY <1>15, <2>1, <2>2, <2>3 DEF PayoutSubmit
<1>16. CASE PayoutSave(w)
  <2>1. PICK o \in Orders, q \in Payouts :
          /\ call[w].o = o /\ call[w].pay = q
          /\ CallKnows(call[w])
          /\ Trustworthy(o, q) /\ PointsAtPayment(q)
          /\ Kept(o, q)
    BY <1>16, RunningKeeps DEF PayoutSave
  <2> QED
    BY <1>16, <2>1, GotoFields
       DEF PayoutSave, CallKnows, InTransition, EvidenceInv, Backs, Events
<1>17. CASE PayoutRow(w)
  <2>1. PICK o \in Orders, q \in Payouts :
          /\ call[w].o = o /\ call[w].pay = q
          /\ CallKnows(call[w])
          /\ Trustworthy(o, q) /\ PointsAtPayment(q)
          /\ Kept(o, q)
    BY <1>17, RunningKeeps DEF PayoutRow
  <2> QED
    BY <1>17, <2>1, MoveFields
       DEF PayoutRow, CallKnows, InTransition, EvidenceInv, Backs, Events
<1>18. CASE PayoutRebate(w)
  <2>1. PICK o \in Orders, q \in Payouts :
          /\ call[w].o = o /\ call[w].pay = q
          /\ CallKnows(call[w])
          /\ Trustworthy(o, q) /\ PointsAtPayment(q)
          /\ Kept(o, q)
    BY <1>18, RunningKeeps DEF PayoutRebate
  <2>2. rebates' = [rebates EXCEPT ![o] = @ \cup {"paid"}] =>
          "paid" \in rebates'[o]
    BY <2>1
       DEF EvidenceInv, TypeInv, TypeOK
  <2>3. CASE End(w)
    BY <2>3, EndKnows DEF EvidenceInv
  <2>4. CASE Goto(w, "payout.rebateRow")
             /\ rebates' = [rebates EXCEPT ![o] = @ \cup {"paid"}]
    BY <1>18, <2>1, <2>2, <2>4, GotoFields
       DEF PayoutRebate, At, CallKnows, InTransition, EvidenceInv, Backs,
           Events, Continuations
  <2>5. CASE Goto(w, "emit")
    BY <1>18, <2>1, <2>5, GotoFields
       DEF PayoutRebate, At, CallKnows, InTransition, EvidenceInv, Backs,
           Events, Continuations
  <2> QED
    BY <1>18, <2>1, <2>3, <2>4, <2>5
       DEF PayoutRebate, PayRebate
<1>19. CASE PayoutRebateRow(w)
  <2>1. PICK o \in Orders, q \in Payouts :
          /\ call[w].o = o /\ call[w].pay = q
          /\ CallKnows(call[w])
          /\ Trustworthy(o, q) /\ PointsAtPayment(q)
          /\ Kept(o, q)
    BY <1>19, RunningKeeps DEF PayoutRebateRow
  <2> QED
    BY <1>19, <2>1, GotoFields
       DEF PayoutRebateRow, CallKnows, InTransition, EvidenceInv, Backs,
           Events
<1>20. CASE RetrySwap(w)
  <2>1. PICK o \in Orders, q \in Payouts :
          /\ call[w].o = o /\ call[w].pay = q
          /\ CallKnows(call[w])
          /\ Trustworthy(o, q) /\ PointsAtPayment(q)
          /\ Kept(o, q)
    BY <1>20, RunningKeeps DEF RetrySwap
  <2>2. swaps' = [swaps EXCEPT ![o] = @ + 1] => Converted(o)'
    BY <2>1
       DEF Converted, EvidenceInv, TypeInv, TypeOK
  <2>3. CASE End(w)
    BY <2>3, EndKnows DEF EvidenceInv
  <2>4. CASE Outcome(w, "released", "settle.swapRow")
             /\ swaps' = [swaps EXCEPT ![o] = @ + 1]
    BY <1>20, <2>1, <2>2, <2>4, OutcomeFields
       DEF RetrySwap, At, CallKnows, InTransition, EvidenceInv, Backs, Events,
           Continuations
  <2> QED
    BY <1>20, <2>1, <2>3, <2>4
       DEF RetrySwap, Swap
<1>21. CASE RefreshRead(w)
  <2>1. PICK o \in Orders, q \in Payouts :
          /\ call[w].o = o /\ call[w].pay = q
          /\ CallKnows(call[w])
          /\ Trustworthy(o, q) /\ PointsAtPayment(q)
          /\ Kept(o, q)
    BY <1>21, RunningKeeps DEF RefreshRead
  <2>2. PICK r : r = payout[o]
    OBVIOUS
  <2>3. Trustworthy(o, r)'
    BY <2>2, TrustStays DEF EvidenceInv, TypeInv, RecordBacked
  <2>4. CASE End(w)
    BY <2>4, EndKnows DEF EvidenceInv
  <2>5. CASE Holding(w, "refresh.status", r) /\ r.kind = "live"
    BY <2>1, <2>3, <2>5, HoldingFields
       DEF CallKnows, InTransition, EvidenceInv
  <2> QED
    BY <1>21, <2>1, <2>2, <2>4, <2>5 DEF RefreshRead
<1>22. CASE RefreshStatus(w)
  <2>1. PICK o \in Orders, q \in Payouts :
          /\ call[w].o = o /\ call[w].pay = q
          /\ CallKnows(call[w])
          /\ Trustworthy(o, q) /\ PointsAtPayment(q)
          /\ Kept(o, q)
    BY <1>22, RunningKeeps DEF RefreshStatus
  <2>2. CASE End(w)
    BY <2>2, EndKnows DEF EvidenceInv
  <2>3. ASSUME NEW hash \in BOOLEAN,
               Holding(w, "refresh.save",
                       [q EXCEPT !.status = rail[o][q.id],
                                 !.hash = @ \/ hash])
        PROVE  CallKnows(call[w])' /\ Others(w)
    <3>0. PICK r : r = [q EXCEPT !.status = rail[o][q.id],
                                 !.hash = @ \/ hash]
      OBVIOUS
    <3>1. /\ q.kind = "live" /\ rail' = rail
          /\ r.kind = "live" /\ r.id = q.id /\ r.status = rail[o][q.id]
      BY <1>22, <2>1, <3>0 DEF RefreshStatus, CallKnows, Payouts, At
    <3>2. /\ call'[w].at = "refresh.save" /\ call'[w].o = o
          /\ call'[w].pay = r
          /\ Others(w)
      BY <2>1, <2>3, <3>0, HoldingFields DEF EvidenceInv
    <3>3. Trustworthy(o, r)'
      BY <2>1, <3>1 DEF Trustworthy
    <3> QED
      BY <3>1, <3>2, <3>3 DEF CallKnows, InTransition
  <2> QED
    BY <1>22, <2>1, <2>2, <2>3 DEF RefreshStatus
<1>23. CASE RefreshSave(w)
  <2>1. PICK o \in Orders, q \in Payouts :
          /\ call[w].o = o /\ call[w].pay = q
          /\ CallKnows(call[w])
          /\ Trustworthy(o, q) /\ PointsAtPayment(q)
          /\ Kept(o, q)
    BY <1>23, RunningKeeps DEF RefreshSave
  <2> QED
    BY <1>23, <2>1, GotoFields
       DEF RefreshSave, CallKnows, InTransition, EvidenceInv, Backs, Events
<1>24. CASE RefreshRow(w)
  <2>1. PICK o \in Orders, q \in Payouts :
          /\ call[w].o = o /\ call[w].pay = q
          /\ CallKnows(call[w])
          /\ Trustworthy(o, q) /\ PointsAtPayment(q)
          /\ Kept(o, q)
    BY <1>24, RunningKeeps DEF RefreshRow
  <2>2. /\ q.kind = "live" /\ Captured(o)
        /\ q.status = "delivered" => Delivered(o)'
    BY <2>1, <1>24
       DEF CallKnows, Trustworthy, PointsAtPayment, RailTerminal, Delivered,
           Broadcast, EvidenceInv, MoneyInOrder, FactsKept, Kept, RefreshRow,
           At
  <2>3. CASE End(w)
    BY <2>3, EndKnows DEF EvidenceInv
  <2>4. CASE Move(w, "paid_out", "emit") /\ q.status = "delivered"
    BY <1>24, <2>1, <2>2, <2>4, MoveFields
       DEF RefreshRow, At, CallKnows, InTransition, EvidenceInv, Backs,
           Events, Continuations
  <2>5. CASE Move(w, "settlement_pending", "idle") /\ q.status = "failed"
    BY <1>24, <2>1, <2>2, <2>5, MoveFields
       DEF RefreshRow, At, CallKnows, InTransition, EvidenceInv, Backs,
           Events, Continuations
  <2> QED
    BY <1>24, <2>1, <2>3, <2>4, <2>5
       DEF RefreshRow, RailTerminal, PaysOut, Falls
<1>25. CASE RefundEscrow(w)
  <2>1. PICK o \in Orders, q \in Payouts :
          /\ call[w].o = o /\ call[w].pay = q
          /\ CallKnows(call[w])
          /\ Trustworthy(o, q) /\ PointsAtPayment(q)
          /\ Kept(o, q)
    BY <1>25, RunningKeeps DEF RefundEscrow
  <2>2. escrow' = [escrow EXCEPT ![o] = "voided"] \/
        escrow' = [escrow EXCEPT ![o] = "refunded"]
          => escrow'[o] \in {"voided", "refunded"}
    BY <2>1
       DEF EvidenceInv, TypeInv, TypeOK
  <2>3. CASE End(w)
    BY <2>3, EndKnows DEF EvidenceInv
  <2>4. CASE Goto(w, "refund.bridge") /\ o \in BridgedOrders
    BY <1>25, <2>1, <2>4, GotoFields
       DEF RefundEscrow, At, CallKnows, InTransition, EvidenceInv, Backs,
           Events, Continuations
  <2>5. CASE Move(w, "refunded", "emit") /\ o \notin BridgedOrders
             /\ escrow'[o] \in {"voided", "refunded"}
    BY <1>25, <2>1, <2>5, MoveFields
       DEF RefundEscrow, At, CallKnows, InTransition, EvidenceInv, Backs,
           Events, Continuations, Returned
  <2> QED
    BY <1>25, <2>1, <2>2, <2>3, <2>4, <2>5
       DEF RefundEscrow
<1>26. CASE RefundBridge(w)
  <2>1. PICK o \in Orders, q \in Payouts :
          /\ call[w].o = o /\ call[w].pay = q
          /\ CallKnows(call[w])
          /\ Trustworthy(o, q) /\ PointsAtPayment(q)
          /\ Kept(o, q)
    BY <1>26, RunningKeeps DEF RefundBridge
  <2>2. bridge' = [bridge EXCEPT ![o] = "arrived"] =>
          (o \in BridgedOrders => Returned(o)')
    BY <2>1
       DEF Returned, EvidenceInv, TypeInv, TypeOK
  <2>3. CASE End(w)
    BY <2>3, EndKnows DEF EvidenceInv
  <2>4. CASE Move(w, "refunded", "emit")
             /\ bridge' = [bridge EXCEPT ![o] = "arrived"]
    BY <1>26, <2>1, <2>2, <2>4, MoveFields
       DEF RefundBridge, At, CallKnows, InTransition, EvidenceInv, Backs,
           Events, Continuations
  <2> QED
    BY <1>26, <2>1, <2>3, <2>4
       DEF RefundBridge
<1>27. CASE ReconcileRead(w)
  <2>1. PICK o \in Orders, q \in Payouts :
          /\ call[w].o = o /\ call[w].pay = q
          /\ CallKnows(call[w])
          /\ Trustworthy(o, q) /\ PointsAtPayment(q)
          /\ Kept(o, q)
    BY <1>27, RunningKeeps DEF ReconcileRead
  <2>2. CASE End(w)
    BY <2>2, EndKnows DEF EvidenceInv
  <2>3. CASE Move(w, "funded", "idle") /\ Collected(o)
    BY <1>27, <2>1, <2>3, MoveFields
       DEF ReconcileRead, At, CallKnows, InTransition, EvidenceInv, Backs,
           Events, Continuations
  <2> QED
    BY <1>27, <2>1, <2>2, <2>3
       DEF ReconcileRead, HoldsAuthorized, Collected
<1>28. CASE Interrupt(w)
  BY <1>28, EndKnows DEF Interrupt, EvidenceInv
<1> QED
  BY <1>1, <1>2, <1>3, <1>4, <1>5, <1>6, <1>7, <1>8, <1>9, <1>10, <1>11,
     <1>12, <1>13, <1>14, <1>15, <1>16, <1>17, <1>18, <1>19, <1>20, <1>21,
     <1>22, <1>23, <1>24, <1>25, <1>26, <1>27, <1>28
     DEF Continue

\* A request that begins knows what the state of its order told it.
LEMMA BeginsInformed ==
  ASSUME EvidenceInv, [Next]_vars, NEW w \in Workers, NEW o \in Orders,
         Begin(w, o)
  PROVE  /\ CallKnows(call[w])'
         /\ Others(w)
         /\ call'[w].at # "refund.bridge"
<1>1. /\ state[o] \in {"funded", "shipped"} => Collected(o)'
      /\ state[o] = "settlement_pending" => Captured(o)'
  BY FactsStay DEF EvidenceInv, RecordBacked, Backs, FactsKept
<1>2. Trustworthy(o, NoPayout)'
  BY DEF Trustworthy, NoPayout
<1>3. ASSUME NEW l \in {"fund.execute", "release.capture", "refresh.read",
                        "reconcile.read"},
             Start(w, o, l)
      PROVE  /\ CallKnows(call[w])'
             /\ Others(w)
             /\ call'[w].at # "refund.bridge"
  BY <1>2, <1>3, StartFields DEF CallKnows, InTransition, EvidenceInv
<1>4. ASSUME NEW to \in ORDER_STATES,
             NEW l \in {"fund.execute", "refund.escrow", "idle"},
             Depart(w, o, to, l),
             to \in {"funding_pending", "refund_pending", "failed"} \/
               (to = "shipped" /\ Collected(o)')
      PROVE  /\ CallKnows(call[w])'
             /\ Others(w)
             /\ call'[w].at # "refund.bridge"
  BY <1>2, <1>4, DepartFields DEF CallKnows, InTransition, Backs, EvidenceInv
<1>5. CASE Fund(w, o)
  BY <1>3, <1>4, <1>5 DEF Fund, ORDER_STATES
<1>6. CASE Release(w, o)
  BY <1>3, <1>6 DEF Release
<1>7. CASE RetrySettlement(w, o)
  BY <1>1, <1>2, <1>7, StartFields
     DEF RetrySettlement, Retryable, RetryRoad, CallKnows, InTransition,
         EvidenceInv
<1>8. CASE RefreshPayout(w, o)
  BY <1>3, <1>8 DEF RefreshPayout
<1>9. CASE Refund(w, o)
  BY <1>4, <1>9 DEF Refund, ORDER_STATES
<1>10. CASE Reconcile(w, o)
  BY <1>3, <1>10 DEF Reconcile
<1>11. CASE MarkFunding(w, o)
  BY <1>4, <1>11 DEF MarkFunding, HostMove, ORDER_STATES
<1>12. CASE Ship(w, o)
  BY <1>1, <1>4, <1>12 DEF Ship, HostMove, ORDER_STATES
<1>13. CASE Expire(w, o)
  BY <1>4, <1>13 DEF Expire, HostMove, ORDER_STATES
<1> QED
  BY <1>5, <1>6, <1>7, <1>8, <1>9, <1>10, <1>11, <1>12, <1>13 DEF Begin

\* Whoever runs, every request knows what its place asks of it.
LEMMA KnowledgeKept ==
  ASSUME EvidenceInv, [Next]_vars, NEW v \in Workers
  PROVE  CallKnows(call[v])'
<1>1. ASSUME NEW w \in Workers, CallKnows(call[w])', Others(w)
      PROVE  CallKnows(call[v])'
  BY <1>1, KnowledgeStays DEF Others
<1>2. ASSUME NEW o \in Orders, Outside(o)
      PROVE  UNCHANGED call
  BY <1>2 DEF Outside, TimePasses, Reclaim, RailSettles
<1>3. CASE UNCHANGED call
  BY <1>3, KnowledgeStays
<1> QED
  BY <1>1, <1>2, <1>3, RunsInformed, BeginsInformed DEF Next, vars


\* What the escrow has let go of stays so.
LEMMA ReleasedStays ==
  ASSUME EvidenceInv, [Next]_vars, NEW o \in Orders,
         escrow[o] \in {"voided", "refunded"}
  PROVE  escrow'[o] = escrow[o]
<1> USE DEF EvidenceInv, TypeInv, TypeOK
<1>1. ASSUME NEW w \in Workers, FundExecute(w)
      PROVE  escrow'[o] = escrow[o]
  BY <1>1 DEF FundExecute
<1>2. ASSUME NEW w \in Workers, ReleaseCapture(w)
      PROVE  escrow'[o] = escrow[o]
  BY <1>2 DEF ReleaseCapture
<1>3. ASSUME NEW w \in Workers, RefundEscrow(w)
      PROVE  escrow'[o] = escrow[o]
  BY <1>3 DEF RefundEscrow
<1>4. ASSUME NEW p \in Orders, Reclaim(p)
      PROVE  escrow'[o] = escrow[o]
  BY <1>4 DEF Reclaim
<1>5. CASE UNCHANGED escrow
  BY <1>5
<1> QED
  <2>1. ASSUME NEW w \in Workers, NEW p \in Orders, Begin(w, p)
        PROVE  UNCHANGED escrow
    BY <2>1 DEF Begin, Fund, Release, RetrySettlement, RefreshPayout, Refund,
                Reconcile, MarkFunding, Ship, Expire, HostMove
  <2> QED
    BY ZenonT(60), <1>1, <1>2, <1>3, <1>4, <1>5, <2>1
       DEF Next, Continue, Outside, vars, TransitionRead, TransitionWrite,
           Emit, FundRecord, FundReread, ReleaseSwap, ReleaseCaptureRow,
           SettleSwapRow, SettleRebate, SettleRebateRow, SettlePayout,
           PayoutQuote, PayoutSubmit, PayoutSave, PayoutRow, PayoutRebate,
           PayoutRebateRow, RetrySwap, RefreshRead, RefreshStatus,
           RefreshSave, RefreshRow, RefundBridge, ReconcileRead, TimePasses,
           RailSettles, Interrupt

\* A step that brings no call to the bridge, and leaves the bridges of the
\* calls that are there alone, keeps them alone.
LEMMA AwayFromBridge ==
  ASSUME EvidenceInv, [Next]_vars, NEW w \in Workers, Others(w),
         call'[w].at # "refund.bridge",
         \A o \in Orders :
           bridge'[o] = bridge[o] \/ (At(w, "refund.bridge") /\ call[w].o = o)
  PROVE  BridgedAlone'
<1> SUFFICES ASSUME NEW v \in Workers, At(v, "refund.bridge")'
             PROVE  /\ escrow'[call'[v].o] \in {"voided", "refunded"}
                    /\ bridge'[call'[v].o] = "idle"
                    /\ \A u \in Workers :
                         At(u, "refund.bridge")' /\ call'[u].o = call'[v].o
                           => u = v
  BY DEF BridgedAlone
<1>1. v # w /\ call'[v] = call[v] /\ At(v, "refund.bridge")
  BY DEF At, Others
<1>2. /\ escrow[call[v].o] \in {"voided", "refunded"}
      /\ bridge[call[v].o] = "idle"
      /\ \A u \in Workers :
           At(u, "refund.bridge") /\ call[u].o = call[v].o => u = v
  BY <1>1 DEF EvidenceInv, BridgedAlone
<1>3. call[v].o \in Orders
  BY <1>1, InFlight DEF EvidenceInv, At
<1>4. escrow'[call[v].o] = escrow[call[v].o]
  BY <1>2, <1>3, ReleasedStays
<1>5. bridge'[call[v].o] = bridge[call[v].o]
  BY <1>1, <1>2, <1>3
<1> QED
  BY <1>1, <1>2, <1>4, <1>5 DEF At, Others

\* A refund is carried over the bridge by one call.
LEMMA BridgedAloneKept ==
  ASSUME EvidenceInv, [Next]_vars
  PROVE  BridgedAlone'
<1>1. ASSUME NEW w \in Workers, Others(w), call'[w].at # "refund.bridge",
             bridge' = bridge
      PROVE  BridgedAlone'
  BY <1>1, AwayFromBridge
<1>2. ASSUME NEW w \in Workers, End(w), bridge' = bridge
      PROVE  BridgedAlone'
  BY <1>1, <1>2, EndFields DEF EvidenceInv
<1>3. ASSUME NEW w \in Workers, TransitionRead(w)
      PROVE  BridgedAlone'
  BY <1>1, <1>2, <1>3, GotoFields
     DEF TransitionRead, EvidenceInv
<1>4. ASSUME NEW w \in Workers, TransitionWrite(w)
      PROVE  BridgedAlone'
  BY <1>1, <1>2, <1>4, InFlight, GotoFields
     DEF TransitionWrite, EvidenceInv, Continuations
<1>5. ASSUME NEW w \in Workers, Emit(w)
      PROVE  BridgedAlone'
  BY <1>1, <1>2, <1>5
     DEF Emit, EvidenceInv
<1>6. ASSUME NEW w \in Workers, FundExecute(w)
      PROVE  BridgedAlone'
  BY <1>1, <1>2, <1>6, GotoFields
     DEF FundExecute, EvidenceInv
<1>7. ASSUME NEW w \in Workers, FundRecord(w)
      PROVE  BridgedAlone'
  BY <1>1, <1>7, GotoFields
     DEF FundRecord, EvidenceInv
<1>8. ASSUME NEW w \in Workers, FundReread(w)
      PROVE  BridgedAlone'
  BY <1>1, <1>2, <1>8, MoveFields
     DEF FundReread, EvidenceInv
<1>9. ASSUME NEW w \in Workers, ReleaseCapture(w)
      PROVE  BridgedAlone'
  BY <1>1, <1>2, <1>9, GotoFields
     DEF ReleaseCapture, EvidenceInv, CaptureReverts
<1>10. ASSUME NEW w \in Workers, ReleaseSwap(w)
      PROVE  BridgedAlone'
  BY <1>1, <1>10, OutcomeFields
     DEF ReleaseSwap, EvidenceInv, Swap, SwapFails
<1>11. ASSUME NEW w \in Workers, ReleaseCaptureRow(w)
      PROVE  BridgedAlone'
  BY <1>1, <1>11, GotoFields, MoveFields
     DEF ReleaseCaptureRow, EvidenceInv
<1>12. ASSUME NEW w \in Workers, SettleSwapRow(w)
      PROVE  BridgedAlone'
  BY <1>1, <1>12, GotoFields
     DEF SettleSwapRow, EvidenceInv
<1>13. ASSUME NEW w \in Workers, SettleRebate(w)
      PROVE  BridgedAlone'
  BY <1>1, <1>2, <1>13, GotoFields, MoveFields
     DEF SettleRebate, EvidenceInv, PayRebate
<1>14. ASSUME NEW w \in Workers, SettleRebateRow(w)
      PROVE  BridgedAlone'
  BY <1>1, <1>14, MoveFields
     DEF SettleRebateRow, EvidenceInv
<1>15. ASSUME NEW w \in Workers, SettlePayout(w)
      PROVE  BridgedAlone'
  BY <1>1, <1>15, GotoFields
     DEF SettlePayout, EvidenceInv
<1>16. ASSUME NEW w \in Workers, PayoutQuote(w)
      PROVE  BridgedAlone'
  BY <1>1, <1>2, <1>16, GotoFields, MoveFields
     DEF PayoutQuote, EvidenceInv, Stall
<1>17. ASSUME NEW w \in Workers, PayoutSubmit(w)
      PROVE  BridgedAlone'
  <2>1. bridge' = bridge
    BY <1>17 DEF PayoutSubmit
  <2>2. End(w) \/ \E k \in PaymentIds :
                    Holding(w, "payout.save", livePayout(k))
    BY <1>17 DEF PayoutSubmit
  <2>3. ASSUME NEW k \in PaymentIds,
               Holding(w, "payout.save", livePayout(k))
        PROVE  BridgedAlone'
    <3>1. Others(w) /\ call'[w].at = "payout.save"
      BY <2>3, HoldingFields DEF EvidenceInv
    <3> QED BY <1>1, <2>1, <3>1
  <2> QED BY <1>2, <2>1, <2>2, <2>3
<1>18. ASSUME NEW w \in Workers, PayoutSave(w)
      PROVE  BridgedAlone'
  BY <1>1, <1>18, GotoFields
     DEF PayoutSave, EvidenceInv
<1>19. ASSUME NEW w \in Workers, PayoutRow(w)
      PROVE  BridgedAlone'
  BY <1>1, <1>19, MoveFields
     DEF PayoutRow, EvidenceInv
<1>20. ASSUME NEW w \in Workers, PayoutRebate(w)
      PROVE  BridgedAlone'
  BY <1>1, <1>2, <1>20, GotoFields
     DEF PayoutRebate, EvidenceInv, PayRebate
<1>21. ASSUME NEW w \in Workers, PayoutRebateRow(w)
      PROVE  BridgedAlone'
  BY <1>1, <1>21, GotoFields
     DEF PayoutRebateRow, EvidenceInv
<1>22. ASSUME NEW w \in Workers, RetrySwap(w)
      PROVE  BridgedAlone'
  BY <1>1, <1>2, <1>22, OutcomeFields
     DEF RetrySwap, EvidenceInv, Swap
<1>23. ASSUME NEW w \in Workers, RefreshRead(w)
      PROVE  BridgedAlone'
  BY <1>1, <1>2, <1>23, HoldingFields
     DEF RefreshRead, EvidenceInv
<1>24. ASSUME NEW w \in Workers, RefreshStatus(w)
      PROVE  BridgedAlone'
  BY <1>1, <1>2, <1>24, HoldingFields
     DEF RefreshStatus, EvidenceInv
<1>25. ASSUME NEW w \in Workers, RefreshSave(w)
      PROVE  BridgedAlone'
  BY <1>1, <1>25, GotoFields
     DEF RefreshSave, EvidenceInv
<1>26. ASSUME NEW w \in Workers, RefreshRow(w)
      PROVE  BridgedAlone'
  BY <1>1, <1>2, <1>26, MoveFields
     DEF RefreshRow, EvidenceInv
<1>27. ASSUME NEW w \in Workers, RefundEscrow(w)
      PROVE  BridgedAlone'
  <2>1. PICK o \in Orders : o = call[w].o
    BY <1>27, InFlight DEF RefundEscrow, At, EvidenceInv
  <2>2. CASE End(w)
    BY <1>27, <1>2, <2>2 DEF RefundEscrow
  <2>3. CASE Move(w, "refunded", "emit")
    BY <1>27, <1>1, <2>3, MoveFields DEF RefundEscrow, EvidenceInv
  <2>4. CASE /\ Goto(w, "refund.bridge")
             /\ escrow[o] \in {"authorized", "captured"}
             /\ escrow'[o] \in {"voided", "refunded"}
    <3>1. /\ Others(w)
          /\ call'[w].at = "refund.bridge" /\ call'[w].o = o
          /\ bridge' = bridge
      BY <1>27, <2>1, <2>4, GotoFields DEF RefundEscrow, EvidenceInv
    <3>2. bridge[o] = "idle"
      BY <2>4 DEF EvidenceInv, MoneyInOrder
    <3>3. ASSUME NEW v \in Workers, v # w, At(v, "refund.bridge")'
          PROVE  /\ call'[v].o # o
                 /\ escrow'[call'[v].o] \in {"voided", "refunded"}
                 /\ bridge'[call'[v].o] = "idle"
                 /\ \A u \in Workers \ {w} :
                      At(u, "refund.bridge")' /\ call'[u].o = call'[v].o
                        => u = v
      <4>1. call'[v] = call[v] /\ At(v, "refund.bridge")
        BY <3>1, <3>3 DEF Others, At
      <4>2. /\ escrow[call[v].o] \in {"voided", "refunded"}
            /\ bridge[call[v].o] = "idle"
            /\ \A u \in Workers :
                 At(u, "refund.bridge") /\ call[u].o = call[v].o => u = v
        BY <4>1 DEF EvidenceInv, BridgedAlone
      <4>3. call[v].o \in Orders
        BY <4>1, InFlight DEF EvidenceInv, At
      <4>4. escrow'[call[v].o] = escrow[call[v].o]
        BY <4>2, <4>3, ReleasedStays
      <4> QED
        BY <2>4, <3>1, <4>1, <4>2, <4>4 DEF Others, At
    <3> QED
      BY <2>4, <3>1, <3>2, <3>3 DEF BridgedAlone, At
  <2> QED
    BY <1>27, <2>1, <2>2, <2>3, <2>4
       DEF RefundEscrow, EvidenceInv, TypeInv, TypeOK
<1>28. ASSUME NEW w \in Workers, RefundBridge(w)
      PROVE  BridgedAlone'
  <2>1. Others(w) /\ call'[w].at # "refund.bridge"
    BY <1>28, EndFields, MoveFields DEF RefundBridge, EvidenceInv
  <2>2. \A o \in Orders : bridge'[o] = bridge[o] \/ call[w].o = o
    BY <1>28 DEF RefundBridge, EvidenceInv, TypeInv, TypeOK
  <2> QED
    BY <1>28, <2>1, <2>2, AwayFromBridge DEF RefundBridge
<1>29. ASSUME NEW w \in Workers, ReconcileRead(w)
      PROVE  BridgedAlone'
  BY <1>1, <1>2, <1>29, MoveFields
     DEF ReconcileRead, EvidenceInv
<1>30. ASSUME NEW w \in Workers, Interrupt(w)
      PROVE  BridgedAlone'
  BY <1>2, <1>30 DEF Interrupt
<1>31. ASSUME NEW w \in Workers, NEW o \in Orders, Begin(w, o)
      PROVE  BridgedAlone'
  <2>1. bridge' = bridge
    BY <1>31 DEF Begin, Fund, Release, RetrySettlement, RefreshPayout, Refund,
                Reconcile, MarkFunding, Ship, Expire, HostMove
  <2> QED BY <1>1, <1>31, <2>1, BeginsInformed
<1>32. CASE UNCHANGED <<call, bridge>>
  <2> SUFFICES ASSUME NEW v \in Workers, At(v, "refund.bridge")
               PROVE  escrow'[call[v].o] = escrow[call[v].o]
    BY <1>32 DEF BridgedAlone, EvidenceInv, At
  <2>1. escrow[call[v].o] \in {"voided", "refunded"}
    BY DEF BridgedAlone, EvidenceInv
  <2>2. call[v].o \in Orders
    BY InFlight DEF EvidenceInv, At
  <2> QED BY <2>1, <2>2, ReleasedStays
<1> QED
  BY <1>3, <1>4, <1>5, <1>6, <1>7, <1>8, <1>9, <1>10, <1>11, <1>12, <1>13,
     <1>14, <1>15, <1>16, <1>17, <1>18, <1>19, <1>20, <1>21, <1>22, <1>23,
     <1>24, <1>25, <1>26, <1>27, <1>28, <1>29, <1>30, <1>31, <1>32
     DEF Next, Continue, Outside, vars, TimePasses, Reclaim, RailSettles

-----------------------------------------------------------------------------
(* The evidence.                                                           *)

LEMMA EvidenceStarts == Init => EvidenceInv
<1> SUFFICES ASSUME Init PROVE EvidenceInv
  OBVIOUS
<1>1. TypeInv
  BY InitTyped
<1>2. \A o \in Orders : MoneyInOrder(o)
  BY DEF Init, NothingYet, MoneyInOrder, Converted, Captured, Broadcast
<1>3. \A o \in Orders : RecordBacked(o)
  BY DEF Init, NothingYet, RecordBacked, Backs, Trustworthy, NoPayout,
         PaymentKinds, Events
<1>4. \A w \in Workers : call[w].at = "idle"
  BY DEF Init, NothingYet, Idle
<1> QED
  BY <1>1, <1>2, <1>3, <1>4 DEF EvidenceInv, CallKnows, BridgedAlone, At

LEMMA EvidenceStays == EvidenceInv /\ [Next]_vars => EvidenceInv'
  BY TypesKept, MoneyKept, RecordKept, KnowledgeKept, BridgedAloneKept
     DEF EvidenceInv

\* Each record and each request rests on facts of the money, for any orders,
\* any number of requests in flight and any faults.
THEOREM EvidenceHolds == Spec => []EvidenceInv
  BY EvidenceStarts, EvidenceStays, PTL DEF Spec

\* Each confirmed row of the payments table names a transfer that happened.
THEOREM LedgerCorrect == Spec => []LedgerIsEvidence
<1>1. EvidenceInv => LedgerIsEvidence
  BY DEF EvidenceInv, RecordBacked, LedgerIsEvidence
<1> QED BY <1>1, EvidenceHolds, PTL

\* Nothing is announced before its money has moved.
THEOREM AnnouncementsCorrect == Spec => []AnnouncementsAreBacked
<1>1. EvidenceInv => AnnouncementsAreBacked
  BY DEF EvidenceInv, RecordBacked, Backs, Events, AnnouncementsAreBacked
<1> QED BY <1>1, EvidenceHolds, PTL

\* The wallet road and the bank road never meet.
THEOREM RoadsApart == Spec => []RoadsStayApart
<1>1. EvidenceInv => RoadsStayApart
  <2> SUFFICES ASSUME EvidenceInv, NEW o \in Orders
               PROVE  /\ o \in BankOrders =>
                           swaps[o] = 0 /\ state[o] # "released"
                      /\ o \notin BankOrders =>
                           ~ Broadcast(o) /\ ~ isOffRamped(state[o])
                      /\ "paid" \in rebates[o] => Converted(o) \/ Broadcast(o)
    BY DEF RoadsStayApart
  <2>1. MoneyInOrder(o) /\ Backs(o, state[o]) /\ swaps[o] \in Nat
    BY DEF EvidenceInv, RecordBacked, TypeInv, TypeOK
  <2>2. Delivered(o) => Broadcast(o)
    BY DEF Delivered, Broadcast
  <2> QED
    BY <2>1, <2>2 DEF MoneyInOrder, Backs, Converted, isOffRamped
<1> QED BY <1>1, EvidenceHolds, PTL
=============================================================================
