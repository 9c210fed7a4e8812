------------------------- MODULE Marketplace_Proofs -------------------------
(***************************************************************************)
(* Theorems about the marketplace, for any orders, screens, sweeps and      *)
(* scenes.  It calls the facade of RivoKit as any host may, so what is      *)
(* proved of the facade holds in it.                                        *)
(***************************************************************************)
EXTENDS RivoKitAlone_Proofs, RivoKitPromise_Proofs, MarketplaceProperties

USE DEF kit, database, orderRow, chain

-----------------------------------------------------------------------------
(* The marketplace is a host.                                               *)

\* What the steps of the facade rest on here.
HostInv == EvidenceInv /\ scene \in Scenes

\* A fault of the host is none of the facade's.
FaultOfHost ==
    /\ UNCHANGED <<kit, call>>
    /\ faults' = faults + 1 /\ faults' \in 0..MaxFaults

\* Every step of the marketplace is one of the facade, or a fault of its own.
LEMMA StepOfFacade ==
  ASSUME HostInv, [MarketNext]_marketVars
  PROVE  ([Next]_vars \/ FaultOfHost) /\ scene' = scene
<1>1. /\ order \in Orders
      /\ scene.faults \in 0..MaxFaults
      /\ faults \in 0..MaxFaults
      /\ scene.cast \subseteq Workers
  BY ScenesAssumption DEF HostInv, order, EvidenceInv, TypeInv, TypeOK
<1>2. /\ Screens \subseteq Workers
      /\ Workers \ Screens \subseteq Workers
  BY ScenesAssumption
<1>3. CASE UNCHANGED <<kit, call, faults>> /\ scene' = scene
  BY <1>3 DEF vars
<1>4. CASE faults < scene.faults /\ faults' = faults + 1
           /\ UNCHANGED <<kit, call>> /\ scene' = scene
  BY <1>1, <1>4, BoundsAssumption DEF FaultOfHost
<1>5. ASSUME NEW w \in Screens, Presses(w)
      PROVE  [Next]_vars /\ scene' = scene
  <2>1. scene' = scene
    BY <1>5 DEF Presses, PressShip, PressConfirm, PressDispute, PressRelease,
         PressRetry, PressRefund, Press
  <2>2. w \in Workers
    BY <1>2
  <2>3. \/ UNCHANGED <<kit, call, faults>>
        \/ Ship(w, order) \/ Release(w, order) \/ RetrySettlement(w, order)
        \/ Refund(w, order)
    BY <1>5 DEF Presses, PressShip, PressConfirm, PressDispute, PressRelease,
         PressRetry, PressRefund, CallKit
  <2> QED BY <1>1, <2>1, <2>2, <2>3 DEF Next, Begin, vars
<1>6. ASSUME NEW w \in Screens,
             \/ RecordEvent(w) \/ ForwardEvents(w) \/ ForwardOrder(w)
             \/ Board(w) \/ Reopen(w)
      PROVE  UNCHANGED <<kit, call, faults>> /\ scene' = scene
  BY <1>6 DEF RecordEvent, ForwardEvents, ForwardOrder, Board, Ask, Show,
       Reopen, host
<1>7. ASSUME NEW w \in Screens, ForwardSend(w) \/ ReadFails(w)
      PROVE  /\ UNCHANGED <<kit, call>> /\ scene' = scene
             /\ \/ faults' = faults
                \/ faults < scene.faults /\ faults' = faults + 1
  BY <1>7 DEF ForwardSend, ReadFails, Fault, host
<1>8. ASSUME NEW w \in Workers \ Screens, Sweep(w)
      PROVE  [Next]_vars /\ scene' = scene
  BY <1>1, <1>2, <1>8 DEF Sweep, Next, Begin, host
<1>9. ASSUME NEW w \in Workers, KitStep(w)
      PROVE  [Next]_vars /\ scene' = scene
  BY <1>9 DEF KitStep, Next, host
<1>10. ASSUME NEW w \in Workers, Fails(w)
       PROVE  /\ scene' = scene
              /\ \/ [Next]_vars
                 \/ /\ faults < scene.faults /\ faults' = faults + 1
                    /\ UNCHANGED <<kit, call>>
  BY <1>10 DEF Fails, Next, host
<1>11. CASE WindowPasses
  BY <1>3, <1>11 DEF WindowPasses
<1>12. CASE World
  BY <1>1, <1>12 DEF World, Next, host
<1>13. CASE UNCHANGED marketVars
  BY <1>3, <1>13 DEF marketVars, host
<1> QED
  BY <1>3, <1>4, <1>5, <1>6, <1>7, <1>8, <1>9, <1>10, <1>11, <1>12, <1>13
     DEF MarketNext

\* A fault of the host leaves the evidence as it was.
LEMMA FaultKeepsEvidence ==
  ASSUME EvidenceInv, FaultOfHost
  PROVE  EvidenceInv'
<1> USE DEF FaultOfHost
<1>1. TypeInv'
  BY DEF EvidenceInv, TypeInv, TypeOK, CallsTyped
<1>2. \A o \in Orders : MoneyInOrder(o)' /\ RecordBacked(o)'
  BY DEF EvidenceInv, MoneyInOrder, RecordBacked, Converted, Captured,
         Broadcast, Collected, Delivered, Returned, Backs, Trustworthy
<1>3. \A w \in Workers : CallKnows(call[w])'
  BY DEF EvidenceInv, CallKnows, Trustworthy, Backs, Converted, Captured,
         Broadcast, Collected, Delivered, Returned
<1>4. BridgedAlone'
  BY DEF EvidenceInv, BridgedAlone, At
<1> QED BY <1>1, <1>2, <1>3, <1>4 DEF EvidenceInv

\* An order that has just been funded is backed by its authorization.
LEMMA FundedIsBacked == MarketInit => HostInv
<1> SUFFICES ASSUME MarketInit PROVE HostInv
  OBVIOUS
<1>1. scene \in Scenes /\ order \in Orders
  BY ScenesAssumption DEF MarketInit, order
<1>2. TypeInv
  <2>1. TypeOK
    BY <1>1, BoundsAssumption, OrdersAssumption
       DEF MarketInit, TypeOK, NoPayout, Payouts, ORDER_STATES, RowStatus,
           EscrowStates, Clock, RailStatus, Idle, Calls, Labels, Continuations,
           Events
  <2>2. CallsTyped
    BY IdleTyped DEF MarketInit, CallsTyped
  <2>3. \A o \in Orders : PointsAtPayment(payout[o])
    BY DEF MarketInit, PointsAtPayment, NoPayout
  <2> QED BY <2>1, <2>2, <2>3 DEF TypeInv
<1>3. ASSUME NEW o \in Orders
      PROVE  MoneyInOrder(o) /\ RecordBacked(o)
  <2>1. MoneyInOrder(o)
    BY DEF MarketInit, MoneyInOrder, Converted, Captured, Broadcast
  <2>2. Collected(o) <=> o = order
    BY DEF MarketInit, Collected
  <2>3. Backs(o, state[o])
    BY <2>2 DEF MarketInit, Backs
  <2>4. Trustworthy(o, payout[o])
    BY DEF MarketInit, Trustworthy, NoPayout
  <2>5. \A e \in Events : emitted[o][e] > 0 => Backs(o, e)
    BY <2>2 DEF MarketInit, Backs, Events
  <2>6. \A k \in PaymentKinds :
          ledger[o][k] = "confirmed" => k = "authorize" /\ Collected(o)
    BY <2>2 DEF MarketInit
  <2> QED BY <2>1, <2>3, <2>4, <2>5, <2>6 DEF RecordBacked, PaymentKinds
<1>4. \A w \in Workers : call[w].at = "idle"
  BY DEF MarketInit, Idle
<1> QED
  BY <1>1, <1>2, <1>3, <1>4 DEF HostInv, EvidenceInv, CallKnows, BridgedAlone, At

\* What the facade promises any host, it keeps for the marketplace: each record
\* and each request rests on facts of the money, whatever the screens press,
\* what the server actions do in between, and what the board shows.
THEOREM MarketplaceKeepsEvidence == MarketSpec => []HostInv
<1>1. HostInv /\ [MarketNext]_marketVars => HostInv'
  <2> SUFFICES ASSUME HostInv, [MarketNext]_marketVars PROVE HostInv'
    OBVIOUS
  <2>1. ([Next]_vars \/ FaultOfHost) /\ scene' = scene
    BY StepOfFacade
  <2>2. [Next]_vars => EvidenceInv'
    BY TypesKept, MoneyKept, RecordKept, KnowledgeKept, BridgedAloneKept
       DEF EvidenceInv, HostInv
  <2> QED BY <2>1, <2>2, FaultKeepsEvidence DEF HostInv
<1> QED BY <1>1, FundedIsBacked, PTL DEF MarketSpec

\* Whatever hosts and buyers press, on screens however old, the record of an
\* order never claims money that has not moved, and facts about money come after
\* their causes: a step of the marketplace is one of FundsPromise or shows it
\* nothing.
THEOREM MarketplaceKeepsPromise == MarketSpec => PromiseKept
<1>1. HostInv /\ HostInv' /\ [MarketNext]_marketVars
        => [Promise!Next]_<<[o \in Orders |-> FactsOf(o)],
                            [o \in Orders |-> Claim[state[o]]]>>
  <2> SUFFICES ASSUME HostInv, HostInv', [MarketNext]_marketVars
               PROVE  Promise!Next \/ UNCHANGED <<F, T>>
    BY DEF F, T
  <2>1. CASE [Next]_vars
    BY <2>1, StepPromises DEF HostInv, Promise!Next
  <2>2. CASE FaultOfHost
    BY <2>2, Unseen DEF FaultOfHost
  <2> QED BY <2>1, <2>2, StepOfFacade
<1> QED
  BY <1>1, MarketplaceKeepsEvidence, PTL DEF MarketSpec, PromiseKept

-----------------------------------------------------------------------------
(* What one step of a call of the facade may do here.                       *)

\* The step of call w keeps to its order, and captures only from the place of
\* a release where the escrow still holds the payment.
StepOfCall(w) ==
    /\ Others(w)
    /\ call'[w].at # "release.capture"
    /\ call'[w].at = "idle" \/ call'[w].o = call[w].o
    /\ InTransition(call'[w]) =>
         \/ call'[w].to \in MarketStates
         \/ InTransition(call[w]) /\ call'[w].to = call[w].to
    /\ \/ state' = state
       \/ /\ At(w, "transition.write")
          /\ state' = [state EXCEPT ![call[w].o] = call[w].to]
    /\ \/ At(w, "release.capture")
       \/ \A o \in Orders : Captured(o)' => Captured(o)

\* A capture leaves no authorization behind it.
LEMMA CaptureTakesAll ==
  ASSUME TypeInv, NEW w \in Workers, ReleaseCapture(w)
  PROVE  /\ call'[w].at # "idle" => escrow[call[w].o] = "authorized"
         /\ \A o \in Orders : Captured(o)' =>
              Captured(o) \/ (o = call[w].o /\ escrow[o] = "authorized")
<1>1. CASE End(w) /\ escrow' = escrow
  BY <1>1, EndFields DEF Captured
<1>2. CASE /\ escrow[call[w].o] = "authorized"
           /\ escrow' = [escrow EXCEPT ![call[w].o] = "captured"]
  BY <1>2 DEF Captured, TypeInv, TypeOK
<1> QED BY <1>1, <1>2 DEF ReleaseCapture, CaptureReverts

\* Each step of the facade is such a step.
LEMMA CallSteps ==
  ASSUME TypeInv, NEW w \in Workers, Continue(w)
  PROVE  StepOfCall(w)
<1> USE GotoFields, EndFields, MoveFields, HoldingFields, OutcomeFields
    DEF StepOfCall, At, InTransition, Captured, MarketStates, ORDER_STATES
<1>1. CASE TransitionRead(w)
  BY <1>1 DEF TransitionRead
<1>2. CASE TransitionWrite(w)
  BY <1>2, InFlight DEF TransitionWrite, Calls, Continuations
<1>3. CASE Emit(w)
  BY <1>3 DEF Emit
<1>4. CASE FundExecute(w)
  <2>1. call[w].o \in Orders
    BY <1>4, InFlight DEF FundExecute
  <2>2. escrow' = escrow \/ escrow' = [escrow EXCEPT ![call[w].o] = "authorized"]
    BY <1>4 DEF FundExecute
  <2> QED BY <1>4, <2>1, <2>2 DEF FundExecute, TypeInv, TypeOK
<1>5. CASE FundRecord(w) \/ FundReread(w)
  BY <1>5 DEF FundRecord, FundReread
<1>6. CASE ReleaseCapture(w)
  BY <1>6 DEF ReleaseCapture, CaptureReverts
<1>7. CASE ReleaseSwap(w) \/ RetrySwap(w)
  BY <1>7 DEF ReleaseSwap, RetrySwap, Swap, SwapFails
<1>8. CASE ReleaseCaptureRow(w)
  BY <1>8 DEF ReleaseCaptureRow
<1>9. CASE SettleSwapRow(w) \/ SettleRebateRow(w) \/ SettlePayout(w)
  BY <1>9 DEF SettleSwapRow, SettleRebateRow, SettlePayout
<1>10. CASE SettleRebate(w)
  BY <1>10 DEF SettleRebate, PayRebate
<1>11. CASE PayoutQuote(w)
  BY <1>11 DEF PayoutQuote, Stall
<1>12. CASE PayoutSubmit(w)
  <2>1. \/ \E q : Holding(w, "payout.save", q)
        \/ End(w)
    BY <1>12 DEF PayoutSubmit
  <2>2. UNCHANGED <<state, escrow>>
    BY <1>12 DEF PayoutSubmit
  <2> QED BY <2>1, <2>2
<1>13. CASE PayoutSave(w) \/ PayoutRow(w) \/ PayoutRebateRow(w)
  BY <1>13 DEF PayoutSave, PayoutRow, PayoutRebateRow
<1>14. CASE PayoutRebate(w)
  BY <1>14 DEF PayoutRebate, PayRebate
<1>15. CASE RefreshRead(w) \/ RefreshStatus(w)
  <2>1. \/ \E q : Holding(w, "refresh.status", q) \/ Holding(w, "refresh.save", q)
        \/ End(w)
    BY <1>15 DEF RefreshRead, RefreshStatus
  <2>2. UNCHANGED <<state, escrow>>
    BY <1>15 DEF RefreshRead, RefreshStatus
  <2> QED BY <2>1, <2>2
<1>16. CASE RefreshSave(w) \/ RefreshRow(w)
  BY <1>16 DEF RefreshSave, RefreshRow
<1>17. CASE RefundEscrow(w)
  <2>1. call[w].o \in Orders
    BY <1>17, InFlight DEF RefundEscrow
  <2>2. \/ escrow' = escrow
        \/ escrow' = [escrow EXCEPT ![call[w].o] = "voided"]
        \/ /\ escrow[call[w].o] = "captured"
           /\ escrow' = [escrow EXCEPT ![call[w].o] = "refunded"]
    BY <1>17 DEF RefundEscrow
  <2> QED BY <1>17, <2>1, <2>2 DEF RefundEscrow, TypeInv, TypeOK
<1>18. CASE RefundBridge(w)
  BY <1>18 DEF RefundBridge
<1>19. CASE ReconcileRead(w)
  BY <1>19 DEF ReconcileRead
<1> QED
  BY <1>1, <1>2, <1>3, <1>4, <1>5, <1>6, <1>7, <1>8, <1>9, <1>10, <1>11,
     <1>12, <1>13, <1>14, <1>15, <1>16, <1>17, <1>18, <1>19 DEF Continue

-----------------------------------------------------------------------------
(* The types of the marketplace.                                            *)

\* A call in flight is about the order of the scene, moves it nowhere but
\* forward from funded, and was made by a server action that goes on from it.
CallsOfScene ==
    \A w \in Workers : ~ At(w, "idle") =>
      /\ call[w].o = order
      /\ InTransition(call[w]) => call[w].to \in MarketStates
      /\ w \in Screens => task[w] \in {"ship", "release", "retry", "refund"}

\* The inductive invariant behind MarketTypeOK.
MarketTyped ==
    /\ HostInv
    /\ MarketTypeOK
    /\ state[order] \in MarketStates
    /\ CallsOfScene

\* The event a server action ends with is one a view is made from.
LEMMA EventsOfTasks ==
  ASSUME NEW k \in DOMAIN EventOf
  PROVE  /\ EventOf[k] \in Signals
         /\ k \in {"confirm", "dispute", "ship.event", "forward.event"}
         /\ EventOf[k] = "mp.buyer_confirmed" <=> k = "confirm"
         /\ EventOf[k] = "mp.dispute" <=> k = "dispute"
         /\ EventOf[k] = "mp.shipped" <=> k = "ship.event"
         /\ EventOf[k] = "mp.seller_payout" <=> k = "forward.event"
  BY DEF EventOf, Signals

\* A server action that goes on after the facade does so with a step of its own.
LEMMA TasksAfterKit ==
  ASSUME NEW w, task[w] \in {"ship", "release", "retry", "refund"}
  PROVE  AfterKit(w) \in {"ship.event", "forward.events", "none"}
  BY DEF AfterKit

\* What a screen reads is a state of the order in the marketplace.
LEMMA ReadingsTyped ==
  ASSUME MarketTyped, state'[order] \in MarketStates, order' = order,
         NEW w, Refresh(w)
  PROVE  reading' \in [Screens -> MarketStates \cup {"none"}]
  BY DEF Refresh, MarketTyped, MarketTypeOK

\* A step that makes no call and moves no order leaves the calls of the scene.
LEMMA CallsStayOfScene ==
  ASSUME MarketTyped, UNCHANGED <<call, state>>, order' = order,
         \A w \in Screens : At(w, "idle") \/ task'[w] = task[w]
  PROVE  CallsOfScene' /\ state'[order'] \in MarketStates
  BY DEF MarketTyped, CallsOfScene, At, InTransition

\* What the facade may do for one call keeps to the scene.
LEMMA CallStaysOfScene ==
  ASSUME MarketTyped, NEW w \in Workers, ~ At(w, "idle"), StepOfCall(w),
         order' = order,
         \A v \in Screens : v # w => task'[v] = task[v],
         w \in Screens => task'[w] = task[w] \/ call'[w].at = "idle"
  PROVE  CallsOfScene' /\ state'[order'] \in MarketStates
<1> USE DEF StepOfCall, Others, CallsOfScene, At
<1>1. state'[order] \in MarketStates
  BY DEF InTransition, MarketTyped, HostInv, EvidenceInv, TypeInv, TypeOK
<1>2. ASSUME NEW v \in Workers, ~ At(v, "idle")'
      PROVE  /\ call'[v].o = order
             /\ InTransition(call'[v]) => call'[v].to \in MarketStates
             /\ v \in Screens =>
                  task'[v] \in {"ship", "release", "retry", "refund"}
  <2>1. CASE v = w
    BY <1>2, <2>1 DEF MarketTyped
  <2>2. CASE v # w
    BY <1>2, <2>2 DEF MarketTyped, InTransition
  <2> QED BY <2>1, <2>2
<1> QED BY <1>1, <1>2 DEF InTransition

\* What a view is made of, it shows.
LEMMA ViewsTyped ==
  ASSUME MarketTyped, NEW s \in MarketStates
  PROVE  buildView(s, FALSE, FALSE, events) \in MarketViews
  BY DEF MarketViews, Views, MarketStates, buildView

\* A step of the marketplace keeps its own variables typed.
OwnTypes ==
    /\ scene \in Scenes
    /\ events \subseteq Signals
    /\ windowPassed \in BOOLEAN /\ overtaken \in BOOLEAN
    /\ forwards \in Nat
    /\ view \in [Screens -> MarketViews]
    /\ reading \in [Screens -> MarketStates \cup {"none"}]
    /\ task \in [Screens -> Tasks]

\* A call that goes on is in flight.
LEMMA ContinuesInFlight ==
  ASSUME NEW w, Continue(w)
  PROVE  ~ At(w, "idle")
  BY DEF Continue, At, TransitionRead, TransitionWrite, Emit, FundExecute,
     FundRecord, FundReread, ReleaseCapture, ReleaseSwap, ReleaseCaptureRow,
     SettleSwapRow, SettleRebate, SettleRebateRow, SettlePayout, PayoutQuote,
     PayoutSubmit, PayoutSave, PayoutRow, PayoutRebate, PayoutRebateRow,
     RetrySwap, RefreshRead, RefreshStatus, RefreshSave, RefreshRow,
     RefundEscrow, RefundBridge, ReconcileRead

\* The facade's own step, for a screen or for a sweep, keeps to the scene.
LEMMA KitStepTyped ==
  ASSUME MarketTyped, NEW w \in Workers, KitStep(w), order' = order
  PROVE  OwnTypes' /\ CallsOfScene' /\ state'[order'] \in MarketStates
<1> USE DEF KitStep, host
<1>1. StepOfCall(w) /\ ~ At(w, "idle")
  <2>1. StepOfCall(w)
    BY CallSteps DEF MarketTyped, HostInv, EvidenceInv
  <2> QED BY <2>1, ContinuesInFlight
<1>2. /\ \A v \in Screens : v # w => task'[v] = task[v]
      /\ w \in Screens => task'[w] = task[w] \/ call'[w].at = "idle"
      /\ task' \in [Screens -> Tasks]
  <2>1. w \in Screens => AfterKit(w) \in Tasks
    BY <1>1, TasksAfterKit DEF MarketTyped, CallsOfScene, Tasks
  <2>2. Idle.at = "idle"
    BY DEF Idle
  <2> QED
    BY <2>1, <2>2 DEF Then, Done, MarketTyped, MarketTypeOK, Tasks
<1>3. CallsOfScene' /\ state'[order'] \in MarketStates
  BY <1>1, <1>2, CallStaysOfScene
<1>4. reading' \in [Screens -> MarketStates \cup {"none"}]
  <2>1. reading' = reading \/ Refresh(w) \/ Refresh(SweepOf[w])
    BY DEF Done
  <2> QED
    BY <1>3, <2>1, ReadingsTyped DEF MarketTyped, MarketTypeOK
<1> QED BY <1>2, <1>3, <1>4 DEF OwnTypes, MarketTyped, MarketTypeOK

\* So does a fault.
LEMMA FailsTyped ==
  ASSUME MarketTyped, NEW w \in Workers, Fails(w), order' = order
  PROVE  OwnTypes' /\ CallsOfScene' /\ state'[order'] \in MarketStates
<1> USE DEF Fails, host
<1>1. UNCHANGED state
  BY DEF Interrupt
<1>2. /\ task' \in [Screens -> Tasks]
      /\ \A v \in Screens : v # w => task'[v] = task[v]
      /\ w \in Screens => task'[w] = "none"
  BY DEF Done, MarketTyped, MarketTypeOK, Tasks
<1>3. /\ call'[w].at = "idle"
      /\ \A v \in Workers : v # w => call'[v] = call[v]
  BY EndFields
     DEF Interrupt, Others, At, MarketTyped, HostInv, EvidenceInv
<1>4. CallsOfScene' /\ state'[order'] \in MarketStates
  BY <1>1, <1>2, <1>3 DEF CallsOfScene, MarketTyped, At, InTransition
<1>5. reading' \in [Screens -> MarketStates \cup {"none"}]
  <2>1. Refresh(w) \/ Refresh(SweepOf[w])
    BY DEF Done
  <2> QED BY <1>4, <2>1, ReadingsTyped
<1> QED BY <1>2, <1>4, <1>5 DEF OwnTypes, MarketTyped, MarketTypeOK

\* So does what a screen presses, or a sweep begins.
LEMMA BeginTyped ==
  ASSUME MarketTyped, NEW w \in Workers, order' = order,
         \/ w \in Screens /\ Presses(w)
         \/ w \notin Screens /\ Sweep(w)
  PROVE  OwnTypes' /\ CallsOfScene' /\ state'[order'] \in MarketStates
<1> USE DEF Presses, PressShip, PressConfirm, PressDispute, PressRelease,
            PressRetry, PressRefund, Press, CallKit, Sweep, host, screen
<1>1. /\ UNCHANGED <<state, events, windowPassed, forwards, view, scene>>
      /\ overtaken' \in BOOLEAN
  BY DEF MarketTyped, MarketTypeOK, Ship, HostMove, Release, RetrySettlement,
     Refund, RefreshPayout
<1>2. /\ task' \in [Screens -> Tasks]
      /\ \A v \in Screens : v # w => task'[v] = task[v]
  BY DEF Then, MarketTyped, MarketTypeOK, Tasks, Buttons
<1>3. state'[order] \in MarketStates
  BY <1>1 DEF MarketTyped
<1>4. reading' \in [Screens -> MarketStates \cup {"none"}]
  <2>1. reading' = reading \/ Refresh(w)
    OBVIOUS
  <2> QED BY <1>3, <2>1, ReadingsTyped DEF MarketTyped, MarketTypeOK
<1>5. w \in Workers /\ At(w, "idle")
  BY DEF MarketTyped, CallsOfScene, Ship, HostMove, Release, RetrySettlement,
     Refund, RefreshPayout
<1>6. CASE call' = call
  <2>1. \A v \in Screens : At(v, "idle") \/ task'[v] = task[v]
    BY <1>2, <1>5
  <2> QED
    BY <1>1, <1>2, <1>4, <1>6, <2>1, CallsStayOfScene
       DEF OwnTypes, MarketTyped, MarketTypeOK
<1>7. CASE /\ Others(w)
           /\ call'[w].o = order
           /\ InTransition(call'[w]) => call'[w].to \in MarketStates
           /\ w \in Screens =>
                task'[w] \in {"ship", "release", "retry", "refund"}
  <2>1. CallsOfScene'
    BY <1>2, <1>7 DEF Others, MarketTyped, CallsOfScene, At, InTransition
  <2> QED
    BY <1>1, <1>2, <1>3, <1>4, <2>1 DEF OwnTypes, MarketTyped, MarketTypeOK
<1>8. \/ call' = call
      \/ /\ \/ Start(w, order, "release.capture")
            \/ Start(w, order, RetryRoad(order))
            \/ Depart(w, order, "shipped", "idle")
            \/ Depart(w, order, "refund_pending", "refund.escrow")
         /\ w \in Screens =>
              task'[w] \in {"ship", "release", "retry", "refund"}
      \/ Start(w, order, "refresh.read") /\ w \notin Screens
  BY DEF Then, Ship, HostMove, Release, RetrySettlement, Refund, RefreshPayout,
     MarketTyped, MarketTypeOK
<1> QED
  BY <1>5, <1>6, <1>7, <1>8, StartFields, DepartFields
     DEF RetryRoad, InTransition, MarketStates, ORDER_STATES, MarketTyped,
         HostInv, EvidenceInv

\* The types hold from the start,
LEMMA MarketInitTyped == MarketInit => MarketTyped
<1> SUFFICES ASSUME MarketInit PROVE MarketTyped
  OBVIOUS
<1>1. HostInv
  BY FundedIsBacked
<1>2. state[order] \in MarketStates
  BY ScenesAssumption DEF MarketInit, MarketStates, ORDER_STATES, order
<1>3. CallsOfScene
  BY DEF MarketInit, CallsOfScene, At, Idle
<1>4. Now \in MarketViews
  BY <1>2 DEF Now, MarketViews, Views, MarketStates, buildView
<1>5. TypeOK
  BY <1>1 DEF HostInv, EvidenceInv, TypeInv
<1> QED
  BY <1>1, <1>2, <1>3, <1>4, <1>5 DEF MarketInit, MarketTyped, MarketTypeOK, Tasks

\* ... and no step of the marketplace takes them away.
LEMMA MarketTypesKept ==
  ASSUME MarketTyped, [MarketNext]_marketVars
  PROVE  MarketTyped'
<1>1. HostInv' /\ scene' = scene /\ order' = order
  <2>1. ([Next]_vars \/ FaultOfHost) /\ scene' = scene
    BY StepOfFacade DEF MarketTyped
  <2>2. [Next]_vars => EvidenceInv'
    BY TypesKept, MoneyKept, RecordKept, KnowledgeKept, BridgedAloneKept
       DEF EvidenceInv, MarketTyped, HostInv
  <2> QED
    BY <2>1, <2>2, FaultKeepsEvidence DEF MarketTyped, HostInv, order
<1>2. ASSUME OwnTypes', CallsOfScene', state'[order'] \in MarketStates
      PROVE  MarketTyped'
  BY <1>1, <1>2
     DEF MarketTyped, MarketTypeOK, OwnTypes, HostInv, EvidenceInv, TypeInv
<1>3. ASSUME UNCHANGED <<call, state>>, OwnTypes',
             \A w \in Screens : At(w, "idle") \/ task'[w] = task[w]
      PROVE  MarketTyped'
  BY <1>1, <1>2, <1>3, CallsStayOfScene
<1>. DEFINE Free(w) == task[w] \notin {"ship", "release", "retry", "refund"}
<1>4. \A w \in Screens : Free(w) => At(w, "idle")
  BY ScenesAssumption DEF MarketTyped, CallsOfScene
<1>5. state[order] \in MarketStates
  BY DEF MarketTyped
<1>6. ASSUME NEW w \in Screens, Presses(w)
      PROVE  MarketTyped'
  BY <1>1, <1>2, <1>6, BeginTyped, ScenesAssumption
<1>7. ASSUME NEW w \in Workers \ Screens, Sweep(w)
      PROVE  MarketTyped'
  BY <1>1, <1>2, <1>7, BeginTyped
<1>8. ASSUME NEW w \in Workers, KitStep(w) \/ Fails(w)
      PROVE  MarketTyped'
  BY <1>1, <1>2, <1>8, KitStepTyped, FailsTyped
<1>9. ASSUME NEW w \in Screens,
             \/ RecordEvent(w) \/ ForwardEvents(w) \/ ForwardOrder(w)
             \/ ForwardSend(w)
      PROVE  MarketTyped'
  <2> USE DEF RecordEvent, ForwardEvents, ForwardOrder, ForwardSend, Fault,
              Then, Done, host, screen
  <2>1. UNCHANGED <<call, state, scene, windowPassed, overtaken, view>>
    BY <1>9
  <2>2. At(w, "idle")
    BY <1>4, <1>9, EventsOfTasks
  <2>3. reading' = reading \/ Refresh(w)
    BY <1>9
  <2>4. reading' \in [Screens -> MarketStates \cup {"none"}]
    BY <1>1, <1>5, <2>1, <2>3, ReadingsTyped DEF MarketTyped, MarketTypeOK
  <2>5. events' \subseteq Signals
    BY <1>9, EventsOfTasks DEF MarketTyped, MarketTypeOK
  <2>6. /\ task' \in [Screens -> Tasks]
        /\ \A v \in Screens : v # w => task'[v] = task[v]
    BY <1>9 DEF MarketTyped, MarketTypeOK, Tasks
  <2>7. forwards' \in Nat
    BY <1>9 DEF MarketTyped, MarketTypeOK
  <2>8. OwnTypes'
    BY <2>1, <2>4, <2>5, <2>6, <2>7 DEF OwnTypes, MarketTyped, MarketTypeOK
  <2> QED BY <1>3, <2>1, <2>2, <2>6, <2>8
<1>10. ASSUME NEW w \in Screens, Board(w) \/ Reopen(w) \/ ReadFails(w)
       PROVE  MarketTyped'
  <2> USE DEF Board, Ask, Show, Reopen, ReadFails, Fault, host
  <2>1. UNCHANGED <<call, state, task, scene, windowPassed, overtaken, events,
                    forwards>>
    BY <1>10
  <2>2. /\ Blank \in MarketViews
        /\ Now \in MarketViews
        /\ reading[w] # "none" =>
             buildView(reading[w], FALSE, FALSE, events) \in MarketViews
    BY <1>5, ViewsTyped DEF MarketViews, Now, MarketTyped, MarketTypeOK
  <2>3. view' \in [Screens -> MarketViews]
    BY <1>10, <2>2 DEF MarketTyped, MarketTypeOK
  <2>4. reading' \in [Screens -> MarketStates \cup {"none"}]
    BY <1>5, <1>10 DEF MarketTyped, MarketTypeOK
  <2>5. OwnTypes'
    BY <2>1, <2>3, <2>4 DEF OwnTypes, MarketTyped, MarketTypeOK
  <2> QED BY <1>3, <2>1, <2>5
<1>11. CASE WindowPasses \/ World
  <2>1. UNCHANGED <<call, state, task, view, reading, scene, overtaken, events,
                    forwards>>
    BY <1>11 DEF WindowPasses, World, Outside, TimePasses, Reclaim, RailSettles,
         host, screen
  <2>2. windowPassed' \in BOOLEAN
    BY <1>11 DEF WindowPasses, World, host, MarketTyped, MarketTypeOK
  <2> QED BY <1>3, <2>1, <2>2 DEF OwnTypes, MarketTyped, MarketTypeOK
<1>12. CASE UNCHANGED marketVars
  BY <1>3, <1>12 DEF OwnTypes, MarketTyped, MarketTypeOK, marketVars, host, screen
<1> QED
  BY <1>6, <1>7, <1>8, <1>9, <1>10, <1>11, <1>12 DEF MarketNext

\* The types of the marketplace hold in it, for any scene.
THEOREM MarketTypesHold == MarketSpec => []MarketTypeOK
<1>1. MarketTyped => MarketTypeOK
  BY DEF MarketTyped
<1>2. MarketTyped /\ [MarketNext]_marketVars => MarketTyped'
  BY MarketTypesKept
<1> QED BY <1>1, <1>2, MarketInitTyped, PTL DEF MarketSpec

-----------------------------------------------------------------------------
(* The seller is paid only after the buyer had their say.                   *)

\* The buyer confirmed, or disputed, or let the window pass.
Heard ==
    \/ "mp.dispute" \in events
    \/ /\ "mp.shipped" \in events
       /\ "mp.buyer_confirmed" \in events \/ windowPassed

\* What a view shows of the events has happened.
ShowsEvents(v) ==
    /\ v.shipped => "mp.shipped" \in events
    /\ v.confirmed => "mp.buyer_confirmed" \in events
    /\ v.disputed => "mp.dispute" \in events

\* The inductive invariant behind WindowRespected.
HeardInv ==
    /\ MarketTyped
    /\ \A w \in Screens : ShowsEvents(view[w])
    /\ "mp.buyer_confirmed" \in events => "mp.shipped" \in events
    /\ \A w \in Screens : task[w] = "confirm" => "mp.shipped" \in events
    /\ \A w \in Workers : At(w, "release.capture") => Heard
    /\ Captured(order) => Heard

\* What a panel offers it offers for what its view shows.
LEMMA OffersForSigns ==
  ASSUME NEW v \in MarketViews
  PROVE  /\ canJudge(v) => v.disputed
         /\ canConfirm(v) => v.shipped
  BY DEF canJudge, canConfirm, deriveStatus, StatusOf, Unfunded, MarketViews,
         MarketStates, Views, ORDER_STATES, Blank

\* A view shows an event only if it is among those it was made of.
LEMMA SignsOfView ==
  ASSUME NEW s, NEW E
  PROVE  /\ buildView(s, FALSE, FALSE, E).state = s
         /\ "mp.dispute" \in E =>
              s \in Judged \/ buildView(s, FALSE, FALSE, E).disputed
         /\ buildView(s, FALSE, FALSE, E).shipped => "mp.shipped" \in E
         /\ buildView(s, FALSE, FALSE, E).confirmed => "mp.buyer_confirmed" \in E
         /\ buildView(s, FALSE, FALSE, E).disputed => "mp.dispute" \in E
  BY DEF buildView

\* A release is pressed only after the buyer had their say.
LEMMA ReleaseIsHeard ==
  ASSUME HeardInv, NEW w \in Screens, PressRelease(w)
  PROVE  Heard
<1>1. view[w] \in MarketViews /\ ShowsEvents(view[w])
  BY DEF HeardInv, MarketTyped, MarketTypeOK
<1>2. CASE canJudge(view[w])
  BY <1>1, <1>2, OffersForSigns DEF ShowsEvents, Heard
<1>3. CASE settleable(view[w]) /\ ~ held(view[w], windowPassed)
  BY <1>1, <1>3 DEF held, ShowsEvents, Heard, HeardInv
<1> QED BY <1>2, <1>3 DEF PressRelease

\* What happened has happened.
LEMMA EventsStay ==
  ASSUME MarketTyped, [MarketNext]_marketVars
  PROVE  /\ events \subseteq events'
         /\ windowPassed => windowPassed'
         /\ "mp.buyer_confirmed" \in events' =>
              \/ "mp.buyer_confirmed" \in events
              \/ \E w \in Screens : task[w] = "confirm"
<1>1. ASSUME NEW w \in Screens, RecordEvent(w)
      PROVE  /\ events \subseteq events'
             /\ windowPassed' = windowPassed
             /\ "mp.buyer_confirmed" \in events' =>
                  "mp.buyer_confirmed" \in events \/ task[w] = "confirm"
  BY <1>1, EventsOfTasks DEF RecordEvent, host
<1>2. ASSUME NEW w \in Screens, Presses(w)
      PROVE  UNCHANGED <<events, windowPassed>>
  BY <1>2 DEF Presses, PressShip, PressConfirm, PressDispute, PressRelease,
     PressRetry, PressRefund, Press
<1>3. ASSUME NEW w \in Screens,
             \/ ForwardEvents(w) \/ ForwardOrder(w) \/ ForwardSend(w)
             \/ Board(w) \/ Reopen(w) \/ ReadFails(w)
      PROVE  UNCHANGED <<events, windowPassed>>
  BY <1>3 DEF ForwardEvents, ForwardOrder, ForwardSend, Board, Ask, Show,
     Reopen, ReadFails, host
<1>4. ASSUME NEW w \in Workers, Sweep(w) \/ KitStep(w) \/ Fails(w)
      PROVE  UNCHANGED <<events, windowPassed>>
  BY <1>4 DEF Sweep, KitStep, Fails, host
<1>5. CASE World \/ UNCHANGED marketVars
  BY <1>5 DEF World, marketVars, host
<1>6. CASE WindowPasses
  BY <1>6 DEF WindowPasses
<1> QED BY <1>1, <1>2, <1>3, <1>4, <1>5, <1>6 DEF MarketNext

\* A screen shows what it showed, or what there is to show, or nothing.
LEMMA ViewsComeFromEvents ==
  ASSUME MarketTyped, [MarketNext]_marketVars, NEW w \in Screens
  PROVE  \/ view'[w] = view[w]
         \/ view'[w] = Blank
         \/ \E s : view'[w] = buildView(s, FALSE, FALSE, events)
<1>1. view \in [Screens -> MarketViews]
  BY DEF MarketTyped, MarketTypeOK
<1>2. ASSUME NEW v \in Screens, Show(v) \/ Reopen(v) \/ ReadFails(v)
      PROVE  \/ view' = view
             \/ view' = [view EXCEPT ![v] = Blank]
             \/ \E s : view' = [view EXCEPT ![v] =
                                  buildView(s, FALSE, FALSE, events)]
  BY <1>2 DEF Show, Reopen, ReadFails, Now
<1>3. \/ view' = view
      \/ \E v \in Screens : Show(v) \/ Reopen(v) \/ ReadFails(v)
  BY DEF MarketNext, Presses, PressShip, PressConfirm, PressDispute,
     PressRelease, PressRetry, PressRefund, Press, RecordEvent, ForwardEvents,
     ForwardOrder, ForwardSend, Board, Ask, Sweep, KitStep, Fails,
     WindowPasses, World, marketVars, screen
<1> QED BY <1>1, <1>2, <1>3

\* A capture is begun by a release of a screen, and made by one that was begun.
LEMMA CapturesAreReleases ==
  ASSUME MarketTyped, [MarketNext]_marketVars
  PROVE  /\ \A w \in Workers : At(w, "release.capture")' =>
              \/ At(w, "release.capture")
              \/ w \in Screens /\ PressRelease(w)
         /\ Captured(order)' =>
              Captured(order) \/ \E w \in Workers : At(w, "release.capture")
<1> USE DEF host, screen
<1>0. /\ TypeInv
      /\ order \in Orders
      /\ order' = order
  BY StepOfFacade, ScenesAssumption DEF MarketTyped, HostInv, EvidenceInv, order
<1>1. CASE call' = call /\ (escrow' = escrow \/ World)
  BY <1>0, <1>1
     DEF At, Captured, World, Outside, TimePasses, Reclaim, RailSettles, TypeInv,
         TypeOK
<1>2. ASSUME NEW v \in Workers, Others(v), call'[v].at # "release.capture",
             escrow' = escrow
      PROVE  /\ \A w \in Workers : At(w, "release.capture")' =>
                                     At(w, "release.capture")
             /\ Captured(order)' => Captured(order)
  BY <1>0, <1>2 DEF At, Others, Captured
<1>3. ASSUME NEW v \in Screens, Presses(v)
      PROVE  /\ escrow' = escrow
             /\ \/ call' = call
                \/ Others(v) /\ v \in Workers /\ PressRelease(v)
                \/ /\ Others(v) /\ v \in Workers
                   /\ call'[v].at # "release.capture"
  <2>1. v \in Workers
    BY ScenesAssumption
  <2>2. escrow' = escrow
    BY <1>3 DEF Presses, PressShip, PressConfirm, PressDispute, PressRelease,
       PressRetry, PressRefund, CallKit, Ship, HostMove, Release,
       RetrySettlement, Refund
  <2>3. \/ call' = call
        \/ PressRelease(v) /\ Start(v, order, "release.capture")
        \/ Start(v, order, RetryRoad(order))
        \/ Depart(v, order, "shipped", "idle")
        \/ Depart(v, order, "refund_pending", "refund.escrow")
    BY <1>3 DEF Presses, PressShip, PressConfirm, PressDispute, PressRelease,
       PressRetry, PressRefund, CallKit, Ship, HostMove, Release,
       RetrySettlement, Refund
  <2> QED
    BY <1>0, <2>1, <2>2, <2>3, StartFields, DepartFields DEF RetryRoad
<1>4. ASSUME NEW v \in Workers \ Screens, Sweep(v)
      PROVE  /\ Others(v) /\ call'[v].at # "release.capture"
             /\ escrow' = escrow
  BY <1>0, <1>4, StartFields DEF Sweep, RefreshPayout
<1>5. ASSUME NEW v \in Workers, KitStep(v)
      PROVE  StepOfCall(v)
  BY <1>0, <1>5, CallSteps DEF KitStep
<1>6. ASSUME NEW v \in Workers, Fails(v)
      PROVE  /\ escrow' = escrow
             /\ \/ call' = call
                \/ Others(v) /\ call'[v].at # "release.capture"
  BY <1>0, <1>6, EndFields DEF Fails, Interrupt
<1>7. \/ call' = call /\ (escrow' = escrow \/ World)
      \/ \E v \in Screens : Presses(v)
      \/ \E v \in Workers \ Screens : Sweep(v)
      \/ \E v \in Workers : KitStep(v) \/ Fails(v)
  <2>1. World => call' = call
    BY DEF World, Outside, TimePasses, Reclaim, RailSettles
  <2>2. ASSUME NEW v \in Screens,
               \/ RecordEvent(v) \/ ForwardEvents(v) \/ ForwardOrder(v)
               \/ ForwardSend(v) \/ Board(v) \/ Reopen(v) \/ ReadFails(v)
        PROVE  UNCHANGED <<call, escrow>>
    BY <2>2 DEF RecordEvent, ForwardEvents, ForwardOrder, ForwardSend, Board,
       Ask, Show, Reopen, ReadFails
  <2>3. WindowPasses \/ UNCHANGED marketVars => UNCHANGED <<call, escrow>>
    BY DEF WindowPasses, marketVars
  <2> QED BY <2>1, <2>2, <2>3 DEF MarketNext
<1>8. CASE \E v \in Screens : Presses(v)
  <2>1. PICK v \in Screens : Presses(v)
    BY <1>8
  <2>2. CASE Others(v) /\ v \in Workers /\ PressRelease(v)
    BY <1>0, <1>3, <2>1, <2>2 DEF At, Others, Captured
  <2> QED BY <1>1, <1>2, <1>3, <2>1, <2>2
<1>9. CASE \E v \in Workers : KitStep(v)
  BY <1>0, <1>5, <1>9 DEF StepOfCall, At, Others
<1> QED BY <1>1, <1>2, <1>4, <1>6, <1>7, <1>8, <1>9

\* What the buyer had to say stays said, and each release was pressed after it.
LEMMA HeardStays ==
  ASSUME HeardInv, [MarketNext]_marketVars
  PROVE  HeardInv'
<1>1. MarketTyped /\ MarketTyped'
  BY MarketTypesKept DEF HeardInv
<1>2. order' = order
  BY <1>1, StepOfFacade DEF MarketTyped, order
<1>3. Heard => Heard'
  BY <1>1, EventsStay DEF Heard
<1>4. ASSUME NEW w \in Screens
      PROVE  ShowsEvents(view[w])'
  <2>1. \/ view'[w] = view[w]
        \/ view'[w] = Blank
        \/ \E s : view'[w] = buildView(s, FALSE, FALSE, events)
    BY <1>1, ViewsComeFromEvents
  <2>2. ShowsEvents(view[w]) /\ events \subseteq events'
    BY <1>1, EventsStay DEF HeardInv
  <2>3. CASE view'[w] = view[w]
    BY <2>2, <2>3 DEF ShowsEvents
  <2>4. CASE view'[w] = Blank
    BY <2>4 DEF ShowsEvents, Blank
  <2>5. ASSUME NEW s, view'[w] = buildView(s, FALSE, FALSE, events)
        PROVE  ShowsEvents(view[w])'
    <3>1. /\ view'[w].shipped => "mp.shipped" \in events
          /\ view'[w].confirmed => "mp.buyer_confirmed" \in events
          /\ view'[w].disputed => "mp.dispute" \in events
      BY <2>5, SignsOfView
    <3> QED BY <2>2, <3>1 DEF ShowsEvents
  <2> QED BY <2>1, <2>3, <2>4, <2>5
<1>5. ASSUME NEW w \in Screens, task'[w] = "confirm"
      PROVE  "mp.shipped" \in events
  <2>1. task[w] = "confirm" \/ PressConfirm(w)
    <3>1. task \in [Screens -> Tasks]
      BY <1>1 DEF MarketTyped, MarketTypeOK
    <3>2. ASSUME NEW v \in Screens, Presses(v), ~ PressConfirm(v)
          PROVE  \/ task' = task
                 \/ \E k \in Tasks \ {"confirm"} :
                      task' = [task EXCEPT ![v] = k]
      BY <3>2 DEF Presses, PressShip, PressDispute, PressRelease, PressRetry,
         PressRefund, CallKit, Then, Tasks, Buttons
    <3>3. ASSUME NEW v \in Screens, PressConfirm(v)
          PROVE  task' = [task EXCEPT ![v] = "confirm"]
      BY <3>3 DEF PressConfirm, Then
    <3>4. ASSUME NEW v \in Screens,
                 \/ RecordEvent(v) \/ ForwardEvents(v) \/ ForwardOrder(v)
                 \/ ForwardSend(v) \/ Board(v) \/ Reopen(v) \/ ReadFails(v)
          PROVE  \/ task' = task
                 \/ \E k \in Tasks \ {"confirm"} :
                      task' = [task EXCEPT ![v] = k]
      BY <3>4 DEF RecordEvent, ForwardEvents, ForwardOrder, ForwardSend, Board,
         Ask, Show, Reopen, ReadFails, Then, Done, Tasks
    <3>5. ASSUME NEW v \in Workers, KitStep(v) \/ Fails(v)
          PROVE  \/ task' = task
                 \/ \E k \in Tasks \ {"confirm"} :
                      v \in Screens /\ task' = [task EXCEPT ![v] = k]
      <4>1. CASE Fails(v)
        BY <4>1 DEF Fails, Done, Tasks
      <4>2. CASE KitStep(v) /\ v \in Screens
        <5>1. task[v] \in {"ship", "release", "retry", "refund"}
          BY <1>1, <4>2, ContinuesInFlight
             DEF KitStep, MarketTyped, CallsOfScene
        <5> QED
          BY <4>2, <5>1, TasksAfterKit DEF KitStep, Then, Done, Tasks
      <4>3. CASE KitStep(v) /\ v \notin Screens
        BY <4>3 DEF KitStep
      <4> QED BY <3>5, <4>1, <4>2, <4>3
    <3>6. ASSUME \/ \E v \in Workers \ Screens : Sweep(v)
                 \/ WindowPasses \/ World \/ UNCHANGED marketVars
          PROVE  task' = task
      BY <3>6 DEF Sweep, WindowPasses, World, marketVars, screen
    <3> QED BY <1>5, <3>1, <3>2, <3>3, <3>4, <3>5, <3>6 DEF MarketNext
  <2>2. CASE PressConfirm(w)
    BY <1>1, <2>2, OffersForSigns
       DEF PressConfirm, HeardInv, ShowsEvents, MarketTyped, MarketTypeOK
  <2> QED BY <2>1, <2>2 DEF HeardInv
<1>6. "mp.buyer_confirmed" \in events' => "mp.shipped" \in events'
  BY <1>1, EventsStay DEF HeardInv
<1>7. ASSUME NEW w \in Workers, At(w, "release.capture")'
      PROVE  Heard'
  BY <1>1, <1>3, <1>7, CapturesAreReleases, ReleaseIsHeard DEF HeardInv
<1>8. Captured(order)' => Heard'
  BY <1>1, <1>3, CapturesAreReleases DEF HeardInv
<1>9. Captured(order') = Captured(order)
  BY <1>2
<1> QED
  BY <1>1, <1>2, <1>4, <1>5, <1>6, <1>7, <1>8, EventsStay DEF HeardInv, Captured

\* For any scene, the escrow pays only after the buyer had their say.
THEOREM WindowsAreRespected == MarketSpec => []WindowRespected
<1>1. MarketInit => HeardInv
  <2> SUFFICES ASSUME MarketInit PROVE HeardInv
    OBVIOUS
  <2>1. MarketTyped
    BY MarketInitTyped
  <2>2. /\ events = {} /\ order \in Orders
        /\ \A w \in Screens : view[w] = Now /\ task[w] = "none"
        /\ \A w \in Workers : call[w] = Idle
    BY ScenesAssumption DEF MarketInit, order
  <2>3. ~ Captured(order)
    BY <2>2 DEF MarketInit, Captured
  <2>4. ShowsEvents(Now)
    BY DEF Now, ShowsEvents, buildView
  <2> QED BY <2>1, <2>2, <2>3, <2>4 DEF HeardInv, At, Idle
<1>2. HeardInv /\ [MarketNext]_marketVars => HeardInv'
  BY HeardStays
<1>3. HeardInv => WindowRespected
  BY DEF HeardInv, Heard, WindowRespected, Captured
<1> QED BY <1>1, <1>2, <1>3, PTL DEF MarketSpec

-----------------------------------------------------------------------------
(* The floor is forwarded once.                                             *)

ForwardTasks ==
    {"forward.events", "forward.order", "forward.send", "forward.event"}

\* The server action of screen w has captured the order, and has not ended.
Winner(w) ==
    \/ task[w] \in ForwardTasks
    \/ task[w] = "release" /\ ~ At(w, "idle") /\ ~ At(w, "release.capture")

\* What the server action of screen w knows of the forward.
ForwardsOnce(w) ==
    /\ Winner(w) /\ task[w] # "forward.event" => forwards = 0
    /\ task[w] = "forward.send" => Converted(order)
    /\ task[w] = "forward.event" => forwards = 1

\* The inductive invariant behind ForwardedOnce: one release captures, and the
\* floor is forwarded by the server action that waited for it.
ForwardInv ==
    /\ MarketTyped
    /\ \A w \in Screens : Winner(w) => Captured(order)
    /\ forwards > 0 => Captured(order) /\ Converted(order)
    /\ \A v, w \in Screens : Winner(v) /\ Winner(w) => v = w
    /\ \A w \in Screens : ForwardsOnce(w)
    /\ forwards \in {0, 1}
    /\ "mp.seller_payout" \in events => forwards = 1

\* What the escrow and the swap service have done stays done.
LEMMA FactsOfOrderStay ==
  ASSUME MarketTyped, [MarketNext]_marketVars
  PROVE  /\ order' = order /\ order \in Orders
         /\ Captured(order) => Captured(order)'
         /\ Converted(order) => Converted(order)'
<1>1. /\ [Next]_vars \/ FaultOfHost
      /\ order' = order
      /\ order \in Orders
  BY StepOfFacade, ScenesAssumption DEF MarketTyped, HostInv, order
<1>2. CASE [Next]_vars
  <2>1. FactsKept(order)
    BY <1>1, <1>2, FactsStay DEF MarketTyped, HostInv
  <2> QED BY <1>1, <2>1 DEF FactsKept
<1>3. CASE FaultOfHost
  BY <1>1, <1>3 DEF FaultOfHost, Captured, Converted
<1> QED BY <1>1, <1>2, <1>3

\* Nobody else stands at the place of the capture but a release.
LEMMA OnlyReleaseCaptures ==
  ASSUME NEW w, Continue(w), At(w, "release.capture")
  PROVE  ReleaseCapture(w)
  BY DEF Continue, At, TransitionRead, TransitionWrite, Emit, FundExecute,
     FundRecord, FundReread, ReleaseCapture, ReleaseSwap, ReleaseCaptureRow,
     SettleSwapRow, SettleRebate, SettleRebateRow, SettlePayout, PayoutQuote,
     PayoutSubmit, PayoutSave, PayoutRow, PayoutRebate, PayoutRebateRow,
     RetrySwap, RefreshRead, RefreshStatus, RefreshSave, RefreshRow,
     RefundEscrow, RefundBridge, ReconcileRead

\* A server action that has not won wins by a capture of its own, which is the
\* first: the escrow still held the payment.
LEMMA WinnersCapture ==
  ASSUME MarketTyped, [MarketNext]_marketVars, NEW w \in Screens,
         Winner(w)', ~ Winner(w)
  PROVE  /\ escrow[order] = "authorized"
         /\ Captured(order)'
         /\ task'[w] = "release"
         /\ UNCHANGED <<forwards, events>>
         /\ \A v \in Screens : v # w /\ Winner(v)' => Winner(v)
         /\ \A v \in Screens : v # w => task'[v] = task[v]
<1> USE DEF host, screen
<1>1. /\ task \in [Screens -> Tasks]
      /\ w \in Workers
      /\ TypeInv
      /\ \A v \in Screens : ~ At(v, "idle") => call[v].o = order
  BY ScenesAssumption
     DEF MarketTyped, MarketTypeOK, HostInv, EvidenceInv, CallsOfScene
<1>2. ASSUME NEW v \in Screens, Presses(v)
      PROVE  FALSE
  <2>1. /\ Others(v) \/ call' = call
        /\ \A u \in Screens : u # v => task'[u] = task[u]
        /\ task[v] = "none"
        /\ \/ task'[v] \in Buttons \ {"release"}
           \/ task'[v] = "ship.event"
           \/ task'[v] = "none"
           \/ task'[v] = "release" /\ call'[v].at = "release.capture"
    <3>1. task[v] = "none"
      BY <1>2 DEF Presses, PressShip, PressConfirm, PressDispute, PressRelease,
         PressRetry, PressRefund, Press
    <3>2. v \in Workers
      BY ScenesAssumption
    <3>3. \/ call' = call
          \/ Start(v, order, "release.capture")
          \/ Start(v, order, RetryRoad(order))
          \/ Depart(v, order, "shipped", "idle")
          \/ Depart(v, order, "refund_pending", "refund.escrow")
      BY <1>2 DEF Presses, PressShip, PressConfirm, PressDispute, PressRelease,
         PressRetry, PressRefund, CallKit, Ship, HostMove, Release,
         RetrySettlement, Refund
    <3>4. /\ \A u \in Screens : u # v => task'[u] = task[u]
          /\ \/ task'[v] \in Buttons \ {"release"}
             \/ task'[v] = "ship.event"
             \/ task'[v] = "none"
             \/ task'[v] = "release" /\ Start(v, order, "release.capture")
      BY <1>1, <1>2, <3>1
         DEF Presses, PressShip, PressConfirm, PressDispute, PressRelease,
         PressRetry, PressRefund, CallKit, Then, Release, Buttons
    <3> QED
      BY <1>1, <3>1, <3>2, <3>3, <3>4, StartFields, DepartFields
  <2> QED BY <1>1, <1>2, <2>1 DEF Winner, Others, At, ForwardTasks, Buttons
<1>3. ASSUME NEW v \in Screens,
             \/ RecordEvent(v) \/ ForwardEvents(v) \/ ForwardOrder(v)
             \/ ForwardSend(v) \/ Board(v) \/ Reopen(v) \/ ReadFails(v)
      PROVE  FALSE
  BY <1>1, <1>3
     DEF RecordEvent, ForwardEvents, ForwardOrder, ForwardSend, Board, Ask,
         Show, Reopen, ReadFails, Then, Done, Winner, ForwardTasks, At
<1>4. ASSUME NEW v \in Workers \ Screens, Sweep(v)
      PROVE  FALSE
  BY <1>1, <1>4, StartFields
     DEF Sweep, RefreshPayout, Winner, Others, At
<1>5. ASSUME NEW v \in Workers, Fails(v)
      PROVE  FALSE
  <2>1. /\ Others(v) \/ call' = call
        /\ \A u \in Screens : u # v => task'[u] = task[u]
        /\ v \in Screens => task'[v] = "none"
    BY <1>1, <1>5, EndFields DEF Fails, Interrupt, Done
  <2> QED BY <1>1, <2>1 DEF Winner, Others, At, ForwardTasks
<1>6. ASSUME WindowPasses \/ World \/ UNCHANGED marketVars
      PROVE  FALSE
  BY <1>6 DEF WindowPasses, World, Outside, TimePasses, Reclaim, RailSettles,
     marketVars, Winner, At
<1>7. PICK v \in Workers : KitStep(v)
  BY <1>2, <1>3, <1>4, <1>5, <1>6 DEF MarketNext
<1>8. /\ StepOfCall(v) /\ ~ At(v, "idle")
      /\ \A u \in Screens : u # v => task'[u] = task[u]
      /\ UNCHANGED <<forwards, events>>
  BY <1>1, <1>7, CallSteps, ContinuesInFlight DEF KitStep, Then, Done
<1>9. v = w
  BY <1>1, <1>8 DEF StepOfCall, Others, Winner, At
<1>10. At(w, "release.capture") /\ task[w] = "release" /\ task'[w] = "release"
       /\ call'[w].at # "idle"
  <2>1. /\ Idle.at = "idle"
        /\ task[w] \in {"ship", "release", "retry", "refund"}
    BY <1>8, <1>9 DEF Idle, MarketTyped, CallsOfScene
  <2>2. CASE call'[w] # Idle
    BY <1>7, <1>8, <1>9, <2>1, <2>2 DEF KitStep, Winner, ForwardTasks, At
  <2>3. CASE call'[w] = Idle /\ task'[w] = "none"
    BY <2>3 DEF Winner, ForwardTasks
  <2>4. CASE Returns(w) /\ task'[w] = AfterKit(w)
    <3>1. task[w] # "release"
      BY <1>8, <1>9, <2>4 DEF Returns, Winner, At
    <3> QED
      BY <2>1, <2>4, <3>1 DEF AfterKit, Winner, ForwardTasks
  <2> QED
    BY <1>1, <1>7, <1>9, <2>2, <2>3, <2>4 DEF KitStep, Then, Done
<1>11. ReleaseCapture(w) /\ call[w].o = order
  BY <1>1, <1>7, <1>8, <1>9, <1>10, OnlyReleaseCaptures DEF KitStep
<1>12. escrow[order] = "authorized"
  BY <1>1, <1>10, <1>11, CaptureTakesAll
<1>13. Captured(order)'
  <2>1. escrow' = [escrow EXCEPT ![order] = "captured"]
    BY <1>1, <1>10, <1>11, EndFields DEF ReleaseCapture, CaptureReverts
  <2> QED
    BY <1>1, <2>1, FactsOfOrderStay DEF Captured, TypeInv, TypeOK
<1>14. ASSUME NEW u \in Screens, u # w
       PROVE  task'[u] = task[u] /\ (Winner(u)' => Winner(u))
  <2>1. u \in Workers
    BY ScenesAssumption
  <2>2. task'[u] = task[u] /\ call'[u] = call[u]
    BY <1>8, <1>9, <1>14, <2>1 DEF StepOfCall, Others
  <2> QED BY <2>2 DEF Winner, At
<1> QED
  BY <1>8, <1>10, <1>12, <1>13, <1>14

\* Steps that forward nothing and record nothing of it.
LEMMA OthersForwardNothing ==
  ASSUME MarketTyped, [MarketNext]_marketVars,
         \A w \in Screens :
           ~ (RecordEvent(w) \/ ForwardOrder(w) \/ ForwardSend(w))
  PROVE  /\ UNCHANGED <<forwards, events>>
         /\ \A w \in Screens :
              /\ task'[w] \in {"forward.send", "forward.event"} =>
                   task'[w] = task[w]
              /\ task[w] = "forward.event" =>
                   task'[w] \in {"forward.event", "none"}
<1> USE DEF host, screen
<1>1. /\ task \in [Screens -> Tasks]
      /\ \A v \in Screens : ~ At(v, "idle") =>
           task[v] \in {"ship", "release", "retry", "refund"}
  BY ScenesAssumption DEF MarketTyped, MarketTypeOK, CallsOfScene
<1>. DEFINE Harmless ==
              \A w \in Screens :
                \/ task'[w] \in {task[w], "none"}
                \/ /\ task[w] # "forward.event"
                   /\ task'[w] \notin {"forward.send", "forward.event"}
<1>2. ASSUME NEW v \in Screens, Presses(v)
      PROVE  UNCHANGED <<forwards, events>> /\ Harmless
  <2>1. UNCHANGED <<forwards, events>> /\ task[v] = "none"
    BY <1>2 DEF Presses, PressShip, PressConfirm, PressDispute, PressRelease,
       PressRetry, PressRefund, Press
  <2>2. \/ task' = task
        \/ \E k \in Buttons \cup {"ship.event"} :
             task' = [task EXCEPT ![v] = k]
    BY <1>2 DEF Presses, PressShip, PressConfirm, PressDispute, PressRelease,
       PressRetry, PressRefund, CallKit, Then, Buttons
  <2>3. ASSUME NEW w \in Screens
        PROVE  \/ task'[w] = task[w]
               \/ task[w] = "none" /\ task'[w] \in Buttons \cup {"ship.event"}
    BY <1>1, <2>1, <2>2
  <2>4. ASSUME NEW w \in Screens
        PROVE  \/ task'[w] = task[w]
               \/ /\ task[w] # "forward.event"
                  /\ task'[w] \notin {"forward.send", "forward.event"}
    BY <2>3 DEF Buttons
  <2> QED BY <2>1, <2>4
<1>3. ASSUME NEW v \in Screens,
             ForwardEvents(v) \/ Board(v) \/ Reopen(v) \/ ReadFails(v)
      PROVE  UNCHANGED <<forwards, events>> /\ Harmless
  <2>1. /\ UNCHANGED <<forwards, events>>
        /\ \/ task' = task
           \/ task[v] = "forward.events" /\ task' = [task EXCEPT ![v] = "none"]
           \/ /\ task[v] = "forward.events"
              /\ task' = [task EXCEPT ![v] = "forward.order"]
    BY <1>3 DEF ForwardEvents, Board, Ask, Show, Reopen, ReadFails, Then, Done
  <2>2. ASSUME NEW w \in Screens
        PROVE  \/ task'[w] = task[w]
               \/ /\ task[w] # "forward.event"
                  /\ task'[w] \notin {"forward.send", "forward.event"}
    BY <1>1, <2>1
  <2> QED BY <2>1, <2>2
<1>4. ASSUME NEW v \in Workers, KitStep(v)
      PROVE  UNCHANGED <<forwards, events>> /\ Harmless
  <2>1. CASE v \in Screens
    <3>1. task[v] \in {"ship", "release", "retry", "refund"}
      BY <1>1, <1>4, <2>1, ContinuesInFlight DEF KitStep
    <3>2. AfterKit(v) \in {"ship.event", "forward.events", "none"}
      BY <3>1, TasksAfterKit
    <3> QED BY <1>1, <1>4, <2>1, <3>1, <3>2 DEF KitStep, Then, Done
  <2>2. CASE v \notin Screens
    BY <1>4, <2>2 DEF KitStep
  <2> QED BY <2>1, <2>2
<1>5. ASSUME NEW v \in Workers, Fails(v)
      PROVE  UNCHANGED <<forwards, events>> /\ Harmless
  BY <1>1, <1>5 DEF Fails, Done
<1>6. ASSUME \/ \E v \in Workers \ Screens : Sweep(v)
             \/ WindowPasses \/ World \/ UNCHANGED marketVars
      PROVE  UNCHANGED <<forwards, events>> /\ Harmless
  BY <1>6 DEF Sweep, WindowPasses, World, marketVars
<1>7. UNCHANGED <<forwards, events>> /\ Harmless
  BY <1>2, <1>3, <1>4, <1>5, <1>6 DEF MarketNext
<1> QED BY <1>1, <1>7

\* The forward happens once, for the one server action that captured.
LEMMA ForwardingKept ==
  ASSUME ForwardInv, [MarketNext]_marketVars
  PROVE  ForwardInv'
<1>1. /\ MarketTyped /\ MarketTyped'
      /\ task \in [Screens -> Tasks]
      /\ forwards \in Nat
  BY MarketTypesKept DEF ForwardInv, MarketTyped, MarketTypeOK
<1>2. /\ order' = order /\ order \in Orders
      /\ Captured(order) => Captured(order)'
      /\ Converted(order) => Converted(order)'
  BY <1>1, FactsOfOrderStay
<1>3. CASE \E w \in Screens : Winner(w)' /\ ~ Winner(w)
  <2>1. PICK w \in Screens : Winner(w)' /\ ~ Winner(w)
    BY <1>3
  <2>2. /\ escrow[order] = "authorized"
        /\ Captured(order)'
        /\ task'[w] = "release"
        /\ UNCHANGED <<forwards, events>>
        /\ \A v \in Screens : v # w /\ Winner(v)' => Winner(v)
        /\ \A v \in Screens : v # w => task'[v] = task[v]
    BY <1>1, <2>1, WinnersCapture
  <2>3. ~ Captured(order)
    BY <2>2 DEF Captured
  <2>4. \A v \in Screens : ~ Winner(v)
    BY <2>3 DEF ForwardInv
  <2>5. forwards = 0 /\ "mp.seller_payout" \notin events
    BY <2>3 DEF ForwardInv
  <2>6. \A v \in Screens : task'[v] \notin {"forward.send", "forward.event"}
    BY <2>2, <2>4 DEF Winner, ForwardTasks
  <2>7. \A v \in Screens : Winner(v)' => v = w
    BY <2>2, <2>4
  <2>8. \A v \in Screens : ForwardsOnce(v)'
    BY <2>2, <2>5, <2>6 DEF ForwardsOnce
  <2> QED
    BY <1>1, <1>2, <2>2, <2>5, <2>7, <2>8 DEF ForwardInv
<1>4. CASE \A w \in Screens : Winner(w)' => Winner(w)
  <2>1. ASSUME \A w \in Screens : ForwardsOnce(w)',
               forwards' \in {0, 1},
               forwards' > 0 => Captured(order) /\ Converted(order),
               "mp.seller_payout" \in events' => forwards' = 1
        PROVE  ForwardInv'
    BY <1>1, <1>2, <1>4, <2>1 DEF ForwardInv, Captured, Converted
  <2>2. /\ \A w \in Screens : ForwardsOnce(w)
        /\ forwards \in {0, 1}
        /\ forwards > 0 => Captured(order) /\ Converted(order)
        /\ "mp.seller_payout" \in events => forwards = 1
        /\ \A w \in Screens : Winner(w) => Captured(order)
        /\ \A v, w \in Screens : Winner(v) /\ Winner(w) => v = w
    BY DEF ForwardInv
  <2>3. ASSUME NEW w \in Screens, ForwardSend(w)
        PROVE  ForwardInv'
    <3>1. Winner(w) /\ task[w] = "forward.send"
      BY <2>3 DEF ForwardSend, Winner, ForwardTasks
    <3>2. /\ forwards = 0 /\ forwards' = 1
          /\ Captured(order) /\ Converted(order)
          /\ events' = events
      BY <2>2, <2>3, <3>1 DEF ForwardSend, ForwardsOnce
    <3>3. /\ task'[w] \in {"forward.event", "none"}
          /\ \A v \in Screens : v # w => task'[v] = task[v]
      BY <1>1, <2>3 DEF ForwardSend, Then, Done
    <3>4. ASSUME NEW v \in Screens, v # w
          PROVE  ~ Winner(v)' /\ task'[v] \notin ForwardTasks
      BY <1>4, <2>2, <3>1, <3>3, <3>4 DEF Winner
    <3>5. ForwardsOnce(w)'
      <4>1. task'[w] = "none" => ~ Winner(w)'
        BY DEF Winner, ForwardTasks
      <4> QED BY <3>2, <3>3, <4>1 DEF ForwardsOnce
    <3>6. \A v \in Screens : ForwardsOnce(v)'
      BY <3>4, <3>5 DEF ForwardsOnce, ForwardTasks
    <3> QED BY <2>1, <2>2, <3>2, <3>6
  <2>4. ASSUME NEW w \in Screens, RecordEvent(w)
        PROVE  ForwardInv'
    <3>1. /\ forwards' = forwards
          /\ "mp.seller_payout" \in events' =>
               "mp.seller_payout" \in events \/ task[w] = "forward.event"
      BY <2>4, EventsOfTasks DEF RecordEvent
    <3>2. /\ task'[w] = "none"
          /\ \A v \in Screens : v # w => task'[v] = task[v]
      BY <1>1, <2>4 DEF RecordEvent, Done
    <3>3. ~ Winner(w)'
      BY <3>2 DEF Winner, ForwardTasks
    <3>4. \A v \in Screens : ForwardsOnce(v)'
      BY <1>2, <1>4, <2>2, <3>1, <3>2, <3>3 DEF ForwardsOnce
    <3>5. "mp.seller_payout" \in events' => forwards' = 1
      BY <2>2, <3>1 DEF ForwardsOnce
    <3> QED BY <2>1, <2>2, <3>1, <3>4, <3>5
  <2>5. ASSUME NEW w \in Screens, ForwardOrder(w)
        PROVE  ForwardInv'
    <3>1. /\ UNCHANGED <<forwards, events>>
          /\ task[w] = "forward.order"
          /\ \/ task'[w] = "none"
             \/ task'[w] = "forward.send" /\ state[order] = "released"
          /\ \A v \in Screens : v # w => task'[v] = task[v]
      BY <1>1, <2>5 DEF ForwardOrder, Then, Done
    <3>2. state[order] = "released" => Converted(order)
      BY <1>1, <1>2
         DEF MarketTyped, HostInv, EvidenceInv, RecordBacked, Backs
    <3>3. forwards = 0
      BY <2>2, <3>1 DEF ForwardsOnce, Winner, ForwardTasks
    <3>4. \A v \in Screens : ForwardsOnce(v)'
      BY <1>2, <1>4, <2>2, <3>1, <3>2, <3>3 DEF ForwardsOnce
    <3> QED BY <2>1, <2>2, <3>1, <3>4
  <2>6. CASE \A w \in Screens :
               ~ (RecordEvent(w) \/ ForwardOrder(w) \/ ForwardSend(w))
    <3>1. /\ UNCHANGED <<forwards, events>>
          /\ \A w \in Screens :
               /\ task'[w] \in {"forward.send", "forward.event"} =>
                    task'[w] = task[w]
               /\ task[w] = "forward.event" =>
                    task'[w] \in {"forward.event", "none"}
      BY <1>1, <2>6, OthersForwardNothing
    <3>2. ASSUME NEW w \in Screens
          PROVE  ForwardsOnce(w)'
      <4>1. task'[w] = "none" => ~ Winner(w)'
        BY DEF Winner, ForwardTasks
      <4> QED BY <1>2, <1>4, <2>2, <3>1, <4>1 DEF ForwardsOnce
    <3> QED BY <2>1, <2>2, <3>1, <3>2
  <2> QED BY <2>3, <2>4, <2>5, <2>6
<1> QED BY <1>3, <1>4

\* For any scene, the seller is sent one floor at most, of EURC this order was
\* swapped for.
THEOREM FloorIsForwardedOnce == MarketSpec => []ForwardedOnce
<1>1. MarketInit => ForwardInv
  <2> SUFFICES ASSUME MarketInit PROVE ForwardInv
    OBVIOUS
  <2>1. \A w \in Screens : task[w] = "none"
    BY DEF MarketInit
  <2>2. \A w \in Screens : ~ Winner(w)
    BY <2>1 DEF Winner, ForwardTasks
  <2> QED
    BY <2>1, <2>2, MarketInitTyped DEF MarketInit, ForwardInv, ForwardsOnce
<1>2. ForwardInv /\ [MarketNext]_marketVars => ForwardInv'
  BY ForwardingKept
<1>3. ForwardInv => ForwardedOnce
  <2> SUFFICES ASSUME ForwardInv PROVE ForwardedOnce
    OBVIOUS
  <2>1. swaps[order] \in Nat
    BY ScenesAssumption DEF ForwardInv, MarketTyped, HostInv, EvidenceInv,
       TypeInv, TypeOK, order
  <2> QED BY <2>1 DEF ForwardInv, ForwardedOnce, Converted
<1> QED BY <1>1, <1>2, <1>3, PTL DEF MarketSpec

-----------------------------------------------------------------------------
(* Disputes.                                                                *)

\* A view that shows a dispute offers no settling.
LEMMA DisputedIsNotSettled ==
  ASSUME NEW v \in MarketViews, settleable(v)
  PROVE  v.state \in {"funded", "shipped"} /\ ~ v.disputed
  BY DEF settleable, deriveStatus, StatusOf, Unfunded, MarketViews,
     MarketStates, Views, ORDER_STATES, Blank

\* A current screen releases an order under dispute only as a judgement.
THEOREM DisputesAreJudged == MarketSpec => DisputeIsJudged
<1>1. ASSUME MarketTyped
      PROVE  \A w \in Screens :
               /\ PressRelease(w)
               /\ "mp.dispute" \in events /\ view[w] = Now
               => canJudge(view[w])
  <2> SUFFICES ASSUME NEW w \in Screens, PressRelease(w),
                      "mp.dispute" \in events, view[w] = Now,
                      ~ canJudge(view[w])
               PROVE  FALSE
    OBVIOUS
  <2>1. settleable(view[w]) /\ view[w] \in MarketViews
    BY <1>1 DEF PressRelease, MarketTyped, MarketTypeOK
  <2>2. view[w].state \in {"funded", "shipped"} /\ ~ view[w].disputed
    BY <2>1, DisputedIsNotSettled
  <2>3. /\ view[w].state = state[order]
        /\ state[order] \in Judged \/ view[w].disputed
    <3>1. view[w] = buildView(state[order], FALSE, FALSE, events)
      BY DEF Now
    <3>2. view[w].state = state[order]
      BY <3>1 DEF buildView
    <3>3. view[w].disputed = ("mp.dispute" \in events /\ state[order] \notin Judged)
      BY <3>1 DEF buildView
    <3> QED BY <3>2, <3>3
  <2> QED BY <2>2, <2>3 DEF Judged
<1>2. MarketTyped /\ [MarketNext]_marketVars => MarketTyped'
  BY MarketTypesKept
<1>3. MarketTyped /\ [MarketNext]_marketVars =>
        [\A w \in Screens :
           /\ PressRelease(w)
           /\ "mp.dispute" \in events /\ view[w] = Now
           => canJudge(view[w])]_marketVars
  BY <1>1
<1> QED
  BY <1>2, <1>3, MarketInitTyped, PTL DEF MarketSpec, DisputeIsJudged

-----------------------------------------------------------------------------
(* Buttons pressed in turn.                                                 *)

\* A step of the marketplace gives at most one screen a task, and does so for
\* the press of a button.
LEMMA TasksOfStep ==
  ASSUME MarketTyped, [MarketNext]_marketVars
  PROVE  /\ overtaken => overtaken'
         /\ \/ \A w \in Screens : task'[w] = "none" \/ task[w] # "none"
            \/ /\ Alone \/ overtaken'
               /\ \E w \in Screens :
                    \A v \in Screens : v # w => task'[v] = task[v]
<1> USE DEF host, screen
<1>1. task \in [Screens -> Tasks]
  BY DEF MarketTyped, MarketTypeOK
<1>. DEFINE Quieter == \A w \in Screens : task'[w] = "none" \/ task[w] # "none"
<1>2. ASSUME NEW w \in Screens, Presses(w)
      PROVE  /\ overtaken \/ ~ Alone => overtaken'
             /\ \A v \in Screens : v # w => task'[v] = task[v]
  <2>1. overtaken \/ ~ Alone => overtaken'
    BY <1>2 DEF Presses, PressShip, PressConfirm, PressDispute, PressRelease,
       PressRetry, PressRefund, Press
  <2>2. task' = task \/ \E k : task' = [task EXCEPT ![w] = k]
    BY <1>2 DEF Presses, PressShip, PressConfirm, PressDispute, PressRelease,
       PressRetry, PressRefund, CallKit, Then
  <2> QED BY <1>1, <2>1, <2>2
<1>3. ASSUME NEW w \in Screens,
             \/ RecordEvent(w) \/ ForwardEvents(w) \/ ForwardOrder(w)
             \/ ForwardSend(w) \/ Board(w) \/ Reopen(w) \/ ReadFails(w)
      PROVE  overtaken' = overtaken /\ Quieter
  <2>1. task' = task \/ (task[w] # "none" /\ \E k : task' = [task EXCEPT ![w] = k])
    BY <1>3 DEF RecordEvent, ForwardEvents, ForwardOrder, ForwardSend, Board,
       Ask, Show, Reopen, ReadFails, Then, Done, EventOf
  <2>2. overtaken' = overtaken
    BY <1>3 DEF RecordEvent, ForwardEvents, ForwardOrder, ForwardSend, Board,
       Ask, Show, Reopen, ReadFails
  <2> QED BY <1>1, <2>1, <2>2
<1>4. ASSUME NEW w \in Workers, KitStep(w)
      PROVE  overtaken' = overtaken /\ Quieter
  <2>1. w \in Screens => task[w] # "none"
    BY <1>4, ContinuesInFlight DEF KitStep, MarketTyped, CallsOfScene
  <2>2. \/ task' = task
        \/ w \in Screens /\ \E k : task' = [task EXCEPT ![w] = k]
    BY <1>4 DEF KitStep, Then, Done
  <2> QED BY <1>1, <1>4, <2>1, <2>2 DEF KitStep
<1>5. ASSUME NEW w \in Workers, Fails(w)
      PROVE  overtaken' = overtaken /\ Quieter
  BY <1>1, <1>5 DEF Fails, Done
<1>6. ASSUME \/ \E w \in Workers \ Screens : Sweep(w)
             \/ WindowPasses \/ World \/ UNCHANGED marketVars
      PROVE  overtaken' = overtaken /\ Quieter
  BY <1>6 DEF Sweep, WindowPasses, World, marketVars
<1>7. \/ \E w \in Screens : Presses(w)
      \/ overtaken' = overtaken /\ Quieter
  <2> HIDE DEF Quieter
  <2> QED BY <1>3, <1>4, <1>5, <1>6 DEF MarketNext
<1> QED BY <1>2, <1>7

\* What is read and shown of a wallet order is never a payout on its way, so
\* that no sweep begins.
LEMMA NothingToSweepKept ==
  ASSUME MarketTyped, MarketTyped', [MarketNext]_marketVars, NothingToSweep,
         order \notin BankOrders, order' = order
  PROVE  NothingToSweep'
<1> USE DEF host, screen
<1>1. /\ state[order] # "payout_pending" /\ state'[order] # "payout_pending"
      /\ view \in [Screens -> MarketViews]
      /\ reading \in [Screens -> MarketStates \cup {"none"}]
      /\ SweepOf \in [Workers \ Screens -> Screens]
  <2>1. order \in Orders
    BY ScenesAssumption DEF MarketTyped, HostInv, order
  <2>2. /\ MoneyInOrder(order) /\ Backs(order, state[order])
        /\ MoneyInOrder(order)' /\ Backs(order, state[order])'
    BY <2>1 DEF MarketTyped, HostInv, EvidenceInv, RecordBacked
  <2> QED
    BY <2>2, ScenesAssumption
       DEF MoneyInOrder, Backs, MarketTyped, MarketTypeOK
<1>2. ASSUME NEW w, Refresh(w), NEW v \in Screens
      PROVE  reading'[v] # "payout_pending"
  BY <1>1, <1>2 DEF Refresh, NothingToSweep
<1>3. ASSUME NEW w \in Screens
      PROVE  view'[w].state # "payout_pending"
  <2>1. ASSUME NEW v \in Screens, Show(v)
        PROVE  view'[w] \in {view[w], buildView(reading[v], FALSE, FALSE, events)}
    BY <1>1, <2>1 DEF Show
  <2>2. ASSUME NEW v \in Screens, Reopen(v)
        PROVE  view'[w] \in {view[w], buildView(state[order], FALSE, FALSE, events)}
    BY <1>1, <2>2 DEF Reopen, Now
  <2>3. ASSUME NEW v \in Screens, ReadFails(v)
        PROVE  view'[w] \in {view[w], Blank}
    BY <1>1, <2>3 DEF ReadFails
  <2>4. CASE /\ \A v \in Screens : ~ (Show(v) \/ Reopen(v) \/ ReadFails(v))
    BY <2>4 DEF MarketNext, Presses, PressShip, PressConfirm, PressDispute,
       PressRelease, PressRetry, PressRefund, Press, RecordEvent,
       ForwardEvents, ForwardOrder, ForwardSend, Board, Ask, Sweep, KitStep,
       Fails, WindowPasses, World, marketVars, NothingToSweep
  <2> QED
    <3>1. /\ view[w].state # "payout_pending"
          /\ Blank.state # "payout_pending"
      BY DEF NothingToSweep, Blank
    <3>2. ASSUME NEW s, s # "payout_pending"
          PROVE  buildView(s, FALSE, FALSE, events).state # "payout_pending"
      BY <3>2, SignsOfView
    <3>3. \A v \in Screens : reading[v] # "payout_pending"
      BY DEF NothingToSweep
    <3> QED BY <1>1, <2>1, <2>2, <2>3, <2>4, <3>1, <3>2, <3>3
<1>4. ASSUME NEW v \in Screens
      PROVE  reading'[v] # "payout_pending"
  <2>1. \/ reading' = reading
        \/ \E w : Refresh(w)
        \/ \E w : \E s \in {"none", state[order]} :
             reading' = [reading EXCEPT ![w] = s]
    BY DEF MarketNext, Presses, PressShip, PressConfirm, PressDispute,
       PressRelease, PressRetry, PressRefund, CallKit, RecordEvent, Done,
       ForwardEvents, ForwardOrder, ForwardSend, Board, Ask, Show, Reopen,
       ReadFails, Sweep, KitStep, Fails, WindowPasses, World, marketVars
  <2> QED BY <1>1, <1>2, <2>1 DEF NothingToSweep
<1>5. ASSUME NEW v \in Workers \ Screens
      PROVE  At(v, "idle")'
  <2>1. /\ At(v, "idle") /\ \A w \in Workers \ Screens : ~ Sweep(w)
        /\ TypeInv /\ Screens \subseteq Workers
    BY <1>1, ScenesAssumption
       DEF NothingToSweep, Sweep, MarketTyped, HostInv, EvidenceInv
  <2>2. call' = call \/ \E w \in Workers \ {v} : Others(w)
    <3>1. ASSUME NEW w \in Screens, Presses(w)
          PROVE  call' = call \/ Others(w)
      <4>1. \/ call' = call
            \/ \E l : Start(w, order, l)
            \/ \E to, l : Depart(w, order, to, l)
        BY <3>1 DEF Presses, PressShip, PressConfirm, PressDispute,
           PressRelease, PressRetry, PressRefund, CallKit, Ship, Release,
           RetrySettlement, Refund, HostMove
      <4> QED BY <2>1, <4>1, StartFields, DepartFields
    <3>2. ASSUME NEW w \in Workers, KitStep(w)
          PROVE  Others(w) /\ w # v
      BY <2>1, <3>2, CallSteps, ContinuesInFlight
         DEF KitStep, StepOfCall, MarketTyped, HostInv, EvidenceInv
    <3>3. ASSUME NEW w \in Workers, Fails(w)
          PROVE  call' = call \/ (Others(w) /\ w # v)
      BY <2>1, <3>3, EndFields DEF Fails, Interrupt
    <3>4. ASSUME NEW w \in Screens
          PROVE  w \in Workers \ {v}
      BY ScenesAssumption
    <3>5. ASSUME \A w \in Screens : ~ Presses(w),
                 \A w \in Workers : ~ KitStep(w) /\ ~ Fails(w)
          PROVE  call' = call
      BY <2>1, <3>5
         DEF MarketNext, RecordEvent, ForwardEvents, ForwardOrder, ForwardSend,
             Board, Ask, Show, Reopen, ReadFails, WindowPasses, World, Outside,
             TimePasses, Reclaim, RailSettles, marketVars
    <3> QED BY <3>1, <3>2, <3>3, <3>4, <3>5
  <2> QED BY <2>1, <2>2 DEF Others, At
<1> QED BY <1>3, <1>4, <1>5 DEF NothingToSweep

\* A fault of the host's own moves no money and no call.
LEMMA FaultKeepsAlone ==
  ASSUME AloneInv, FaultOfHost
  PROVE  AloneInv'
<1>1. EvidenceInv'
  BY FaultKeepsEvidence DEF AloneInv
<1>2. faults' # 0
  BY DEF FaultOfHost, AloneInv, EvidenceInv, TypeInv, TypeOK
<1>3. \A o \in Orders : StateTells(o)'
  BY DEF AloneInv, StateTells, IsLatest, FaultOfHost
<1>4. \A w \in Workers : CallTells(call[w])'
  BY DEF AloneInv, CallTells, MoveFits, IsLatest, FaultOfHost
<1> QED BY <1>1, <1>2, <1>3, <1>4 DEF AloneInv, Accounted, AheadKnows

LEMMA InTurnKept ==
  ASSUME MarketTyped, InTurnInv, [MarketNext]_marketVars
  PROVE  InTurnInv'
<1>1. /\ MarketTyped' /\ order' = order
      /\ [Next]_vars \/ FaultOfHost
  BY MarketTypesKept, StepOfFacade DEF MarketTyped, order
<1> SUFFICES ASSUME order \notin BankOrders, ~ overtaken'
             PROVE  OneAction' /\ NothingToSweep' /\ AloneInv'
  BY <1>1 DEF InTurnInv
<1>2. OneAction /\ NothingToSweep /\ AloneInv
  BY TasksOfStep DEF InTurnInv
<1>3. OneAction'
  BY <1>2, TasksOfStep DEF OneAction, Alone
<1>4. NothingToSweep'
  BY <1>1, <1>2, NothingToSweepKept
<1>5. OneCall /\ OneCall'
  BY <1>1, <1>2, <1>3, <1>4
     DEF OneAction, NothingToSweep, OneCall, MarketTyped, CallsOfScene, At
<1> QED BY <1>1, <1>2, <1>3, <1>4, <1>5, AloneKept, FaultKeepsAlone

\* An order that has just been funded is settled.
LEMMA InTurnStarts == MarketInit => InTurnInv
<1> SUFFICES ASSUME MarketInit, order \notin BankOrders
             PROVE  OneAction /\ NothingToSweep /\ AloneInv
  BY DEF InTurnInv
<1>1. EvidenceInv /\ \A w \in Workers : call[w].at = "idle"
  BY FundedIsBacked DEF HostInv, MarketInit, Idle
<1>2. OneAction
  BY DEF MarketInit, OneAction
<1>3. NothingToSweep
  <2>1. state[order] = "funded"
    BY ScenesAssumption DEF MarketInit, order
  <2>2. Now.state = "funded"
    BY <2>1, SignsOfView DEF Now
  <2>3. \A w \in Screens : view[w] = Now /\ reading[w] = "none"
    BY DEF MarketInit
  <2> QED BY <1>1, <2>2, <2>3 DEF NothingToSweep, At
<1>4. ASSUME NEW o \in Orders
      PROVE  StateTells(o) /\ Settled(o)
  <2>1. /\ state[o] = IF o = order THEN "funded" ELSE "created"
        /\ fundedAt[o] = (o = order)
        /\ escrow[o] = IF o = order THEN "authorized" ELSE "none"
        /\ \A k \in PaymentIds : rail[o][k] = "none"
    BY DEF MarketInit
  <2>2. \A e \in OneTimeEvents :
          emitted[o][e] = IF o = order /\ e = "funded" THEN 1 ELSE 0
    BY DEF MarketInit, OneTimeEvents, Events
  <2>3. \A e \in OneTimeEvents :
          emitted[o][e] <= 1 /\ (emitted[o][e] > 0 => state[o] \in After[e])
    <3>1. "funded" \in After["funded"]
      BY DEF After, ORDER_STATES
    <3> QED BY <2>1, <2>2, <3>1
  <2> QED
    BY <2>1, <2>3
       DEF StateTells, Settled, NoneOutstanding, isOffRamped, isFunded
<1> QED
  BY <1>1, <1>2, <1>3, <1>4
     DEF AloneInv, CallTells, Accounted, AheadKnows, IsAhead, BoundFor,
         InTransition

\* What a current view offers of an order, it offers for its state.
LEMMA OffersForStates ==
  ASSUME MarketTyped
  PROVE  /\ settleable(Now) \/ canJudge(Now) =>
              state[order] \in {"funded", "shipped"}
         /\ canRetry(Now) => state[order] = "settlement_pending"
<1>1. Now \in MarketViews /\ Now.state = state[order]
  BY ViewsTyped, SignsOfView DEF MarketTyped, Now
<1>2. canJudge(Now) => Now.state \notin DOMAIN StatusOf
  BY <1>1 DEF canJudge, deriveStatus, StatusOf, Unfunded, MarketViews,
     MarketStates, Views, ORDER_STATES, Blank
<1>3. canJudge(Now) => Now.state \in {"funded", "shipped"}
  BY <1>1, <1>2 DEF MarketTyped, MarketStates, ORDER_STATES, StatusOf
<1> QED BY <1>1, <1>3, DisputedIsNotSettled DEF canRetry

\* Any number of screens that press their buttons in turn, on what is still so,
\* are offered a release or a retry only where the money allows it, until the
\* order's rebate throws: rebates are wired for every order, as the host wires
\* them.
THEOREM OffersAreRight == MarketSpec => []OffersMatchEscrow
<1>1. MarketTyped /\ InTurnInv => OffersMatchEscrow
  <2> SUFFICES ASSUME MarketTyped, InTurnInv, order \notin BankOrders, Alone,
                      ~ overtaken, faults = 0, "threw" \notin rebates[order]
               PROVE  /\ settleable(Now) \/ canJudge(Now) =>
                           escrow[order] \in {"authorized", "reclaimed"}
                      /\ canRetry(Now) =>
                           escrow[order] = "captured" /\ swaps[order] = 0
    BY DEF OffersMatchEscrow
  <2>1. /\ order \in Orders /\ NothingToSweep /\ AloneInv
    BY ScenesAssumption DEF InTurnInv, MarketTyped, HostInv, order
  <2>2. \A w \in Workers : call[w].at = "idle"
    BY <2>1 DEF Alone, NothingToSweep, MarketTyped, CallsOfScene, At
  <2>3. StateTells(order) /\ Settled(order) /\ NothingAfterSwap(order)
    BY <2>1, <2>2 DEF AloneInv, Accounted, IsAhead, BoundFor, InTransition,
       NothingAfterSwap
  <2> QED BY <2>3, OffersForStates DEF Settled, StateTells
<1>2. MarketTyped /\ InTurnInv /\ [MarketNext]_marketVars =>
        (MarketTyped /\ InTurnInv)'
  BY InTurnKept, MarketTypesKept
<1> QED
  BY <1>1, <1>2, MarketInitTyped, InTurnStarts, PTL DEF MarketSpec
=============================================================================
