----------------------- MODULE RivoKitPromise_Proofs -----------------------
(***************************************************************************)
(* The facade implements FundsPromise: every step of RivoKit is a fact that *)
(* happens after its causes, a claim made on its evidence, or nothing that *)
(* the promise can see.                                                    *)
(***************************************************************************)
EXTENDS RivoKit_Proofs

F == [o \in Orders |-> FactsOf(o)]
T == [o \in Orders |-> Claim[state[o]]]

-----------------------------------------------------------------------------
(* The facts of an order.                                                  *)

LEMMA FactMembers ==
  ASSUME NEW o
  PROVE  /\ "collected" \in FactsOf(o) <=> Collected(o)
         /\ "captured" \in FactsOf(o) <=> Captured(o)
         /\ "converted" \in FactsOf(o) <=> Converted(o)
         /\ "broadcast" \in FactsOf(o) <=> Broadcast(o)
         /\ "paid" \in FactsOf(o) <=> Delivered(o)
         /\ "returned" \in FactsOf(o) <=> Returned(o)
         /\ FactsOf(o) \subseteq Promise!Facts
  BY DEF FactsOf, Promise!Facts

LEMMA FactMembersNext ==
  ASSUME NEW o
  PROVE  /\ "collected" \in FactsOf(o)' <=> Collected(o)'
         /\ "captured" \in FactsOf(o)' <=> Captured(o)'
         /\ "converted" \in FactsOf(o)' <=> Converted(o)'
         /\ "broadcast" \in FactsOf(o)' <=> Broadcast(o)'
         /\ "paid" \in FactsOf(o)' <=> Delivered(o)'
         /\ "returned" \in FactsOf(o)' <=> Returned(o)'
         /\ FactsOf(o)' \subseteq Promise!Facts
  BY DEF FactsOf, Promise!Facts

\* A fact that holds has its causes with it.
LEMMA CausesMetNext ==
  ASSUME EvidenceInv', NEW o \in Orders, NEW f \in FactsOf(o)'
  PROVE  Promise!Causes[f] \subseteq FactsOf(o)'
<1>1. MoneyInOrder(o)'
  BY DEF EvidenceInv
<1>2. /\ Captured(o)' => Collected(o)'
      /\ Delivered(o)' => Broadcast(o)'
      /\ Returned(o)' => Collected(o)'
  BY <1>1 DEF MoneyInOrder, Collected, Captured, Delivered, Broadcast, Returned
<1> QED
  BY <1>1, <1>2, FactMembersNext DEF Promise!Causes, Promise!Facts, MoneyInOrder

\* What a state claims rests on what backs it.
LEMMA ClaimsAreBacked ==
  ASSUME NEW o \in Orders, NEW s \in ORDER_STATES, Backs(o, s)
  PROVE  /\ Claim[s] \in DOMAIN Promise!Evidence
         /\ Promise!Evidence[Claim[s]] \subseteq FactsOf(o)
  BY FactMembers DEF Claim, Promise!Evidence, Backs, ORDER_STATES

-----------------------------------------------------------------------------
(* The three kinds of step.                                                *)

\* The chain stays, and the state of one order is written at most.
LEMMA TellsOne ==
  ASSUME EvidenceInv, EvidenceInv', UNCHANGED chain,
         NEW p \in Orders, NEW s \in ORDER_STATES,
         state' = [state EXCEPT ![p] = s]
  PROVE  Promise!Tell(p)
<1>1. \A o : FactsOf(o)' = FactsOf(o)
  BY DEF FactsOf, chain, Collected, Captured, Converted, Broadcast, Delivered,
         Returned
<1>2. state \in [Orders -> ORDER_STATES]
  BY DEF EvidenceInv, TypeInv, TypeOK
<1>3. Backs(p, s)
  <2>1. Backs(p, state[p])' /\ state'[p] = s
    BY <1>2 DEF EvidenceInv, RecordBacked
  <2> QED
    BY <2>1 DEF Backs, chain, Collected, Captured, Converted, Broadcast,
                Delivered, Returned
<1>4. T' = [T EXCEPT ![p] = Claim[s]]
  BY <1>2 DEF T
<1> QED
  BY <1>1, <1>3, <1>4, ClaimsAreBacked DEF Promise!Tell, F, T

\* The state stays, and one order gets one fact at most.
OneFact(p, f) ==
    /\ \A o \in Orders \ {p} : FactsOf(o)' = FactsOf(o)
    /\ FactsOf(p)' \subseteq FactsOf(p) \cup {f}

LEMMA HappensOnce ==
  ASSUME EvidenceInv, EvidenceInv', [Next]_vars, UNCHANGED state,
         NEW p \in Orders, NEW f \in Promise!Facts, OneFact(p, f)
  PROVE  Promise!Happens(p) \/ UNCHANGED <<F, T>>
<1>1. FactsOf(p) \subseteq FactsOf(p)'
  <2>1. FactsKept(p) /\ (Broadcast(p) => Broadcast(p)')
                     /\ (Delivered(p) => Delivered(p)')
    BY FactsStay, BacksStay
  <2> QED
    BY <2>1, FactMembers, FactMembersNext DEF FactsKept, Promise!Facts
<1>2. UNCHANGED T
  BY DEF T
<1>3. CASE f \in FactsOf(p) \/ f \notin FactsOf(p)'
  <2>1. \A o \in Orders : FactsOf(o)' = FactsOf(o)
    BY <1>1, <1>3 DEF OneFact
  <2> QED BY <2>1, <1>2 DEF F
<1>4. CASE f \notin FactsOf(p) /\ f \in FactsOf(p)'
  <2>1. FactsOf(p)' = FactsOf(p) \cup {f}
    BY <1>1, <1>4 DEF OneFact
  <2>2. F' = [F EXCEPT ![p] = @ \cup {f}]
    BY <2>1 DEF F, OneFact
  <2>3. Promise!Causes[f] \subseteq FactsOf(p)
    <3>1. Promise!Causes[f] \subseteq FactsOf(p)'
      BY <1>4, CausesMetNext
    <3>2. f \notin Promise!Causes[f]
      BY DEF Promise!Causes, Promise!Facts
    <3> QED BY <2>1, <3>1, <3>2
  <2> QED
    BY <1>2, <1>4, <2>2, <2>3 DEF Promise!Happens, F, T
<1> QED BY <1>3, <1>4

\* Neither is touched; a rebate is not a fact of the promise.
LEMMA Unseen ==
  ASSUME UNCHANGED <<escrow, swaps, rail, bridge, state>>
  PROVE  UNCHANGED <<F, T>>
  BY DEF F, T, FactsOf, Collected, Captured, Converted, Broadcast, Delivered,
         Returned

-----------------------------------------------------------------------------
(* The steps that move money.                                              *)

\* Facts are read off the chain: one service moves for one order.
LEMMA EscrowMoves ==
  ASSUME EvidenceInv, NEW p \in Orders,
         UNCHANGED <<swaps, rail, bridge>>,
         NEW e, escrow' = [escrow EXCEPT ![p] = e],
         \/ escrow[p] = "none" /\ e = "authorized"
         \/ escrow[p] = "authorized" /\ e \in {"captured", "voided", "reclaimed"}
         \/ escrow[p] = "captured" /\ e = "refunded"
  PROVE  \E f \in Promise!Facts : OneFact(p, f)
<1>1. escrow \in [Orders -> EscrowStates]
  BY DEF EvidenceInv, TypeInv, TypeOK
<1>2. \A o \in Orders \ {p} : FactsOf(o)' = FactsOf(o)
  BY <1>1 DEF FactsOf, Collected, Captured, Converted, Broadcast, Delivered,
              Returned
<1> DEFINE f == CASE e = "authorized" -> "collected"
                  [] e = "captured"   -> "captured"
                  [] OTHER            -> "returned"
<1>3. FactsOf(p)' \subseteq FactsOf(p) \cup {f}
  <2>1. escrow'[p] = e
    BY <1>1
  <2>2. /\ (Collected(p)' => Collected(p) \/ f = "collected")
        /\ (Captured(p)' => Captured(p) \/ f = "captured")
        /\ (Converted(p)' => Converted(p))
        /\ (Broadcast(p)' => Broadcast(p))
        /\ (Delivered(p)' => Delivered(p))
        /\ (Returned(p)' => Returned(p) \/ f = "returned")
    BY <2>1 DEF Collected, Captured, Converted, Broadcast, Delivered, Returned
  <2> QED
    BY <2>2, FactMembers, FactMembersNext DEF Promise!Facts
<1>4. f \in Promise!Facts
  BY DEF Promise!Facts
<1> QED BY <1>2, <1>3, <1>4 DEF OneFact

LEMMA ConversionMoves ==
  ASSUME EvidenceInv, NEW p \in Orders,
         UNCHANGED <<escrow, rail, bridge>>,
         swaps' = [swaps EXCEPT ![p] = @ + 1]
  PROVE  OneFact(p, "converted")
<1>1. swaps \in [Orders -> Nat]
  BY DEF EvidenceInv, TypeInv, TypeOK
<1>2. \A o \in Orders \ {p} : FactsOf(o)' = FactsOf(o)
  BY <1>1 DEF FactsOf, Collected, Captured, Converted, Broadcast, Delivered,
              Returned
<1>3. /\ (Collected(p)' => Collected(p))
      /\ (Captured(p)' => Captured(p))
      /\ (Broadcast(p)' => Broadcast(p))
      /\ (Delivered(p)' => Delivered(p))
      /\ (Returned(p)' => Returned(p))
  BY DEF Collected, Captured, Broadcast, Delivered, Returned
<1> QED
  BY <1>2, <1>3, FactMembers, FactMembersNext DEF OneFact, Promise!Facts

LEMMA BridgeMoves ==
  ASSUME EvidenceInv, NEW p \in Orders,
         UNCHANGED <<escrow, swaps, rail>>,
         NEW b, bridge' = [bridge EXCEPT ![p] = b]
  PROVE  OneFact(p, "returned")
<1>1. bridge = [o \in Orders |-> bridge[o]]
  BY DEF EvidenceInv, TypeInv, TypeOK
<1>2. \A o \in Orders \ {p} : FactsOf(o)' = FactsOf(o)
  BY <1>1 DEF FactsOf, Collected, Captured, Converted, Broadcast, Delivered,
              Returned
<1>3. /\ (Collected(p)' => Collected(p))
      /\ (Captured(p)' => Captured(p))
      /\ (Converted(p)' => Converted(p))
      /\ (Broadcast(p)' => Broadcast(p))
      /\ (Delivered(p)' => Delivered(p))
  BY DEF Collected, Captured, Converted, Broadcast, Delivered
<1> QED
  BY <1>2, <1>3, FactMembers, FactMembersNext DEF OneFact, Promise!Facts

\* A payment is broadcast, or ends.
LEMMA RailMoves ==
  ASSUME EvidenceInv, NEW p \in Orders, NEW k \in PaymentIds,
         UNCHANGED <<escrow, swaps, bridge>>,
         NEW s, rail' = [rail EXCEPT ![p][k] = s],
         NEW f \in {"broadcast", "paid"},
         IF f = "broadcast" THEN s = "pending" ELSE rail[p][k] = "pending"
  PROVE  OneFact(p, f)
<1>1. /\ rail = [o \in Orders |-> rail[o]]
      /\ rail[p] = [j \in PaymentIds |-> rail[p][j]]
  BY DEF EvidenceInv, TypeInv, TypeOK
<1>2. \A o \in Orders \ {p} : rail'[o] = rail[o]
  BY <1>1
<1>3. \A o \in Orders \ {p} : FactsOf(o)' = FactsOf(o)
  BY <1>2 DEF FactsOf, Collected, Captured, Converted, Broadcast, Delivered,
              Returned
<1>4. rail'[p] = [rail[p] EXCEPT ![k] = s]
  BY <1>1
<1>5. \A j \in PaymentIds : j # k => rail'[p][j] = rail[p][j]
  BY <1>1, <1>4
<1>6. rail'[p][k] = s
  BY <1>1, <1>4
<1>7. /\ (Collected(p)' => Collected(p))
      /\ (Captured(p)' => Captured(p))
      /\ (Converted(p)' => Converted(p))
      /\ (Broadcast(p)' => Broadcast(p) \/ f = "broadcast")
      /\ (Delivered(p)' => Delivered(p) \/ f = "paid")
      /\ (Returned(p)' => Returned(p))
  BY <1>5, <1>6 DEF Collected, Captured, Converted, Broadcast, Delivered,
                    Returned
<1> QED
  BY <1>3, <1>7, FactMembers, FactMembersNext DEF OneFact, Promise!Facts

-----------------------------------------------------------------------------
(* The refinement.                                                         *)

\* Before anything is done, no fact holds and nothing is claimed.
LEMMA InitPromises == Init => Promise!Init
<1> SUFFICES ASSUME Init PROVE Promise!Init
  OBVIOUS
<1>1. \A o \in Orders : Claim[state[o]] = "nothing"
  BY DEF Init, Claim
<1>2. \A o \in Orders : FactsOf(o) = {}
  <2> SUFFICES ASSUME NEW o \in Orders PROVE FactsOf(o) = {}
    OBVIOUS
  <2>1. /\ ~ Collected(o) /\ ~ Captured(o) /\ ~ Converted(o)
        /\ ~ Broadcast(o) /\ ~ Delivered(o) /\ ~ Returned(o)
    BY DEF Init, NothingYet, Collected, Captured, Converted, Broadcast,
           Delivered, Returned
  <2> QED BY <2>1, FactMembers DEF Promise!Facts
<1> QED BY <1>1, <1>2 DEF Promise!Init

\* Each step of the facade, of the payer or of the rail is one of the promise,
\* or changes nothing the promise speaks of.
LEMMA StepPromises ==
  ASSUME EvidenceInv, EvidenceInv', [Next]_vars
  PROVE  (\E o \in Orders : Promise!Happens(o) \/ Promise!Tell(o))
           \/ UNCHANGED <<F, T>>
<1> DEFINE Promised == \/ \E o \in Orders : Promise!Happens(o) \/ Promise!Tell(o)
                       \/ UNCHANGED <<F, T>>
<1>a. ASSUME UNCHANGED <<escrow, swaps, rail, bridge, state>>
      PROVE  Promised
  BY <1>a, Unseen
<1>b. ASSUME UNCHANGED state, NEW p \in Orders, NEW f \in Promise!Facts,
             OneFact(p, f)
      PROVE  Promised
  BY <1>b, HappensOnce
<1>c. TypeInv
  BY DEF EvidenceInv
<1>1. ASSUME NEW w \in Workers, TransitionWrite(w)
      PROVE  Promised
  <2>1. call[w].o \in Orders /\ call[w].to \in ORDER_STATES
    BY <1>1, <1>c, InFlight DEF TransitionWrite, At
  <2>2. UNCHANGED chain
    BY <1>1 DEF TransitionWrite
  <2>3. \/ UNCHANGED state
        \/ state' = [state EXCEPT ![call[w].o] = call[w].to]
    BY <1>1 DEF TransitionWrite
  <2>4. CASE UNCHANGED state
    BY <1>a, <2>2, <2>4 DEF chain
  <2>5. CASE state' = [state EXCEPT ![call[w].o] = call[w].to]
    BY <2>1, <2>2, <2>5, TellsOne
  <2> QED BY <2>3, <2>4, <2>5
<1>2. ASSUME NEW w \in Workers, FundExecute(w)
      PROVE  Promised
  <2>1. call[w].o \in Orders
    BY <1>2, <1>c, InFlight DEF FundExecute, At
  <2>2. \/ UNCHANGED escrow
        \/ /\ escrow[call[w].o] = "none"
           /\ escrow' = [escrow EXCEPT ![call[w].o] = "authorized"]
    BY <1>2 DEF FundExecute
  <2>3. UNCHANGED <<state, swaps, rail, bridge>>
    BY <1>2 DEF FundExecute, database, orderRow
  <2> QED BY <1>a, <1>b, <2>1, <2>2, <2>3, EscrowMoves
<1>3. ASSUME NEW w \in Workers, ReleaseCapture(w)
      PROVE  Promised
  <2>1. call[w].o \in Orders
    BY <1>3, <1>c, InFlight DEF ReleaseCapture, At
  <2>2. \/ UNCHANGED escrow
        \/ /\ escrow[call[w].o] = "authorized"
           /\ escrow' = [escrow EXCEPT ![call[w].o] = "captured"]
    BY <1>3 DEF ReleaseCapture
  <2>3. UNCHANGED <<state, swaps, rail, bridge>>
    BY <1>3 DEF ReleaseCapture, database, orderRow
  <2> QED BY <1>a, <1>b, <2>1, <2>2, <2>3, EscrowMoves
<1>4. ASSUME NEW w \in Workers, ReleaseSwap(w) \/ RetrySwap(w)
      PROVE  Promised
  <2>1. call[w].o \in Orders
    BY <1>4, <1>c, InFlight DEF ReleaseSwap, RetrySwap, At
  <2>2. \/ UNCHANGED swaps
        \/ swaps' = [swaps EXCEPT ![call[w].o] = @ + 1]
    BY <1>4 DEF ReleaseSwap, RetrySwap, Swap
  <2>3. UNCHANGED <<state, escrow, rail, bridge>>
    BY <1>4 DEF ReleaseSwap, RetrySwap, database, orderRow
  <2>4. "converted" \in Promise!Facts
    BY DEF Promise!Facts
  <2> QED BY <1>a, <1>b, <2>1, <2>2, <2>3, <2>4, ConversionMoves
<1>5. ASSUME NEW w \in Workers, PayoutSubmit(w)
      PROVE  Promised
  <2>1. call[w].o \in Orders
    BY <1>5, <1>c, InFlight DEF PayoutSubmit, At
  <2>2. \/ UNCHANGED rail
        \/ \E k \in PaymentIds :
             rail' = [rail EXCEPT ![call[w].o][k] = "pending"]
    BY <1>5 DEF PayoutSubmit
  <2>3. UNCHANGED <<state, escrow, swaps, bridge>>
    BY <1>5 DEF PayoutSubmit, database, orderRow
  <2>4. ASSUME NEW k \in PaymentIds,
               rail' = [rail EXCEPT ![call[w].o][k] = "pending"]
        PROVE  OneFact(call[w].o, "broadcast")
    BY <2>1, <2>3, <2>4, RailMoves
  <2>5. "broadcast" \in Promise!Facts
    BY DEF Promise!Facts
  <2> QED BY <1>a, <1>b, <2>1, <2>2, <2>3, <2>4, <2>5
<1>6. ASSUME NEW w \in Workers, RefundEscrow(w)
      PROVE  Promised
  <2>1. call[w].o \in Orders
    BY <1>6, <1>c, InFlight DEF RefundEscrow, At
  <2>2. \/ UNCHANGED escrow
        \/ /\ escrow[call[w].o] = "authorized"
           /\ escrow' = [escrow EXCEPT ![call[w].o] = "voided"]
        \/ /\ escrow[call[w].o] = "captured"
           /\ escrow' = [escrow EXCEPT ![call[w].o] = "refunded"]
    BY <1>6 DEF RefundEscrow
  <2>3. UNCHANGED <<state, swaps, rail, bridge>>
    BY <1>6 DEF RefundEscrow, database, orderRow
  <2> QED BY <1>a, <1>b, <2>1, <2>2, <2>3, EscrowMoves
<1>7. ASSUME NEW w \in Workers, RefundBridge(w)
      PROVE  Promised
  <2>1. call[w].o \in Orders
    BY <1>7, <1>c, InFlight DEF RefundBridge, At
  <2>2. \/ UNCHANGED bridge
        \/ \E b : bridge' = [bridge EXCEPT ![call[w].o] = b]
    BY <1>7 DEF RefundBridge
  <2>3. UNCHANGED <<state, escrow, swaps, rail>>
    BY <1>7 DEF RefundBridge, database, orderRow
  <2>4. "returned" \in Promise!Facts
    BY DEF Promise!Facts
  <2> QED BY <1>a, <1>b, <2>1, <2>2, <2>3, <2>4, BridgeMoves
<1>8. ASSUME NEW o \in Orders, Reclaim(o)
      PROVE  Promised
  <2>1. UNCHANGED <<state, swaps, rail, bridge>>
    BY <1>8 DEF Reclaim, database, orderRow
  <2> QED BY <1>8, <1>b, <2>1, EscrowMoves DEF Reclaim
<1>9. ASSUME NEW o \in Orders, NEW k \in PaymentIds, RailSettles(o, k)
      PROVE  Promised
  <2>1. UNCHANGED <<state, escrow, swaps, bridge>>
    BY <1>9 DEF RailSettles, database, orderRow
  <2>2. PICK s : rail' = [rail EXCEPT ![o][k] = s]
    BY <1>9 DEF RailSettles
  <2>3. rail[o][k] = "pending"
    BY <1>9 DEF RailSettles
  <2>4. OneFact(o, "paid")
    BY <2>1, <2>2, <2>3, RailMoves
  <2>5. "paid" \in Promise!Facts
    BY DEF Promise!Facts
  <2> QED BY <1>b, <2>1, <2>4, <2>5
<1>10. ASSUME NEW w \in Workers, NEW o \in Orders, Begin(w, o)
       PROVE  Promised
  BY <1>10, <1>a DEF Begin, Fund, Release, RetrySettlement, RefreshPayout,
                     Refund, Reconcile, MarkFunding, Ship, Expire, HostMove,
                     database, orderRow, chain
<1>11. CASE UNCHANGED <<escrow, swaps, rail, bridge, state>>
  BY <1>11, <1>a
<1> QED
  BY ZenonT(60), <1>1, <1>2, <1>3, <1>4, <1>5, <1>6, <1>7, <1>8, <1>9,
     <1>10, <1>11
     DEF Next, Continue, Outside, vars, database, orderRow, chain,
         TransitionRead, Emit, FundRecord, FundReread, ReleaseCaptureRow,
         SettleSwapRow, SettleRebate, SettleRebateRow, SettlePayout,
         PayoutQuote, PayoutSave, PayoutRow, PayoutRebate, PayoutRebateRow,
         RefreshRead, RefreshStatus, RefreshSave, RefreshRow, ReconcileRead,
         TimePasses, Interrupt

\* The facade implements the promise, for any orders, any number of requests
\* in flight and any faults: the record of an order never claims money that
\* has not moved, and facts about money come in their order and stay.
THEOREM FacadeKeepsPromise == Spec => RecordNeverAhead
<1>1. Init => Promise!Init
  BY InitPromises
<1>2. EvidenceInv /\ EvidenceInv' /\ [Next]_vars
        => [Promise!Next]_<<[o \in Orders |-> FactsOf(o)],
                            [o \in Orders |-> Claim[state[o]]]>>
  BY StepPromises DEF Promise!Next, F, T
<1> QED
  BY <1>1, <1>2, EvidenceHolds, PTL DEF Spec, RecordNeverAhead, Promise!Spec
=============================================================================
