------------------------------ MODULE RivoKit ------------------------------
(***************************************************************************)
(* The order facade of src/sdk/rivokit.ts, over the store of               *)
(* src/orchestrator/order-store.ts, the escrow contract, the FX service,   *)
(* the payout rail and the refund bridge.                                  *)
(*                                                                         *)
(* Workers are requests in flight.  A call of the facade is a sequence of  *)
(* awaits, and each action below is what happens between two of them: one  *)
(* read or write of a database row, or one call of an outside service.     *)
(* Between two actions of one worker any other worker may run.             *)
(*                                                                         *)
(* A call that is refused before it has changed anything (a proof that     *)
(* does not fit the wedge, a corridor that cannot be read, an illegal      *)
(* lifecycle move) is no step at all: the guard of its first action fails. *)
(* A call that is refused later ends where it stands, and what it has done *)
(* until then stays done: the code has no compensation.                    *)
(***************************************************************************)
EXTENDS Naturals, FiniteSets, OrderState

CONSTANTS
    Orders,         \* the orders
    Workers,        \* requests that may be in flight at one time
    NoOrder,        \* what an idle worker holds
    BankOrders,     \* orders whose payout_to is "bank"; the others "wallet"
    BridgedOrders,  \* orders whose receivingChain is not Arc
    RebatedOrders,  \* those that may leave a surplus a host's payRebate returns
    Operations,     \* the operations the host calls
    MaxExpiries,    \* bound: how many of a payment's three expiries pass
    MaxSwaps,       \* bound: swaps the FX service executes for one order
    MaxPayouts,     \* bound: payments the rail accepts for one order
    MaxFaults       \* bound: awaits that reject, or processes that die

ASSUME OrdersAssumption ==
    /\ NoOrder \notin Orders
    /\ BankOrders \subseteq Orders
    /\ BridgedOrders \subseteq Orders
    /\ RebatedOrders \subseteq Orders
ASSUME BoundsAssumption ==
    /\ MaxExpiries \in 0..3
    /\ MaxSwaps \in Nat
    /\ MaxPayouts \in Nat
    /\ MaxFaults \in Nat

VARIABLES
    state,      \* orders.state
    fundedAt,   \* orders.funded_at is set
    payout,     \* orders.payout, the payout instruction
    ledger,     \* payments: the row of each kind, keyed by its unique nonce
    emitted,    \* how many times each event has been announced to the host
    escrow,     \* the payment's state in the escrow contract
    clock,      \* which of the payment's three expiries have passed
    swaps,      \* swaps executed
    rebates,    \* what became of surplus transfers to the payer: paid, threw
    rail,       \* the payments the rail has accepted
    bridge,     \* the bridge of a refund to the receiving chain
    call,       \* what each worker is doing, and what it remembers
    faults      \* faults so far

orderRow == <<state, fundedAt, payout>>
database == <<state, fundedAt, payout, ledger>>
chain    == <<escrow, swaps, rebates, rail, bridge>>
vars     == <<database, emitted, chain, clock, call, faults>>

-----------------------------------------------------------------------------
(* The data.                                                               *)

PaymentIds == 1..MaxPayouts

\* A payment row, or none yet.
RowStatus == {"absent", "pending", "confirmed", "failed"}
PaymentKinds == {"authorize", "capture", "swap", "rebate", "payout"}

Events == {"funded", "released", "payout_pending", "paid_out", "refunded"}

\* The escrow's record of one payment.  RivoKit always captures and refunds
\* the whole authorized amount, so a payment has one phase at a time.
EscrowStates == {"none", "authorized", "captured", "voided", "reclaimed",
                 "refunded"}

\* How many of preApprovalExpiry <= authorizationExpiry <= refundExpiry
\* have passed.
Clock == 0..3

RailStatus == {"none", "pending", "delivered", "failed"}

\* A payout instruction: the mock one of a wallet order, or the live one that
\* points at a payment of the rail and copies what was last heard of it.
Payouts == [kind : {"none", "mock", "live"}, id : 0..MaxPayouts,
            status : RailStatus, hash : BOOLEAN]
NoPayout   == [kind |-> "none", id |-> 0, status |-> "none", hash |-> FALSE]
\* Mutant: the label written in the case the receipt prints it in.
MockPayout_Label ==
    [kind |-> "MOCK", id |-> 0, status |-> "none", hash |-> FALSE]
MockPayout == [kind |-> "mock", id |-> 0, status |-> "none", hash |-> FALSE]
livePayout(k) ==
    [kind |-> "live", id |-> k, status |-> "pending", hash |-> FALSE]

Labels ==
    {"idle", "transition.read", "transition.write", "emit",
     "fund.execute", "fund.record", "fund.reread",
     "release.capture", "release.swap", "release.captureRow",
     "settle.swapRow", "settle.rebate", "settle.rebateRow", "settle.payout",
     "payout.quote", "payout.submit", "payout.save", "payout.row",
     "payout.rebate", "payout.rebateRow", "retry.swap",
     "refresh.read", "refresh.status", "refresh.save", "refresh.row",
     "refund.escrow", "refund.bridge", "reconcile.read"}

\* Where a call goes on after it has moved the order.
Continuations == {"idle", "emit", "fund.execute", "settle.payout",
                  "payout.rebate", "refund.escrow"}

\* What a worker remembers across awaits: the order's state as it was first
\* read (snap), the payout it holds (pay), and, when it is about to move the
\* order, the state to move it to and where to continue.
Calls == [at : Labels, o : Orders \cup {NoOrder}, snap : ORDER_STATES,
          pay : Payouts, to : ORDER_STATES, then : Continuations]
Idle == [at |-> "idle", o |-> NoOrder, snap |-> "created", pay |-> NoPayout,
         to |-> "created", then |-> "idle"]

-----------------------------------------------------------------------------
(* Control of one call.                                                    *)

\* The call w starts on order o; the read of the order is its first await.
Start(w, o, label) ==
    call' = [call EXCEPT ![w] = [Idle EXCEPT !.at = label, !.o = o,
                                             !.snap = state[o]]]

\* The call starts by moving order o, and then goes on to label.
Depart(w, o, to, label) ==
    call' = [call EXCEPT ![w] = [Idle EXCEPT !.at = "transition.read",
                                             !.o = o, !.snap = state[o],
                                             !.to = to, !.then = label]]

At(w, label) == call[w].at = label

Goto(w, label) == call' = [call EXCEPT ![w] = [@ EXCEPT !.at = label]]

\* The call goes on with a payout instruction in hand.
Holding(w, label, p) ==
    call' = [call EXCEPT ![w] = [@ EXCEPT !.at = label, !.pay = p]]

\* The call returns or throws.
End(w) == call' = [call EXCEPT ![w] = Idle]

\* The call goes on to store.transition(o, to), and then to label.
Move(w, to, label) ==
    call' = [call EXCEPT ![w] = [@ EXCEPT !.at = "transition.read",
                                          !.to = to, !.then = label]]

\* The CHECK constraints of the orders table that an update of the state can
\* run into.  released_meets_floor cannot fire: the same update sets eurc_out,
\* which swapWithFloor has compared with the floor.
RowAccepted(o, to) ==
    /\ to \in {"shipped", "released", "payout_pending", "paid_out"}
         => fundedAt[o]
    /\ to \in {"payout_pending", "paid_out"}
         => o \in BankOrders /\ payout[o].kind = "live"

\* store.transition reads the order and checks the edge from what it read...
TransitionRead(w) ==
    /\ At(w, "transition.read")
    /\ IF canTransition(state[call[w].o], call[w].to)
         THEN Goto(w, "transition.write")
         ELSE End(w)
    /\ UNCHANGED <<database, emitted, chain, clock, faults>>

\* ...and then updates the row by its id alone.
TransitionWrite(w) ==
    LET o  == call[w].o
        to == call[w].to
    IN  /\ At(w, "transition.write")
        /\ \/ /\ RowAccepted(o, to)
              /\ state' = [state EXCEPT ![o] = to]
              /\ fundedAt' = [fundedAt EXCEPT ![o] = @ \/ to = "funded"]
              /\ IF call[w].then = "idle" THEN End(w)
                                          ELSE Goto(w, call[w].then)
           \/ /\ ~ RowAccepted(o, to)
              /\ End(w)
              /\ UNCHANGED <<state, fundedAt>>
        /\ UNCHANGED <<payout, ledger, emitted, chain, clock, faults>>

\* The announcement that ends an operation names the state just entered.
Emit(w) ==
    /\ At(w, "emit")
    /\ emitted' = [emitted EXCEPT ![call[w].o][call[w].to] = @ + 1]
    /\ End(w)
    /\ UNCHANGED <<database, chain, clock, faults>>

\* Mutant: a payout already on record is kept.
savePayout_Keeps(o, p) ==
    payout' = [payout EXCEPT ![o] = IF @.kind = "live" THEN @ ELSE p]
savePayout(o, p) == payout' = [payout EXCEPT ![o] = p]

\* recordPaymentIdempotent: a row that is already there stays as it is.
Record(o, kind, status) ==
    ledger' = [ledger EXCEPT ![o][kind] = IF @ = "absent" THEN status ELSE @]

-----------------------------------------------------------------------------
(* fund(): mark, let the host's executor authorize, record, promote.       *)

Fund(w, o) ==
    /\ "fund" \in Operations
    /\ At(w, "idle")
    /\ IF state[o] = "created"
         THEN Depart(w, o, "funding_pending", "fund.execute")
         ELSE Start(w, o, "fund.execute")
    /\ UNCHANGED <<database, emitted, chain, clock, faults>>

\* Mutant: an executor that fails is taken for one that found the payment
\* collected.
AlreadyCollected_Assumed(o) == TRUE
AlreadyCollected(o) == escrow[o] # "none"

\* The executor is idempotent: a payment the escrow has already collected is
\* success without a new hash.  Otherwise the escrow authorizes, until the
\* authorization window closes; or the executor fails and nothing moves.
FundExecute(w) ==
    LET o == call[w].o
    IN  /\ At(w, "fund.execute")
        /\ \/ /\ escrow[o] = "none" /\ clock[o] = 0
              /\ escrow' = [escrow EXCEPT ![o] = "authorized"]
              /\ Goto(w, "fund.record")
           \/ /\ AlreadyCollected(o)
              /\ Goto(w, "fund.reread")
              /\ UNCHANGED escrow
           \/ /\ End(w)
              /\ UNCHANGED escrow
        /\ UNCHANGED <<database, emitted, swaps, rebates, rail, bridge, clock,
                       faults>>

FundRecord(w) ==
    /\ At(w, "fund.record")
    /\ Record(call[w].o, "authorize", "confirmed")
    /\ Goto(w, "fund.reread")
    /\ UNCHANGED <<orderRow, emitted, chain, clock, faults>>

\* Mutant: funded is announced outside the transition, as it once was.
FundReread_EmitsAlways(w) ==
    /\ At(w, "fund.reread")
    /\ IF state[call[w].o] = "funding_pending"
         THEN Move(w, "funded", "emit")
         ELSE call' = [call EXCEPT ![w] = [@ EXCEPT !.at = "emit",
                                                    !.to = "funded"]]
    /\ UNCHANGED <<database, emitted, chain, clock, faults>>

FundReread(w) ==
    /\ At(w, "fund.reread")
    /\ IF state[call[w].o] = "funding_pending" THEN Move(w, "funded", "emit")
                                               ELSE End(w)
    /\ UNCHANGED <<database, emitted, chain, clock, faults>>

-----------------------------------------------------------------------------
(* release(): capture, then convert (wallet) or broadcast (bank).          *)

\* The state release() must be able to reach: runRelease checks the edge to
\* released, captureForPayout the edge to payout_pending.
ReleaseTarget(o) == IF o \in BankOrders THEN "payout_pending" ELSE "released"

Release(w, o) ==
    /\ "release" \in Operations
    /\ At(w, "idle")
    /\ canTransition(state[o], ReleaseTarget(o))
    /\ Start(w, o, "release.capture")
    /\ UNCHANGED <<database, emitted, chain, clock, faults>>

\* Mutant: a capture that reverts is recorded like one that succeeds.
CaptureReverts_Swallowed(w) ==
    Goto(w, IF call[w].o \in BankOrders THEN "release.captureRow"
                                       ELSE "release.swap")
\* Nothing catches it: the order stays where it is.
CaptureReverts(w) == End(w)

\* The contract captures a live authorization before it expires, and reverts
\* otherwise.
ReleaseCapture(w) ==
    LET o == call[w].o
    IN  /\ At(w, "release.capture")
        /\ \/ /\ escrow[o] = "authorized" /\ clock[o] \leq 1
              /\ escrow' = [escrow EXCEPT ![o] = "captured"]
              /\ Goto(w, IF o \in BankOrders THEN "release.captureRow"
                                             ELSE "release.swap")
           \/ /\ CaptureReverts(w)
              /\ UNCHANGED escrow
        /\ UNCHANGED <<database, emitted, swaps, rebates, rail, bridge, clock,
                       faults>>

\* The floored swap delivers at least the price; or it does and its answer is
\* lost, or names no amount out, which is caught like a refusal; or the service
\* refuses.  A failed swap of a release is the outcome settlement_pending.
Swap(w, delivered, failed) ==
    LET o == call[w].o
        executed == /\ swaps[o] < MaxSwaps
                    /\ swaps' = [swaps EXCEPT ![o] = @ + 1]
    IN  \/ executed /\ delivered /\ UNCHANGED faults
        \/ executed /\ failed /\ faults < MaxFaults /\ faults' = faults + 1
        \/ failed /\ UNCHANGED <<swaps, faults>>

Outcome(w, to, label) ==
    call' = [call EXCEPT ![w] = [@ EXCEPT !.to = to, !.at = label]]

\* Mutant: a swap that fails is not caught.
SwapFails_Throws(w) == End(w)
SwapFails(w) == Outcome(w, "settlement_pending", "release.captureRow")

ReleaseSwap(w) ==
    /\ At(w, "release.swap")
    /\ Swap(w, Outcome(w, "released", "release.captureRow"), SwapFails(w))
    /\ UNCHANGED <<database, emitted, escrow, rebates, rail, bridge, clock>>

\* The capture row is written only now, after the swap.  It would be skipped for
\* a capture without a hash, and there is none: the operator's Sender resolves
\* with one or throws (escrow/operations.ts).
ReleaseCaptureRow(w) ==
    /\ At(w, "release.captureRow")
    /\ Record(call[w].o, "capture", "confirmed")
    /\ \/ /\ call[w].o \in BankOrders
          /\ Goto(w, "payout.quote")
       \/ /\ call[w].o \notin BankOrders
          /\ IF call[w].to = "released"
               THEN Goto(w, "settle.swapRow")
               ELSE Move(w, "settlement_pending", "idle")
    /\ UNCHANGED <<orderRow, emitted, chain, clock, faults>>

-----------------------------------------------------------------------------
(* settleWalletRelease(): what release() and retrySettlement() owe once    *)
(* the swap has landed.                                                    *)

\* A swap that named no hash has no row.
SettleSwapRow(w) ==
    /\ At(w, "settle.swapRow")
    /\ \/ Record(call[w].o, "swap", "confirmed")
       \/ UNCHANGED ledger
    /\ Goto(w, "settle.rebate")
    /\ UNCHANGED <<orderRow, emitted, chain, clock, faults>>

\* The surplus goes back to the payer, if the host wired a way and there is
\* one.  A transfer that throws ends the call, on the road of a wallet order
\* between its swap and its move.
PayRebate(w, paid, none) ==
    LET o == call[w].o
    IN  \/ /\ o \in RebatedOrders
           /\ rebates' = [rebates EXCEPT ![o] = @ \cup {"paid"}]
           /\ paid
        \/ /\ o \in RebatedOrders
           /\ rebates' = [rebates EXCEPT ![o] = @ \cup {"threw"}]
           /\ End(w)
        \/ /\ none
           /\ UNCHANGED rebates

SettleRebate(w) ==
    /\ At(w, "settle.rebate")
    /\ PayRebate(w, Goto(w, "settle.rebateRow"),
                    Move(w, "released", "settle.payout"))
    /\ UNCHANGED <<database, emitted, escrow, swaps, rail, bridge, clock,
                   faults>>

SettleRebateRow(w) ==
    /\ At(w, "settle.rebateRow")
    /\ Record(call[w].o, "rebate", "confirmed")
    /\ Move(w, "released", "settle.payout")
    /\ UNCHANGED <<orderRow, emitted, chain, clock, faults>>

SettlePayout(w) ==
    /\ At(w, "settle.payout")
    /\ savePayout(call[w].o, MockPayout)
    /\ Goto(w, "emit")
    /\ UNCHANGED <<state, fundedAt, ledger, emitted, chain, clock, faults>>

-----------------------------------------------------------------------------
(* payoutAfterCapture(): quote, check the floor, broadcast, record.        *)

\* A refusal moves the order to settlement_pending, unless the call began
\* there: then only an event is recorded.
Stall(w) ==
    IF call[w].snap = "settlement_pending"
      THEN End(w)
      ELSE Move(w, "settlement_pending", "idle")

\* Below the corridor's minimum, quote refused, below the floor, above what
\* was captured, or expired: all of them stall.  rail.ready may throw, and
\* nothing catches it.
PayoutQuote(w) ==
    /\ At(w, "payout.quote")
    /\ \/ Goto(w, "payout.submit")
       \/ Stall(w)
       \/ End(w)
    /\ UNCHANGED <<database, emitted, chain, clock, faults>>

\* The rail broadcasts a payment under a new id, or refuses by throwing.
PayoutSubmit(w) ==
    LET o == call[w].o
    IN  /\ At(w, "payout.submit")
        /\ \/ \E k \in PaymentIds :
                /\ \A j \in PaymentIds : rail[o][j] = "none" <=> j \geq k
                /\ rail' = [rail EXCEPT ![o][k] = "pending"]
                /\ Holding(w, "payout.save", livePayout(k))
           \/ /\ End(w)
              /\ UNCHANGED rail
        /\ UNCHANGED <<database, emitted, escrow, swaps, rebates, bridge,
                       clock, faults>>

PayoutSave(w) ==
    /\ At(w, "payout.save")
    /\ savePayout(call[w].o, call[w].pay)
    /\ Goto(w, "payout.row")
    /\ UNCHANGED <<state, fundedAt, ledger, emitted, chain, clock, faults>>

PayoutRow(w) ==
    /\ At(w, "payout.row")
    /\ Record(call[w].o, "payout", "pending")
    /\ Move(w, "payout_pending", "payout.rebate")
    /\ UNCHANGED <<orderRow, emitted, chain, clock, faults>>

PayoutRebate(w) ==
    /\ At(w, "payout.rebate")
    /\ PayRebate(w, Goto(w, "payout.rebateRow"), Goto(w, "emit"))
    /\ UNCHANGED <<database, emitted, escrow, swaps, rail, bridge, clock,
                   faults>>

PayoutRebateRow(w) ==
    /\ At(w, "payout.rebateRow")
    /\ Record(call[w].o, "rebate", "confirmed")
    /\ Goto(w, "emit")
    /\ UNCHANGED <<orderRow, emitted, chain, clock, faults>>

-----------------------------------------------------------------------------
(* retrySettlement(): only from settlement_pending.                        *)

Retryable(s) == s = "settlement_pending"

\* Mutant: the retry forgets that a bank order has a road of its own.
RetryRoad_SwapsAll(o) == "retry.swap"
RetryRoad(o) == IF o \in BankOrders THEN "payout.quote" ELSE "retry.swap"

RetrySettlement(w, o) ==
    /\ "retrySettlement" \in Operations
    /\ At(w, "idle")
    /\ Retryable(state[o])
    /\ Start(w, o, RetryRoad(o))
    /\ UNCHANGED <<database, emitted, chain, clock, faults>>

RetrySwap(w) ==
    /\ At(w, "retry.swap")
    /\ Swap(w, Outcome(w, "released", "settle.swapRow"), End(w))
    /\ UNCHANGED <<database, emitted, escrow, rebates, rail, bridge, clock>>

-----------------------------------------------------------------------------
(* refreshPayout(): ask the rail, save what it says, settle the ledger,    *)
(* move an order that is still in flight.                                  *)

RefreshPayout(w, o) ==
    /\ "refreshPayout" \in Operations
    /\ At(w, "idle")
    /\ Start(w, o, "refresh.read")
    /\ UNCHANGED <<database, emitted, chain, clock, faults>>

RefreshRead(w) ==
    LET p == payout[call[w].o]
    IN  /\ At(w, "refresh.read")
        /\ IF p.kind = "live" /\ isOffRamped(call[w].snap)
             THEN Holding(w, "refresh.status", p)
             ELSE End(w)
        /\ UNCHANGED <<database, emitted, chain, clock, faults>>

RailTerminal(s) == s \in {"delivered", "failed"}

\* The rail reports a status, perhaps the transaction hash, perhaps a fiat
\* reference it had not reported before.  Without news the call returns.  A
\* hash once held is never given up.
RefreshStatus(w) ==
    LET p == call[w].pay
        observed == rail[call[w].o][p.id]
        same == observed = p.status
    IN  /\ At(w, "refresh.status")
        /\ \E hash \in BOOLEAN, newFiatRef \in BOOLEAN :
             IF same /\ (p.hash \/ ~ RailTerminal(observed)) /\ ~ newFiatRef
               THEN End(w)
               ELSE Holding(w, "refresh.save",
                            [p EXCEPT !.status = observed,
                                      !.hash = @ \/ hash])
        /\ UNCHANGED <<database, emitted, chain, clock, faults>>

\* The instruction saved is the one read before the rail was asked.
RefreshSave(w) ==
    /\ At(w, "refresh.save")
    /\ savePayout(call[w].o, call[w].pay)
    /\ Goto(w, "refresh.row")
    /\ UNCHANGED <<state, fundedAt, ledger, emitted, chain, clock, faults>>

\* advancePayment updates the payout row if there is one; a confirmation
\* needs a hash.
AdvancePayout(o, p) ==
    ledger' = [ledger EXCEPT ![o]["payout"] =
                 IF @ = "absent"
                   THEN @
                   ELSE IF p.status = "delivered" /\ p.hash
                          THEN "confirmed"
                          ELSE IF p.status = "failed" THEN "failed" ELSE @]

\* Mutant: terminal is taken for delivered.
PaysOut_Terminal(s) == RailTerminal(s)
PaysOut(s) == s = "delivered"

\* Mutant: a failed payout does not move the order.
Falls_Never(s) == FALSE
Falls(s) == RailTerminal(s)

\* Only an order that was in flight when it was read is moved.
RefreshRow(w) ==
    LET p == call[w].pay
    IN  /\ At(w, "refresh.row")
        /\ AdvancePayout(call[w].o, p)
        /\ IF call[w].snap = "payout_pending" /\ PaysOut(p.status)
             THEN Move(w, "paid_out", "emit")
             ELSE IF call[w].snap = "payout_pending" /\ Falls(p.status)
                    THEN Move(w, "settlement_pending", "idle")
                    ELSE End(w)
        /\ UNCHANGED <<orderRow, emitted, chain, clock, faults>>

-----------------------------------------------------------------------------
(* refund(): the order is moved first, the money afterwards.               *)

Refund(w, o) ==
    /\ "refund" \in Operations
    /\ At(w, "idle")
    /\ Depart(w, o, "refund_pending", "refund.escrow")
    /\ UNCHANGED <<database, emitted, chain, clock, faults>>

\* void returns a live authorization; refund pulls a captured payment from
\* the operator's own balance until refundExpiry.  Either may revert.  The
\* state read first chooses between the two.
RefundEscrow(w) ==
    LET o == call[w].o
        mechanism == IF isCaptured(call[w].snap) THEN "refund" ELSE "void"
    IN  /\ At(w, "refund.escrow")
        /\ \/ /\ canTransition(call[w].snap, "refund_pending")
              /\ \/ /\ mechanism = "void" /\ escrow[o] = "authorized"
                    /\ escrow' = [escrow EXCEPT ![o] = "voided"]
                 \/ /\ mechanism = "refund" /\ escrow[o] = "captured"
                    /\ clock[o] \leq 2
                    /\ escrow' = [escrow EXCEPT ![o] = "refunded"]
              /\ IF o \in BridgedOrders
                   THEN Goto(w, "refund.bridge")
                   ELSE Move(w, "refunded", "emit")
           \/ /\ End(w)
              /\ UNCHANGED escrow
        /\ UNCHANGED <<database, emitted, swaps, rebates, rail, bridge, clock,
                       faults>>

\* The bridge delivers, stalls after its burn, or fails with nothing moved.
\* On the last two refund() returns and the order stays refund_pending.
RefundBridge(w) ==
    LET o == call[w].o
    IN  /\ At(w, "refund.bridge")
        /\ \/ /\ bridge' = [bridge EXCEPT ![o] = "arrived"]
              /\ Move(w, "refunded", "emit")
           \/ /\ bridge' = [bridge EXCEPT ![o] = "burned"]
              /\ End(w)
           \/ /\ UNCHANGED bridge
              /\ End(w)
        /\ UNCHANGED <<database, emitted, escrow, swaps, rebates, rail, clock,
                       faults>>

-----------------------------------------------------------------------------
(* reconcileOrder(): promote a funding_pending order the escrow has        *)
(* collected.  It only reports a refund_pending one.                       *)

Reconcile(w, o) ==
    /\ "reconcile" \in Operations
    /\ At(w, "idle")
    /\ state[o] = "funding_pending"
    /\ Start(w, o, "reconcile.read")
    /\ UNCHANGED <<database, emitted, chain, clock, faults>>

\* Mutant: the escrow must hold more than the authorized amount.
HoldsAuthorized_Strict(o) == FALSE
HoldsAuthorized(o) == escrow[o] = "authorized"

ReconcileRead(w) ==
    /\ At(w, "reconcile.read")
    /\ IF HoldsAuthorized(call[w].o) THEN Move(w, "funded", "idle")
                                      ELSE End(w)
    /\ UNCHANGED <<database, emitted, chain, clock, faults>>

-----------------------------------------------------------------------------
(* The moves a host makes by itself (demo/app/marketplace.actions.ts).     *)

\* Read the order, and go on to move it from one of the states to another.
HostMove(w, o, name, from, to) ==
    /\ name \in Operations
    /\ At(w, "idle")
    /\ state[o] \in from
    /\ Depart(w, o, to, "idle")
    /\ UNCHANGED <<database, emitted, chain, clock, faults>>

MarkFunding(w, o) ==
    HostMove(w, o, "markFunding", {"created"}, "funding_pending")

Ship(w, o) == HostMove(w, o, "ship", {"funded"}, "shipped")

Expire(w, o) ==
    /\ clock[o] \geq 1
    /\ HostMove(w, o, "expire", {"created", "funding_pending"}, "failed")

-----------------------------------------------------------------------------
(* Outside: time, the payer, the rail, and faults.                         *)

TimePasses(o) ==
    /\ clock[o] < MaxExpiries
    /\ clock' = [clock EXCEPT ![o] = @ + 1]
    /\ UNCHANGED <<database, emitted, chain, call, faults>>

\* Once the authorization has expired the payer takes it back alone.
Reclaim(o) ==
    /\ escrow[o] = "authorized" /\ clock[o] \geq 2
    /\ escrow' = [escrow EXCEPT ![o] = "reclaimed"]
    /\ UNCHANGED <<database, emitted, swaps, rebates, rail, bridge, clock,
                   call, faults>>

\* A payment ends delivered or failed; a failed one returns to the
\* settlement wallet.
RailSettles(o, k) ==
    /\ rail[o][k] = "pending"
    /\ \E s \in {"delivered", "failed"} : rail' = [rail EXCEPT ![o][k] = s]
    /\ UNCHANGED <<database, emitted, escrow, swaps, rebates, bridge, clock,
                   call, faults>>

\* An await rejects (the database, the network), the answer to it is lost, or
\* the process dies: the call is gone and what it did stays.
Interrupt(w) ==
    /\ faults < MaxFaults
    /\ ~ At(w, "idle")
    /\ faults' = faults + 1
    /\ End(w)
    /\ UNCHANGED <<database, emitted, chain, clock>>

-----------------------------------------------------------------------------
\* Nothing has been done about any order.
NothingYet ==
    /\ fundedAt = [o \in Orders |-> FALSE]
    /\ payout = [o \in Orders |-> NoPayout]
    /\ ledger = [o \in Orders |-> [k \in PaymentKinds |-> "absent"]]
    /\ emitted = [o \in Orders |-> [e \in Events |-> 0]]
    /\ escrow = [o \in Orders |-> "none"]
    /\ swaps = [o \in Orders |-> 0]
    /\ rebates = [o \in Orders |-> {}]
    /\ rail = [o \in Orders |-> [k \in PaymentIds |-> "none"]]
    /\ bridge = [o \in Orders |-> "idle"]
    /\ call = [w \in Workers |-> Idle]
    /\ faults = 0

Init ==
    /\ state = [o \in Orders |-> "created"]
    /\ clock = [o \in Orders |-> 0]
    /\ NothingYet

\* The host calls an operation.
Begin(w, o) ==
    \/ Fund(w, o) \/ Release(w, o) \/ RetrySettlement(w, o)
    \/ RefreshPayout(w, o) \/ Refund(w, o) \/ Reconcile(w, o)
    \/ MarkFunding(w, o) \/ Ship(w, o) \/ Expire(w, o)

\* A call in flight goes on.
Continue(w) ==
    \/ TransitionRead(w) \/ TransitionWrite(w) \/ Emit(w)
    \/ FundExecute(w) \/ FundRecord(w) \/ FundReread(w)
    \/ ReleaseCapture(w) \/ ReleaseSwap(w) \/ ReleaseCaptureRow(w)
    \/ SettleSwapRow(w) \/ SettleRebate(w) \/ SettleRebateRow(w)
    \/ SettlePayout(w)
    \/ PayoutQuote(w) \/ PayoutSubmit(w) \/ PayoutSave(w) \/ PayoutRow(w)
    \/ PayoutRebate(w) \/ PayoutRebateRow(w)
    \/ RetrySwap(w)
    \/ RefreshRead(w) \/ RefreshStatus(w) \/ RefreshSave(w) \/ RefreshRow(w)
    \/ RefundEscrow(w) \/ RefundBridge(w)
    \/ ReconcileRead(w)

Outside(o) ==
    \/ TimePasses(o)
    \/ Reclaim(o)
    \/ \E k \in PaymentIds : RailSettles(o, k)

Next ==
    \/ \E w \in Workers, o \in Orders : Begin(w, o)
    \/ \E w \in Workers : Continue(w) \/ Interrupt(w)
    \/ \E o \in Orders : Outside(o)

Spec == Init /\ [][Next]_vars

TypeOK ==
    /\ state \in [Orders -> ORDER_STATES]
    /\ fundedAt \in [Orders -> BOOLEAN]
    /\ payout \in [Orders -> Payouts]
    /\ ledger \in [Orders -> [PaymentKinds -> RowStatus]]
    /\ emitted \in [Orders -> [Events -> Nat]]
    /\ escrow \in [Orders -> EscrowStates]
    /\ clock \in [Orders -> Clock]
    /\ swaps \in [Orders -> Nat]
    /\ rebates \in [Orders -> SUBSET {"paid", "threw"}]
    /\ rail \in [Orders -> [PaymentIds -> RailStatus]]
    /\ bridge \in [Orders -> {"idle", "burned", "arrived"}]
    /\ call \in [Workers -> Calls]
    /\ faults \in 0..MaxFaults
=============================================================================
