---------------------------- MODULE Marketplace ----------------------------
(***************************************************************************)
(* An order of the demo marketplace once it is funded: the seller ships,    *)
(* the buyer confirms or disputes, the host settles, judges and retries.    *)
(* demo/app/Marketplace.tsx and demo/app/marketplace.actions.ts over the    *)
(* order facade, which is module RivoKit in full: the calls of the screens  *)
(* are its workers.                                                         *)
(*                                                                         *)
(* A screen holds all three panels and makes one call on the order at a     *)
(* time; task is what the server action will do around the call of the      *)
(* facade.  A sweep is the call the board's effect makes for an order that  *)
(* waits for its payout; it runs beside the buttons, and since the effect   *)
(* is set up again on every render, several may run at once.                *)
(***************************************************************************)
EXTENDS RivoKit, OrderView

CONSTANTS
    Screens,    \* workers that are screens
    SweepOf,    \* the other workers are sweeps; the screen of each
    Scenes      \* the scenes considered: which order, who takes part, which
                \* buttons they press, whether the seller gave an address of
                \* their own, and how many faults there are at most.  A host
                \* that can forward EURC to it wires the rebate with the same
                \* transfer (getRivoKit).

Buttons == {"ship", "confirm", "dispute", "release", "retry", "refund"}

ASSUME ScenesAssumption ==
    /\ Screens \subseteq Workers
    /\ SweepOf \in [Workers \ Screens -> Screens]
    /\ \A s \in Scenes : /\ s.order \in Orders
                         /\ s.cast \subseteq Workers
                         /\ s.buttons \subseteq Buttons
                         /\ s.sellerAddress \in BOOLEAN
                         /\ s.sellerAddress => s.order \in RebatedOrders
                         /\ s.faults \in 0..MaxFaults

VARIABLES
    scene,          \* the scene of this run; never changes
    events,         \* the kinds of events recorded of the order
    windowPassed,   \* DISPUTE_WINDOW_MS have passed since it was shipped
    forwards,       \* transfers of the floor to the seller's address
    view,           \* what each screen shows of the order
    reading,        \* the read of the board each screen has in flight
    task,           \* the server action each screen waits for
    overtaken       \* a button was pressed on what was no longer so

order == scene.order

kit       == <<database, emitted, chain, clock>>
host      == <<scene, windowPassed, overtaken>>
screen    == <<view, reading>>
marketVars == <<kit, call, faults, host, events, forwards, screen, task>>

Tasks == Buttons \cup {"none", "ship.event", "forward.events",
                       "forward.order", "forward.send", "forward.event"}

MarketStates == ORDER_STATES \ {"created", "funding_pending"}
Now == buildView(state[order], FALSE, FALSE, events)
MarketViews == {Blank} \cup {v \in Views : /\ v.state \in MarketStates
                                         /\ ~v.expired /\ ~v.landed}

\* run(): the board is read again, unless it is being read.
Refresh(w) ==
    reading' = [reading EXCEPT ![w] = IF @ = "none" THEN state'[order] ELSE @]

\* The server action of screen w returns or throws.
Done(w) == task' = [task EXCEPT ![w] = "none"] /\ Refresh(w)

Fault == faults < scene.faults /\ faults' = faults + 1

Then(w, next) == task' = [task EXCEPT ![w] = next]

-----------------------------------------------------------------------------
(* The buttons.                                                             *)

Alone == \A w \in Screens : task[w] = "none"

\* Screen w is free, and what it offers is pressed.
Press(w, button) ==
    /\ button \in scene.buttons
    /\ w \in scene.cast \cap Screens
    /\ task[w] = "none"
    /\ overtaken' = (overtaken \/ view[w] # Now \/ ~Alone)
    /\ UNCHANGED <<scene, windowPassed, events, forwards, view>>

\* The server action begins with a call of the facade; one that is refused at
\* once is over, and so is the action.
CallKit(w, next, accepted, begin) ==
    \/ accepted /\ begin /\ Then(w, next) /\ UNCHANGED reading
    \/ ~accepted /\ UNCHANGED <<kit, call, faults, task>> /\ Refresh(w)

\* mpShip: an order that is funded is moved; the event is recorded of any.
PressShip(w) ==
    /\ Press(w, "ship") /\ canShip(view[w])
    /\ \/ /\ state[order] = "funded"
          /\ Ship(w, order)
          /\ Then(w, "ship")
       \/ /\ state[order] # "funded"
          /\ Then(w, "ship.event")
          /\ UNCHANGED <<kit, call, faults>>
    /\ UNCHANGED reading

PressConfirm(w) ==
    /\ Press(w, "confirm") /\ canConfirm(view[w])
    /\ Then(w, "confirm")
    /\ UNCHANGED <<kit, call, faults, reading>>

PressDispute(w) ==
    /\ Press(w, "dispute") /\ canDispute(view[w])
    /\ Then(w, "dispute")
    /\ UNCHANGED <<kit, call, faults, reading>>

\* Both of the host's buttons that release are the same server action.
PressRelease(w) ==
    /\ Press(w, "release")
    /\ \/ settleable(view[w]) /\ ~held(view[w], windowPassed)
       \/ canJudge(view[w])
    /\ CallKit(w, "release", canTransition(state[order], ReleaseTarget(order)),
              Release(w, order))

PressRetry(w) ==
    /\ Press(w, "retry") /\ canRetry(view[w])
    /\ CallKit(w, "retry", Retryable(state[order]), RetrySettlement(w, order))

PressRefund(w) ==
    /\ Press(w, "refund") /\ canJudge(view[w])
    /\ Refund(w, order)
    /\ Then(w, "refund")
    /\ UNCHANGED reading

-----------------------------------------------------------------------------
(* The server actions go on.                                                *)

\* A call that ends in these steps has returned; in any other it has thrown.
Returns(w) == \/ At(w, "emit")
              \/ At(w, "transition.write") /\ RowAccepted(order, call[w].to)

\* What the server action does once the facade has returned to it.
AfterKit(w) ==
    CASE task[w] = "ship"    -> "ship.event"
      [] task[w] = "release" -> IF scene.sellerAddress THEN "forward.events"
                                                       ELSE "none"
      [] task[w] \in {"retry", "refund"} -> "none"

\* A step of the facade for screen w, or for a sweep; the end of a sweep asks
\* for the board.
KitStep(w) ==
    /\ Continue(w)
    /\ faults' \leq scene.faults
    /\ IF call'[w] # Idle
         THEN UNCHANGED <<task, reading>>
         ELSE IF w \notin Screens
                THEN Refresh(SweepOf[w]) /\ UNCHANGED task
                ELSE IF Returns(w) /\ AfterKit(w) # "none"
                       THEN Then(w, AfterKit(w)) /\ UNCHANGED reading
                       ELSE Done(w)
    /\ UNCHANGED <<host, events, forwards, view>>

EventOf == [k \in {"confirm", "dispute", "ship.event", "forward.event"} |->
              CASE k = "confirm"       -> "mp.buyer_confirmed"
                [] k = "dispute"       -> "mp.dispute"
                [] k = "ship.event"    -> "mp.shipped"
                [] k = "forward.event" -> "mp.seller_payout"]

\* The action ends by recording its event.
RecordEvent(w) ==
    /\ task[w] \in DOMAIN EventOf
    /\ events' = events \cup {EventOf[task[w]]}
    /\ UNCHANGED state
    /\ Done(w)
    /\ UNCHANGED <<kit, call, faults, host, forwards, view>>

\* mpRelease, after kit.release: the floor goes on to the seller's address if
\* the events do not tell of it yet and the order is released.
ForwardEvents(w) ==
    /\ task[w] = "forward.events"
    /\ UNCHANGED state
    /\ IF "mp.seller_payout" \in events
         THEN Done(w)
         ELSE Then(w, "forward.order") /\ UNCHANGED reading
    /\ UNCHANGED <<kit, call, faults, host, events, forwards, view>>

ForwardOrder(w) ==
    /\ task[w] = "forward.order"
    /\ UNCHANGED state
    /\ IF state[order] = "released"
         THEN Then(w, "forward.send") /\ UNCHANGED reading
         ELSE Done(w)
    /\ UNCHANGED <<kit, call, faults, host, events, forwards, view>>

\* sendEurc: it is sent, or sent and the answer lost.  (Fails has it refused.)
ForwardSend(w) ==
    /\ task[w] = "forward.send"
    /\ UNCHANGED state
    /\ \/ /\ forwards' = forwards + 1
          /\ Then(w, "forward.event")
          /\ UNCHANGED <<reading, faults>>
       \/ /\ Fault
          /\ forwards' = forwards + 1
          /\ Done(w)
    /\ UNCHANGED <<kit, call, host, events, view>>

-----------------------------------------------------------------------------
(* The board.                                                               *)

\* The effect sweeps when a render shows an order that waits for its payout.
Sweep(w) ==
    /\ w \in scene.cast \ Screens
    /\ view[SweepOf[w]].state = "payout_pending"
    /\ RefreshPayout(w, order)
    /\ UNCHANGED <<host, events, forwards, screen, task>>

Ask(w) ==
    /\ w \in scene.cast \cap Screens
    /\ liveWork(view[w]) \/ task[w] # "none"
    /\ reading[w] = "none"
    /\ reading' = [reading EXCEPT ![w] = state[order]]
    /\ UNCHANGED <<kit, call, faults, host, events, forwards, view, task>>

\* The orders were read, and then their events.
Show(w) ==
    /\ reading[w] # "none"
    /\ view' = [view EXCEPT ![w] = buildView(reading[w], FALSE, FALSE, events)]
    /\ reading' = [reading EXCEPT ![w] = "none"]
    /\ UNCHANGED <<kit, call, faults, host, events, forwards, task>>

Reopen(w) ==
    /\ w \in scene.cast \cap Screens /\ task[w] = "none"
    /\ view' = [view EXCEPT ![w] = Now]
    /\ reading' = [reading EXCEPT ![w] = "none"]
    /\ UNCHANGED <<kit, call, faults, host, events, forwards, task>>

-----------------------------------------------------------------------------
(* Outside: time, the rail, and faults.                                     *)

WindowPasses ==
    /\ "mp.shipped" \in events /\ ~windowPassed
    /\ windowPassed' = TRUE
    /\ UNCHANGED <<kit, call, faults, scene, overtaken, events, forwards,
                   screen, task>>

World ==
    /\ Outside(order)
    /\ UNCHANGED <<host, events, forwards, screen, task>>

\* An await of a server action or of a sweep rejects, or its process dies.
Fails(w) ==
    /\ w \in scene.cast
    /\ faults < scene.faults
    /\ \/ Interrupt(w)
       \/ /\ At(w, "idle") /\ w \in Screens /\ task[w] # "none"
          /\ faults' = faults + 1
          /\ UNCHANGED <<kit, call>>
    /\ IF w \in Screens THEN Done(w)
                        ELSE Refresh(SweepOf[w]) /\ UNCHANGED task
    /\ UNCHANGED <<host, events, forwards, view>>

\* A read of the board fails underway, or in the database.
ReadFails(w) ==
    /\ reading[w] # "none"
    /\ Fault
    /\ reading' = [reading EXCEPT ![w] = "none"]
    /\ view' \in {view, [view EXCEPT ![w] = Blank]}
    /\ UNCHANGED <<kit, call, host, events, forwards, task>>

-----------------------------------------------------------------------------
\* The order of the scene has just been funded; there are no others.
MarketInit ==
    /\ scene \in Scenes
    /\ state = [o \in Orders |-> IF o = order THEN "funded" ELSE "created"]
    /\ fundedAt = [o \in Orders |-> o = order]
    /\ payout = [o \in Orders |-> NoPayout]
    /\ ledger = [o \in Orders |-> [k \in PaymentKinds |->
                   IF o = order /\ k = "authorize" THEN "confirmed"
                                                   ELSE "absent"]]
    /\ emitted = [o \in Orders |-> [e \in Events |->
                    IF o = order /\ e = "funded" THEN 1 ELSE 0]]
    /\ escrow = [o \in Orders |-> IF o = order THEN "authorized" ELSE "none"]
    /\ clock = [o \in Orders |-> 0]
    /\ swaps = [o \in Orders |-> 0]
    /\ rebates = [o \in Orders |-> {}]
    /\ rail = [o \in Orders |-> [k \in PaymentIds |-> "none"]]
    /\ bridge = [o \in Orders |-> "idle"]
    /\ call = [w \in Workers |-> Idle]
    /\ faults = 0
    /\ events = {} /\ windowPassed = FALSE /\ forwards = 0
    /\ view = [w \in Screens |-> Now]
    /\ reading = [w \in Screens |-> "none"]
    /\ task = [w \in Screens |-> "none"]
    /\ overtaken = FALSE

Presses(w) ==
    \/ PressShip(w) \/ PressConfirm(w) \/ PressDispute(w)
    \/ PressRelease(w) \/ PressRetry(w) \/ PressRefund(w)

Serve(w) ==
    \/ KitStep(w) \/ RecordEvent(w)
    \/ ForwardEvents(w) \/ ForwardOrder(w) \/ ForwardSend(w)

Board(w) == Ask(w) \/ Show(w)

MarketNext ==
    \/ \E w \in Screens :
         \/ Presses(w) \/ RecordEvent(w)
         \/ ForwardEvents(w) \/ ForwardOrder(w) \/ ForwardSend(w)
         \/ Board(w) \/ Reopen(w) \/ ReadFails(w)
    \/ \E w \in Workers \ Screens : Sweep(w)
    \/ \E w \in Workers : KitStep(w) \/ Fails(w)
    \/ WindowPasses \/ World

MarketSpec == MarketInit /\ [][MarketNext]_marketVars

\* Awaits are answered, the board's timers fire, and a payment the rail has
\* accepted ends one way or the other.
MarketFairSpec ==
    /\ MarketSpec
    /\ \A w \in Screens : WF_marketVars(Serve(w)) /\ WF_marketVars(Board(w))
    /\ \A w \in Workers \ Screens :
         WF_marketVars(Sweep(w)) /\ WF_marketVars(KitStep(w))
    /\ \A k \in PaymentIds : WF_marketVars(World /\ RailSettles(order, k))

MarketTypeOK ==
    /\ TypeOK
    /\ scene \in Scenes
    /\ events \subseteq Signals
    /\ windowPassed \in BOOLEAN /\ overtaken \in BOOLEAN
    /\ forwards \in Nat
    /\ view \in [Screens -> MarketViews]
    /\ reading \in [Screens -> MarketStates \cup {"none"}]
    /\ task \in [Screens -> Tasks]
=============================================================================
