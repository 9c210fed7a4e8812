------------------------------ MODULE Checkout ------------------------------
(***************************************************************************)
(* Paying for one order: the buyer's panel of demo/app/Marketplace.tsx, the *)
(* actions of demo/app/marketplace.actions.ts it calls, and the rails that  *)
(* bring the payer's USDC to Arc first.                                     *)
(*                                                                         *)
(* Tabs are browsers with the board open.  A tab offers what its last view  *)
(* of the order offers and makes one call at a time; the call is a sequence *)
(* of awaits, and each action is what happens between two of them.  A board *)
(* is read while calls run, by reads that may answer late.                  *)
(*                                                                         *)
(* The payer either signs every leg in the browser ("wallet") or is the     *)
(* demo buyer the server signs for ("demo"); the two take different code,   *)
(* and the demo buyer's orders can be paid from every browser there is.     *)
(* Amounts are counted in orders: a rail moves what the order needs.        *)
(***************************************************************************)
EXTENDS Naturals, OrderView, Rails

CONSTANTS
    Tabs,       \* browsers that may have the board open
    Settings    \* the settings considered: who pays, from which tabs, with
                \* how much away from Arc, whether the authorization window
                \* may lapse, and through how many faults at most

ASSUME SettingsAssumption ==
    \A s \in Settings : /\ s.payer \in {"wallet", "demo"}
                        /\ s.tabs \subseteq Tabs
                        /\ s.away \in Nat
                        /\ s.lapses \in BOOLEAN
                        /\ s.faults \in Nat

VARIABLES
    setting,    \* the setting of this order; never changes
    state,      \* orders.state
    rows,       \* payments rows of kind "funding"
    expired,    \* preApprovalExpiry has passed
    away,       \* the payer's USDC on other chains
    transit,    \* USDC burned and not yet minted
    arc,        \* the payer's USDC on Arc
    collected,  \* the escrow has collected the payment
    view,       \* what each tab shows of the order
    reading,    \* the read of the board each tab has in flight
    call,       \* the call each tab has in flight
    overtaken,  \* a button was pressed on what was no longer so
    denied,     \* a transfer that had burned was told as one that did not begin
    faults      \* faults so far

payer == setting.payer

record == <<state, rows>>
money  == <<away, transit, arc, collected>>
screen == <<view, reading>>
story  == <<overtaken, denied>>
vars   == <<setting, record, expired, money, screen, call, story, faults>>

-----------------------------------------------------------------------------

Payers == {"wallet", "demo"}
CrossChain == {"unified", "bridge"}
PaySources == {"arc"} \cup CrossChain
\* A row of kind "funding" has a nonce of its rail's name.
\* Mutant: the row is named for the source the buyer chose.
FundingRow_Source == [unified |-> "unified", bridge |-> "bridge"]
FundingRow == [unified |-> "gw-spend", bridge |-> "bridge"]
Rows == {"gw-spend", "bridge"}

OrderPhases == {"created", "funding_pending", "funded", "failed"}

Landed == rows # {}
Now == buildView(state, expired, Landed, {})

CheckoutViews == {Blank} \cup
                 {v \in Views : /\ v.state \in OrderPhases
                               /\ ~v.shipped /\ ~v.confirmed /\ ~v.disputed}

\* A read of the board has the orders and not yet their payments.
Readings == {"none"} \cup OrderPhases

Labels == {"idle", "rail", "rail.burned", "rail.minted", "mark", "record",
           "sign", "fund", "fund.execute", "fund.reread", "close",
           "move.read", "move.write"}

\* ok: the rail delivered.  to, then: the move the call is making, and where
\* it goes on from there.
Calls == [at : Labels, rail : PaySources, ok : BOOLEAN, to : OrderPhases,
          then : Labels]
Idle == [at |-> "idle", rail |-> "arc", ok |-> FALSE, to |-> "created",
         then |-> "idle"]

At(t, label) == call[t].at = label

\* What a call remembers is forgotten once the rail is done with.
Onto(c, label) ==
    [c EXCEPT !.at = label, !.to = Idle.to, !.then = Idle.then,
              !.ok = @ /\ label \in {"mark", "record"},
              !.rail = IF label \in {"sign", "fund", "fund.execute"}
                         THEN Idle.rail ELSE @]
Goto(t, label) == call' = [call EXCEPT ![t] = Onto(@, label)]

\* run(): whatever the call returned, the button is freed and the board is
\* asked again.  useLive never has two reads in flight, so this one is dropped
\* while another is.
EndSeeing(t, s) ==
    /\ call' = [call EXCEPT ![t] = Idle]
    /\ reading' = [reading EXCEPT ![t] = IF @ = "none" THEN s ELSE @]
End(t) == EndSeeing(t, state)

Move(t, to, then) ==
    call' = [call EXCEPT ![t] = [@ EXCEPT !.at = "move.read", !.to = to,
                                          !.then = then]]

-----------------------------------------------------------------------------
(* store.transition: the row is read and the edge checked, then the row is  *)
(* updated by its id.                                                       *)

\* What a delivered transfer cannot record: the wallet's actions swallow it and
\* the call goes on; runRail catches it for the demo buyer, marks once more as
\* for a transfer in doubt, and throws on.
Unrecorded(t, label) ==
    /\ call' = [call EXCEPT ![t] =
                  IF payer = "wallet"
                    THEN Onto(@, label)
                    ELSE [Onto(@, "mark") EXCEPT !.ok = FALSE]]
    /\ UNCHANGED reading

Thrown(t) ==
    IF call[t].then = "record" THEN Unrecorded(t, "record") ELSE End(t)

MoveRead(t) ==
    /\ At(t, "move.read")
    /\ IF canTransition(state, call[t].to)
         THEN /\ call' = [call EXCEPT ![t].at = "move.write"]
              /\ UNCHANGED reading
         ELSE Thrown(t)
    /\ UNCHANGED <<setting, record, expired, money, view, story, faults>>

MoveWrite(t) ==
    /\ At(t, "move.write")
    /\ state' = call[t].to
    /\ IF call[t].then = "idle"
         THEN EndSeeing(t, call[t].to)
         ELSE Goto(t, call[t].then) /\ UNCHANGED reading
    /\ UNCHANGED <<setting, rows, expired, money, view, story, faults>>

-----------------------------------------------------------------------------
(* The buyer presses a button.                                              *)

Alone == \A t \in Tabs : At(t, "idle")

Begin(t, rail, label) ==
    /\ t \in setting.tabs /\ At(t, "idle")
    /\ call' = [call EXCEPT ![t] = [Idle EXCEPT !.at = label, !.rail = rail]]
    /\ UNCHANGED <<setting, record, expired, money, screen, denied, faults>>

\* To pay on a screen that is out of date, or while another tab is at it.
Risk(t) == overtaken' = (overtaken \/ view[t] # Now \/ ~Alone)

\* Where a call goes on once the USDC is on Arc.
Authorize == IF payer = "wallet" THEN "sign" ELSE "fund"

\* The chooser offers every rail that has the funds; that of a payment under
\* way, too, behind a warning not to send a second amount.
Pay(t, rail) ==
    /\ payable(view[t])
    /\ rail \in CrossChain => away > 0
    /\ Begin(t, rail, IF rail = "arc" THEN Authorize ELSE "rail")
    /\ Risk(t)

\* Finish payment: the same call, on the rail "arc".
Finish(t) ==
    /\ canFinish(view[t])
    /\ Begin(t, "arc", Authorize)
    /\ Risk(t)

Close(t) ==
    /\ canClose(view[t])
    /\ Begin(t, "arc", "close")
    /\ overtaken' = (overtaken \/ ~Alone)

-----------------------------------------------------------------------------
(* The rail: the kit burns, mints, and says what happened.                  *)

Burn(t) ==
    /\ At(t, "rail") /\ away > 0
    /\ away' = away - 1
    /\ transit' = transit + 1
    /\ Goto(t, "rail.burned")
    /\ UNCHANGED <<setting, record, expired, arc, collected, screen, story,
                   faults>>

Mint(t) ==
    /\ At(t, "rail.burned") /\ transit > 0
    /\ transit' = transit - 1
    /\ arc' = arc + 1
    /\ Goto(t, "rail.minted")
    /\ UNCHANGED <<setting, record, expired, away, collected, screen, story,
                   faults>>

Stage == [label \in {"rail", "rail.burned", "rail.minted"} |->
            CASE label = "rail"        -> "none"
              [] label = "rail.burned" -> "burned"
              [] label = "rail.minted" -> "minted"]

\* What the code makes of the end of a rail: the transfer is delivered, in
\* doubt, or never began.
Ending(code) ==
    IF code = "ok" THEN "delivered" ELSE
    IF fundsMayBeInFlight(code) THEN "doubt" ELSE "nothing"

\* Every way a rail may end, and whether it denied a burn.
RailEnds ==
    [who \in Payers |-> [rail \in CrossChain |-> [stage \in Stages |->
       {[as |-> Ending(railEnds(rail, a)),
         denied |-> stage # "none" /\ Denies(a)] :
           a \in MayAnswer(who, rail, stage)}]]]

\* Money that moved, or may have, is marked on the order; what is taken for a
\* failure that moved nothing leaves the order payable.
RailAnswers(t) ==
    /\ call[t].at \in DOMAIN Stage
    /\ \E e \in RailEnds[payer][call[t].rail][Stage[call[t].at]] :
         /\ denied' = (denied \/ e.denied)
         /\ IF e.as = "nothing"
              THEN End(t)
              ELSE /\ call' = [call EXCEPT ![t].at = "mark",
                                           ![t].ok = (e.as = "delivered")]
                   /\ UNCHANGED reading
    /\ UNCHANGED <<setting, record, expired, money, view, overtaken, faults>>

\* Mutant: a transfer in doubt is recorded like one that was delivered.
AfterMark_Records(t) == "record"
AfterMark(t) == IF call[t].ok THEN "record" ELSE "idle"

\* mpMarkFunding, markInFlight: only an order that was not marked before.
Mark(t) ==
    /\ At(t, "mark")
    /\ IF state = "created"
         THEN Move(t, "funding_pending", AfterMark(t)) /\ UNCHANGED reading
         ELSE IF AfterMark(t) = "record"
                THEN Goto(t, "record") /\ UNCHANGED reading
                ELSE End(t)
    /\ UNCHANGED <<setting, record, expired, money, view, story, faults>>

\* mpRecordWalletFunding: a row that is there stays.
RecordFunding(t) ==
    /\ At(t, "record")
    /\ rows' = rows \cup {FundingRow[call[t].rail]}
    /\ Goto(t, Authorize)
    /\ UNCHANGED <<setting, state, expired, money, screen, story, faults>>

-----------------------------------------------------------------------------
(* The authorization: signed by the wallet or by the server, relayed by     *)
(* kit.fund.                                                                *)

\* The wallet may refuse to switch to Arc, or to sign.
Sign(t) ==
    /\ At(t, "sign")
    /\ \/ Goto(t, "fund") /\ UNCHANGED reading
       \/ End(t)
    /\ UNCHANGED <<setting, record, expired, money, view, story, faults>>

Fund(t) ==
    /\ At(t, "fund")
    /\ IF state = "created" THEN Move(t, "funding_pending", "fund.execute")
                            ELSE Goto(t, "fund.execute")
    /\ UNCHANGED <<setting, record, expired, money, screen, story, faults>>

\* (What RivoKit models of fund() in full is here without the row of the
\* authorization and the announcements.)  The escrow collects once, until the
\* authorization window closes, what the payer holds on Arc; the executor takes
\* a payment it finds collected for done.
FundExecute(t) ==
    /\ At(t, "fund.execute")
    /\ \/ /\ ~collected /\ ~expired /\ arc > 0
          /\ collected' = TRUE
          /\ arc' = arc - 1
          /\ Goto(t, "fund.reread")
          /\ UNCHANGED reading
       \/ /\ collected
          /\ Goto(t, "fund.reread")
          /\ UNCHANGED <<arc, collected, reading>>
       \/ End(t) /\ UNCHANGED <<arc, collected>>
    /\ UNCHANGED <<setting, record, expired, away, transit, view, story,
                   faults>>

FundReread(t) ==
    /\ At(t, "fund.reread")
    /\ IF state = "funding_pending"
         THEN Move(t, "funded", "idle") /\ UNCHANGED reading
         ELSE End(t)
    /\ UNCHANGED <<setting, record, expired, money, view, story, faults>>

-----------------------------------------------------------------------------
(* Closing an order: mpExpireOrder.                                         *)

\* Mutant: what the screen showed is taken for the order's state.
mayExpire_Unread(s) == TRUE
mayExpire(s) == s \in Unfunded

CheckClose(t) ==
    /\ At(t, "close")
    /\ IF mayExpire(state) /\ expired
         THEN Move(t, "failed", "idle") /\ UNCHANGED reading
         ELSE End(t)
    /\ UNCHANGED <<setting, record, expired, money, view, story, faults>>

-----------------------------------------------------------------------------
(* The board.                                                               *)

\* The timer runs while the view may move by itself, or while a call runs.
\* listViews reads the orders, and then their payments and events...
Polling(t) == liveWork(view[t]) \/ ~At(t, "idle")

Ask(t) ==
    /\ Polling(t)
    /\ reading[t] = "none"
    /\ reading' = [reading EXCEPT ![t] = state]
    /\ UNCHANGED <<setting, record, expired, money, view, call, story, faults>>

\* ...and the view of both replaces what the tab showed.
Show(t) ==
    /\ reading[t] \in OrderPhases
    /\ view' = [view EXCEPT ![t] =
                  buildView(reading[t], expired, Landed, {})]
    /\ reading' = [reading EXCEPT ![t] = "none"]
    /\ UNCHANGED <<setting, record, expired, money, call, story, faults>>

\* A page that is opened again is rendered from the record.
Reopen(t) ==
    /\ t \in setting.tabs /\ At(t, "idle")
    /\ view' = [view EXCEPT ![t] = Now]
    /\ reading' = [reading EXCEPT ![t] = "none"]
    /\ UNCHANGED <<setting, record, expired, money, call, story, faults>>

-----------------------------------------------------------------------------
(* Outside: time, transfers, and faults.                                    *)

Expire ==
    /\ setting.lapses /\ ~expired
    /\ expired' = TRUE
    /\ UNCHANGED <<setting, record, money, screen, call, story, faults>>

\* A transfer no call waits for is resumed, or was only slow.
Arrive ==
    /\ transit > 0
    /\ \A t \in Tabs : ~At(t, "rail.burned")
    /\ transit' = transit - 1
    /\ arc' = arc + 1
    /\ UNCHANGED <<setting, record, expired, away, collected, screen, call,
                   story, faults>>

Fault == faults < setting.faults /\ faults' = faults + 1

\* A read of the board fails.  Underway, the view stays as it was; in the
\* database, the answer is a board without orders, like any other answer.
ReadFails(t) ==
    /\ reading[t] # "none"
    /\ Fault
    /\ reading' = [reading EXCEPT ![t] = "none"]
    /\ view' \in {view, [view EXCEPT ![t] = Blank]}
    /\ UNCHANGED <<setting, record, expired, money, call, story>>

\* A statement of the database is rejected.
Rejected(t) ==
    /\ Fault
    /\ \/ call[t].at \in {"move.read", "move.write"} /\ Thrown(t)
       \/ At(t, "mark") /\ call[t].ok /\ Unrecorded(t, "record")
       \/ At(t, "record") /\ Unrecorded(t, "sign")
       \/ /\ \/ At(t, "mark") /\ ~call[t].ok
             \/ call[t].at \in {"fund", "fund.reread", "close"}
          /\ End(t)
    /\ UNCHANGED <<setting, record, expired, money, view, story>>

\* The tab is closed, or the process that serves it dies; the buyer opens the
\* board again.
Dies(t) ==
    /\ ~At(t, "idle")
    /\ Fault
    /\ call' = [call EXCEPT ![t] = Idle]
    /\ view' = [view EXCEPT ![t] = Now]
    /\ reading' = [reading EXCEPT ![t] = "none"]
    /\ UNCHANGED <<setting, record, expired, money, story>>

-----------------------------------------------------------------------------
Init ==
    /\ setting \in Settings
    /\ state = "created" /\ rows = {} /\ expired = FALSE
    /\ away = setting.away /\ transit = 0 /\ arc = 0 /\ collected = FALSE
    /\ view = [t \in Tabs |-> Now]
    /\ reading = [t \in Tabs |-> "none"]
    /\ call = [t \in Tabs |-> Idle]
    /\ overtaken = FALSE /\ denied = FALSE /\ faults = 0

Press(t) == (\E rail \in PaySources : Pay(t, rail)) \/ Finish(t) \/ Close(t)

Continue(t) ==
    \/ RailAnswers(t) \/ Mark(t) \/ RecordFunding(t) \/ Sign(t)
    \/ Fund(t) \/ FundExecute(t) \/ FundReread(t)
    \/ CheckClose(t) \/ MoveRead(t) \/ MoveWrite(t)

Board(t) == Ask(t) \/ Show(t)

Next ==
    \/ \E t \in Tabs :
         \/ Press(t) \/ Continue(t) \/ Burn(t) \/ Mint(t)
         \/ Board(t) \/ Reopen(t)
         \/ ReadFails(t) \/ Rejected(t) \/ Dies(t)
    \/ Expire \/ Arrive

Spec == Init /\ [][Next]_vars

\* Awaits of a call and of a read are answered, and the timer fires.
FairSpec == Spec /\ \A t \in Tabs : WF_vars(Continue(t)) /\ WF_vars(Board(t))

TypeOK ==
    /\ setting \in Settings
    /\ state \in OrderPhases /\ rows \subseteq Rows
    /\ expired \in BOOLEAN /\ collected \in BOOLEAN
    /\ away \in 0..setting.away /\ transit \in Nat /\ arc \in Nat
    /\ view \in [Tabs -> CheckoutViews]
    /\ reading \in [Tabs -> Readings]
    /\ call \in [Tabs -> Calls]
    /\ overtaken \in BOOLEAN /\ denied \in BOOLEAN
    /\ faults \in 0..setting.faults
=============================================================================
