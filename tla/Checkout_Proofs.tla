-------------------------- MODULE Checkout_Proofs --------------------------
(***************************************************************************)
(* Paying for an order, for any settings: any browsers, windows, funds and  *)
(* faults.                                                                  *)
(*                                                                         *)
(* Whatever overlaps, a funding row is written by a call that saw its       *)
(* transfer delivered, and USDC leaves the payer's address on Arc only into *)
(* the escrow (LandedInv); and a burn the order does not show is one that a *)
(* call is about to mark (ShownInv).  As long as buttons are pressed one at *)
(* a time on current screens, the one call in flight accounts for a         *)
(* collection the order's state does not say yet (AccountedInv).            *)
(***************************************************************************)
EXTENDS CheckoutProperties, TLAPS

-----------------------------------------------------------------------------
(* What the judgement of the kit's answer is worth.                         *)

\* A rail delivers only what was minted, and what it takes for nothing has not
\* burned or was denied.
LEMMA RailEndsHonestly ==
  ASSUME NEW who \in Payers, NEW rail \in CrossChain, NEW stage \in Stages,
         NEW e \in RailEnds[who][rail][stage]
  PROVE  /\ e.as \in {"delivered", "doubt", "nothing"}
         /\ e.denied \in BOOLEAN
         /\ e.as = "delivered" => stage = "minted"
         /\ e.as = "nothing" => stage = "none" \/ e.denied
<1>0. RailEnds[who][rail][stage] =
        {[as |-> Ending(railEnds(rail, a)),
          denied |-> stage # "none" /\ Denies(a)] :
            a \in MayAnswer(who, rail, stage)}
  BY DEF RailEnds
<1>1. PICK a \in MayAnswer(who, rail, stage) :
        e = [as |-> Ending(railEnds(rail, a)),
             denied |-> stage # "none" /\ Denies(a)]
  BY <1>0
<1> DEFINE code == railEnds(rail, a)
<1>2. /\ e.as = Ending(code)
      /\ e.denied = (stage # "none" /\ Denies(a))
  BY <1>1
<1>3. /\ code = "ok" => stage = "minted"
      /\ code \in Refusals \cup {"FUNDING_FAILED"} =>
           stage = "none" \/ Denies(a)
  <2>1. CASE a \in Results
    <3>1. /\ a.how = "resolved"
          /\ a.state \in {"success", "pending", "error"}
          /\ a.state = "success" => stage = "minted"
          /\ rail = "unified" => a.state = "success"
      BY <2>1 DEF MayAnswer, KitMaySay, Results, Throws
    <3>2. CASE rail = "unified"
      BY <3>1, <3>2 DEF railEnds, Refusals, Preflight, Declines
    <3>3. CASE rail = "bridge"
      <4>1. code = IF interpret(a) = "ok" /\ ~a.hash
                     THEN "no mint" ELSE interpret(a)
        BY <3>1, <3>3 DEF railEnds
      <4>2. /\ interpret(a) \in {"ok", "FUNDING_STUCK", "FUNDING_FAILED"}
            /\ interpret(a) = "ok" => stage = "minted"
            /\ interpret(a) = "FUNDING_FAILED" => Denies(a)
        BY <3>1 DEF interpret, Denies
      <4> HIDE DEF code
      <4> QED BY <4>1, <4>2 DEF Refusals, Preflight, Declines
    <3> QED BY <3>2, <3>3 DEF CrossChain
  <2>2. CASE a \in Throws
    <3>1. /\ a.how = "thrown"
          /\ a.text \in {"attestation", "transport", "other"}
          /\ a.code # "ok" /\ a.code # "FUNDING_FAILED"
          /\ a.code \in Preflight => stage = "none"
      BY <2>2 DEF MayAnswer, KitMaySay, Results, Throws, Preflight
    <3>2. code = IF rail = "bridge" THEN classifyThrow(a) ELSE a.code
      BY <3>1 DEF railEnds, CrossChain
    <3>3. classifyThrow(a) = IF a.text = "attestation" THEN "FUNDING_STUCK" ELSE
                             IF a.text = "transport" THEN "FUNDING_FAILED"
                                                     ELSE a.code
      BY <3>1 DEF classifyThrow
    <3>4. Denies(a) <=> a.text = "transport" \/ a.code \in Declines
      BY <3>1 DEF Denies
    <3>5. "FUNDING_STUCK" \notin Refusals \cup {"FUNDING_FAILED"}
      BY DEF Refusals, Preflight, Declines
    <3> HIDE DEF code
    <3> QED BY <3>1, <3>2, <3>3, <3>4, <3>5 DEF Refusals
  <2> QED BY <2>1, <2>2 DEF MayAnswer, KitMaySay
<1> HIDE DEF code
<1> QED BY <1>2, <1>3, Zenon DEF Ending, fundsMayBeInFlight

-----------------------------------------------------------------------------
(* Types, and the shape of a call.                                          *)

Moves == {"move.read", "move.write"}

\* What is true of a call by itself.
CallFits(c) ==
    /\ c \in Calls
    /\ c.at \in {"rail", "rail.burned", "rail.minted", "mark", "record"}
         => c.rail \in CrossChain
    /\ c.at \in Moves => c.to # "created" /\ c.then \in {"idle", "record",
                                                         "fund.execute"}
    /\ c.then # "idle" => c.at \in Moves /\ c.to = "funding_pending"
    /\ c.then = "record" => c.ok /\ c.rail \in CrossChain
    /\ c.at = "record" => c.ok

TypeInv == TypeOK /\ \A t \in Tabs : CallFits(call[t])

Becomes(t, c) == call' = [call EXCEPT ![t] = c]

\* Only a transfer that was delivered makes a call say so.
Honest(t, c) ==
    /\ c.ok => call[t].ok \/ At(t, "rail.minted")
    /\ c.at = "rail.minted" => At(t, "rail.minted") \/ arc' > 0

LEMMA PayerTyped == TypeInv => payer \in Payers
BY SettingsAssumption DEF TypeInv, TypeOK, payer, Payers

LEMMA IdleFits == CallFits(Idle) /\ Idle.at = "idle" /\ ~ Idle.ok
BY DEF CallFits, Idle, Calls, Labels, PaySources, OrderPhases, Moves

\* A call that goes on keeps what it has heard of its rail as long as it needs
\* it.
LEMMA OntoIs ==
  ASSUME NEW c \in Calls, NEW label \in Labels
  PROVE  /\ Onto(c, label) \in Calls
         /\ Onto(c, label).at = label
         /\ Onto(c, label).then = "idle"
         /\ Onto(c, label).ok <=> c.ok /\ label \in {"mark", "record"}
         /\ label \notin {"sign", "fund", "fund.execute"}
              => Onto(c, label).rail = c.rail
BY ZenonT(60) DEF Onto, Calls, Idle, PaySources, OrderPhases, Labels

LEMMA OntoFits ==
  ASSUME NEW c, CallFits(c), NEW label \in Labels \ Moves,
         label \in {"rail", "rail.burned", "rail.minted", "mark", "record"}
           => c.rail \in CrossChain,
         label = "record" => c.ok
  PROVE  /\ CallFits(Onto(c, label))
         /\ Onto(c, label).at = label
         /\ Onto(c, label).ok => c.ok
BY OntoIs DEF CallFits

\* A move of the order.
Moving(t, to, then) ==
    [call[t] EXCEPT !.at = "move.read", !.to = to, !.then = then]

LEMMA MovingFits ==
  ASSUME TypeInv, NEW t \in Tabs,
         NEW to \in OrderPhases \ {"created"},
         NEW then \in {"idle", "record", "fund.execute"},
         then # "idle" => to = "funding_pending",
         then = "record" => call[t].ok /\ call[t].rail \in CrossChain
  PROVE  /\ CallFits(Moving(t, to, then))
         /\ Moving(t, to, then).at = "move.read"
         /\ Moving(t, to, then).to = to
         /\ Moving(t, to, then).then = then
         /\ Moving(t, to, then).ok = call[t].ok
BY DEF TypeInv, CallFits, Moving, Calls, Labels, Moves

\* A view of an unfunded order, or one that has just been funded, shows none of
\* the events that come later.
LEMMA ViewTyped ==
  ASSUME NEW s \in OrderPhases, NEW late \in BOOLEAN, NEW paid \in BOOLEAN
  PROVE  buildView(s, late, paid, {}) \in CheckoutViews
<1>1. ASSUME NEW E, \A x : x \notin E
      PROVE  buildView(s, late, paid, E) \in CheckoutViews
  <2>1. buildView(s, late, paid, E) \in Views
    BY DEF buildView, Views, OrderPhases, ORDER_STATES
  <2>2. LET v == buildView(s, late, paid, E)
        IN  v.state = s /\ ~ v.shipped /\ ~ v.confirmed /\ ~ v.disputed
    BY <1>1 DEF buildView
  <2> QED BY <2>1, <2>2 DEF CheckoutViews
<1> QED BY <1>1

-----------------------------------------------------------------------------
(* What a step does to a call.                                              *)

Stepped(t) == \E c : CallFits(c) /\ Becomes(t, c) /\ Honest(t, c)

LEMMA GotoSteps ==
  ASSUME TypeInv, NEW t \in Tabs, NEW label \in Labels \ Moves, Goto(t, label),
         label \in {"rail", "rail.burned", "rail.minted", "mark", "record"}
           => call[t].rail \in CrossChain,
         label = "record" => call[t].ok,
         label = "rail.minted" => arc' > 0
  PROVE  Stepped(t)
<1>1. CallFits(call[t])
  BY DEF TypeInv
<1>2. /\ CallFits(Onto(call[t], label))
      /\ Onto(call[t], label).at = label
      /\ Onto(call[t], label).ok => call[t].ok
  BY <1>1, OntoFits
<1>3. Honest(t, Onto(call[t], label))
  BY <1>2 DEF Honest
<1> QED BY <1>2, <1>3 DEF Stepped, Goto, Becomes

LEMMA EndSteps ==
  ASSUME NEW t \in Tabs, call' = [call EXCEPT ![t] = Idle]
  PROVE  Stepped(t)
BY IdleFits DEF Stepped, Becomes, Honest

LEMMA MoveSteps ==
  ASSUME TypeInv, NEW t \in Tabs,
         NEW to \in OrderPhases \ {"created"},
         NEW then \in {"idle", "record", "fund.execute"},
         then # "idle" => to = "funding_pending",
         then = "record" => call[t].ok /\ call[t].rail \in CrossChain,
         Move(t, to, then)
  PROVE  Stepped(t)
<1>1. /\ CallFits(Moving(t, to, then))
      /\ Moving(t, to, then).at = "move.read"
      /\ Moving(t, to, then).ok = call[t].ok
  BY MovingFits
<1>2. call' = [call EXCEPT ![t] = Moving(t, to, then)]
  BY DEF Move, Moving, TypeInv, TypeOK
<1> QED BY <1>1, <1>2 DEF Stepped, Becomes, Honest

LEMMA UnrecordedSteps ==
  ASSUME TypeInv, NEW t \in Tabs, NEW label \in {"record", "sign"},
         call[t].ok, call[t].rail \in CrossChain, Unrecorded(t, label)
  PROVE  Stepped(t)
<1>1. CallFits(call[t])
  BY DEF TypeInv
<1>2. label \in Labels \ Moves /\ "mark" \in Labels \ Moves
  BY DEF Labels, Moves
<1>3. /\ CallFits(Onto(call[t], label))
      /\ Onto(call[t], label).at = label
  BY <1>1, <1>2, OntoFits
<1>4. /\ CallFits(Onto(call[t], "mark"))
      /\ Onto(call[t], "mark").at = "mark"
  BY <1>1, <1>2, OntoFits
<1>5. LET c == [Onto(call[t], "mark") EXCEPT !.ok = FALSE]
      IN  CallFits(c) /\ c.at = "mark" /\ ~ c.ok
  BY <1>4 DEF CallFits, Calls, Moves
<1> QED BY <1>3, <1>5 DEF Unrecorded, Stepped, Becomes, Honest

LEMMA ThrownSteps ==
  ASSUME TypeInv, NEW t \in Tabs, Thrown(t)
  PROVE  Stepped(t)
<1>1. CASE call[t].then = "record"
  BY <1>1, UnrecordedSteps DEF Thrown, TypeInv, CallFits
<1>2. CASE call[t].then # "record"
  BY <1>2, EndSteps DEF Thrown, End, EndSeeing
<1> QED BY <1>1, <1>2

LEMMA BeginSteps ==
  ASSUME NEW t \in Tabs, NEW rail \in PaySources,
         NEW label \in {"rail", "sign", "fund", "close"},
         label = "rail" => rail \in CrossChain,
         Begin(t, rail, label)
  PROVE  Stepped(t)
<1>1. LET c == [Idle EXCEPT !.at = label, !.rail = rail]
      IN  CallFits(c) /\ c.at = label /\ ~ c.ok
  BY DEF CallFits, Idle, Calls, Labels, OrderPhases, Moves
<1> QED BY <1>1 DEF Begin, Stepped, Becomes, Honest

\* Every step of a call leaves a call of that shape, and a tab makes one call.
LEMMA CallsStep ==
  ASSUME TypeInv, [Next]_vars
  PROVE  UNCHANGED call \/ \E t \in Tabs : Stepped(t)
<1> USE DEF record, money, screen, story
<1>1. ASSUME NEW t \in Tabs, Press(t)
      PROVE  Stepped(t)
  <2>1. CASE \E rail \in PaySources : Pay(t, rail)
    BY <2>1, BeginSteps DEF Pay, Authorize, PaySources, CrossChain
  <2>2. CASE Finish(t) \/ Close(t)
    BY <2>2, BeginSteps DEF Finish, Close, Authorize, PaySources
  <2> QED BY <1>1, <2>1, <2>2 DEF Press
<1>2. ASSUME NEW t \in Tabs, Burn(t) \/ Mint(t)
      PROVE  Stepped(t)
  <2>1. {"rail.burned", "rail.minted"} \subseteq Labels \ Moves
    BY DEF Labels, Moves
  <2>2. call[t].rail \in CrossChain
    BY <1>2 DEF Burn, Mint, At, TypeInv, CallFits
  <2>3. arc \in Nat
    BY DEF TypeInv, TypeOK
  <2> QED BY <1>2, <2>1, <2>2, <2>3, GotoSteps DEF Burn, Mint
<1>3. ASSUME NEW t \in Tabs, RailAnswers(t)
      PROVE  Stepped(t)
  <2>1. PICK e \in RailEnds[payer][call[t].rail][Stage[call[t].at]] :
          IF e.as = "nothing"
            THEN End(t)
            ELSE call' = [call EXCEPT ![t].at = "mark",
                                      ![t].ok = (e.as = "delivered")]
    BY <1>3 DEF RailAnswers
  <2>2. /\ call[t].at \in {"rail", "rail.burned", "rail.minted"}
        /\ call[t].rail \in CrossChain
        /\ Stage[call[t].at] \in Stages
        /\ Stage[call[t].at] = "minted" => At(t, "rail.minted")
    BY <1>3 DEF RailAnswers, Stage, Stages, At, TypeInv, CallFits
  <2>3. e.as = "delivered" => At(t, "rail.minted")
    BY <2>2, PayerTyped, RailEndsHonestly
  <2>4. CASE e.as = "nothing"
    BY <2>1, <2>4, EndSteps DEF End, EndSeeing
  <2>5. CASE e.as # "nothing"
    <3> DEFINE c == [call[t] EXCEPT !.at = "mark", !.ok = (e.as = "delivered")]
    <3>1. c.at = "mark" /\ (c.ok => e.as = "delivered")
      BY DEF TypeInv, TypeOK, Calls
    <3>2. CallFits(c)
      BY <2>2 DEF TypeInv, CallFits, Calls, Labels, Moves
    <3>3. Becomes(t, c)
      BY <2>1, <2>5 DEF Becomes, TypeInv, TypeOK
    <3> HIDE DEF c
    <3> QED BY <2>3, <3>1, <3>2, <3>3 DEF Stepped, Honest
  <2> QED BY <2>4, <2>5
<1>4. ASSUME NEW t \in Tabs, Mark(t) \/ RecordFunding(t) \/ Sign(t)
      PROVE  Stepped(t)
  <2>1. {"record", "sign", "fund"} \subseteq Labels \ Moves
    BY DEF Labels, Moves
  <2>2. CASE Mark(t)
    BY <2>1, <2>2, GotoSteps, MoveSteps, EndSteps
       DEF Mark, AfterMark, At, TypeInv, CallFits, OrderPhases, End, EndSeeing
  <2>3. CASE RecordFunding(t)
    BY <2>1, <2>3, GotoSteps DEF RecordFunding, Authorize
  <2>4. CASE Sign(t)
    BY <2>1, <2>4, GotoSteps, EndSteps DEF Sign, End, EndSeeing
  <2> QED BY <1>4, <2>2, <2>3, <2>4
<1>5. ASSUME NEW t \in Tabs,
             Fund(t) \/ FundExecute(t) \/ FundReread(t) \/ CheckClose(t)
      PROVE  Stepped(t)
  <2>1. {"fund.execute", "fund.reread"} \subseteq Labels \ Moves
    BY DEF Labels, Moves
  <2>2. {"funding_pending", "funded", "failed"} \subseteq OrderPhases \ {"created"}
    BY DEF OrderPhases
  <2> QED BY <1>5, <2>1, <2>2, GotoSteps, MoveSteps, EndSteps
          DEF Fund, FundExecute, FundReread, CheckClose, End, EndSeeing
<1>6. ASSUME NEW t \in Tabs, MoveRead(t) \/ MoveWrite(t)
      PROVE  Stepped(t)
  <2>1. CASE MoveRead(t)
    <3>1. CASE Thrown(t)
      BY <3>1, ThrownSteps
    <3>2. CASE call' = [call EXCEPT ![t].at = "move.write"]
      <4> DEFINE c == [call[t] EXCEPT !.at = "move.write"]
      <4>1. c.at = "move.write" /\ c.ok = call[t].ok
        BY DEF TypeInv, TypeOK, Calls
      <4>2. CallFits(c)
        BY <2>1 DEF MoveRead, At, TypeInv, CallFits, Calls, Labels, Moves
      <4>3. Becomes(t, c)
        BY <3>2 DEF Becomes, TypeInv, TypeOK
      <4> HIDE DEF c
      <4> QED BY <4>1, <4>2, <4>3 DEF Stepped, Honest
    <3> QED BY <2>1, <3>1, <3>2 DEF MoveRead
  <2>2. CASE MoveWrite(t)
    <3>1. call[t].then \in {"idle", "record", "fund.execute"}
      BY <2>2 DEF MoveWrite, At, TypeInv, CallFits, Moves
    <3>2. {"record", "fund.execute"} \subseteq Labels \ Moves
      BY DEF Labels, Moves
    <3> QED BY <2>2, <3>1, <3>2, GotoSteps, EndSteps
            DEF MoveWrite, EndSeeing, TypeInv, CallFits
  <2> QED BY <1>6, <2>1, <2>2
<1>7. ASSUME NEW t \in Tabs, Rejected(t) \/ Dies(t)
      PROVE  Stepped(t)
  BY <1>7, ThrownSteps, UnrecordedSteps, EndSteps
     DEF Rejected, Dies, At, End, EndSeeing, TypeInv, CallFits
<1>8. ASSUME NEW t \in Tabs, Board(t) \/ Reopen(t) \/ ReadFails(t)
      PROVE  UNCHANGED call
  BY <1>8 DEF Board, Ask, Show, Reopen, ReadFails
<1>9. CASE Expire \/ Arrive \/ UNCHANGED vars
  BY <1>9 DEF Expire, Arrive, vars
<1> QED BY <1>1, <1>2, <1>3, <1>4, <1>5, <1>6, <1>7, <1>8, <1>9
        DEF Next, Continue

-----------------------------------------------------------------------------
(* Types.                                                                   *)

LEMMA TypesBegin == Init => TypeInv
<1> SUFFICES ASSUME Init PROVE TypeInv
  OBVIOUS
<1>1. Now \in CheckoutViews
  BY ViewTyped DEF Init, Now, Landed, OrderPhases
<1>2. CallFits(Idle) /\ Idle \in Calls
  BY IdleFits DEF CallFits
<1>3. setting.away \in Nat /\ setting.faults \in Nat
  BY SettingsAssumption DEF Init
<1>4. /\ state \in OrderPhases /\ rows \subseteq Rows
      /\ away \in 0..setting.away /\ transit \in Nat /\ arc \in Nat
      /\ faults \in 0..setting.faults
  BY <1>3 DEF Init, OrderPhases
<1>5. /\ view \in [Tabs -> CheckoutViews]
      /\ reading \in [Tabs -> Readings]
      /\ call \in [Tabs -> Calls]
      /\ \A t \in Tabs : call[t] = Idle
  BY <1>1, <1>2 DEF Init, Readings
<1> QED BY <1>2, <1>4, <1>5 DEF Init, TypeInv, TypeOK

\* The record, and what never changes or only turns true.
RecordTyped ==
    /\ setting \in Settings
    /\ state \in OrderPhases /\ rows \subseteq Rows
    /\ expired \in BOOLEAN /\ collected \in BOOLEAN
    /\ overtaken \in BOOLEAN /\ denied \in BOOLEAN
    /\ faults \in 0..setting.faults

MoneyTyped == away \in 0..setting.away /\ transit \in Nat /\ arc \in Nat

ScreenTyped ==
    /\ view \in [Tabs -> CheckoutViews]
    /\ reading \in [Tabs -> Readings]

LEMMA SeenTyped ==
  ASSUME TypeInv, NEW t \in Tabs, NEW s \in OrderPhases, EndSeeing(t, s)
  PROVE  reading' \in [Tabs -> Readings]
BY DEF EndSeeing, TypeInv, TypeOK, Readings

LEMMA FundingRowTyped == \A rail \in CrossChain : FundingRow[rail] \in Rows
<1>1. FundingRow["unified"] = "gw-spend" /\ FundingRow["bridge"] = "bridge"
  BY DEF FundingRow
<1> QED BY <1>1 DEF CrossChain, Rows

LEMMA RecordTypesKept ==
  ASSUME TypeInv, [Next]_vars
  PROVE  RecordTyped' /\ setting' = setting
<1> USE DEF record, money, story, TypeInv, TypeOK, RecordTyped
<1>1. setting.faults \in Nat
  BY SettingsAssumption
<1>2. ASSUME NEW t \in Tabs, Press(t)
      PROVE  RecordTyped' /\ setting' = setting
  <2>1. Risk(t) \/ overtaken' = (overtaken \/ ~Alone)
    BY <1>2 DEF Press, Pay, Finish, Close
  <2>2. overtaken' \in BOOLEAN
    BY <2>1, Zenon DEF Risk
  <2> QED BY <1>2, <2>2 DEF Press, Pay, Finish, Close, Begin
<1>3. ASSUME NEW t \in Tabs, Continue(t)
      PROVE  RecordTyped' /\ setting' = setting
  <2>1. CASE MoveWrite(t)
    <3>1. call[t].to \in OrderPhases
      BY DEF Calls
    <3> QED BY <2>1, <3>1 DEF MoveWrite
  <2>2. CASE RecordFunding(t)
    <3>1. call[t].rail \in CrossChain
      BY <2>2 DEF RecordFunding, At, CallFits
    <3>2. FundingRow[call[t].rail] \in Rows
      BY <3>1, FundingRowTyped
    <3> QED BY <2>2, <3>2 DEF RecordFunding
  <2>3. CASE FundExecute(t)
    BY <2>3 DEF FundExecute
  <2> QED BY <1>3, <2>1, <2>2, <2>3
          DEF Continue, RailAnswers, Mark, Sign, Fund, FundReread, CheckClose,
              MoveRead
<1>4. ASSUME NEW t \in Tabs,
             \/ Burn(t) \/ Mint(t) \/ Board(t) \/ Reopen(t)
             \/ ReadFails(t) \/ Rejected(t) \/ Dies(t)
      PROVE  RecordTyped' /\ setting' = setting
  BY <1>1, <1>4 DEF Burn, Mint, Board, Ask, Show, Reopen, ReadFails, Rejected,
                    Dies, Fault
<1>5. CASE Expire \/ Arrive \/ UNCHANGED vars
  BY <1>5 DEF Expire, Arrive, vars, screen
<1> QED BY <1>2, <1>3, <1>4, <1>5 DEF Next

LEMMA MoneyTypesKept ==
  ASSUME TypeInv, [Next]_vars
  PROVE  MoneyTyped'
<1> USE DEF money, TypeInv, TypeOK, MoneyTyped
<1>1. setting.away \in Nat /\ setting' = setting
  BY SettingsAssumption, RecordTypesKept
<1>2. ASSUME NEW t \in Tabs, Press(t) \/ Continue(t)
      PROVE  MoneyTyped'
  <2>1. CASE FundExecute(t)
    BY <1>1, <2>1 DEF FundExecute
  <2> QED BY <1>1, <1>2, <2>1
          DEF Press, Pay, Finish, Close, Begin, Continue, RailAnswers, Mark,
              RecordFunding, Sign, Fund, FundReread, CheckClose, MoveRead,
              MoveWrite
<1>3. ASSUME NEW t \in Tabs, Burn(t) \/ Mint(t)
      PROVE  MoneyTyped'
  BY <1>1, <1>3 DEF Burn, Mint
<1>4. ASSUME NEW t \in Tabs,
             \/ Board(t) \/ Reopen(t)
             \/ ReadFails(t) \/ Rejected(t) \/ Dies(t)
      PROVE  MoneyTyped'
  BY <1>1, <1>4 DEF Board, Ask, Show, Reopen, ReadFails, Rejected, Dies
<1>5. CASE Expire \/ Arrive \/ UNCHANGED vars
  BY <1>1, <1>5 DEF Expire, Arrive, vars
<1> QED BY <1>2, <1>3, <1>4, <1>5 DEF Next

LEMMA ScreenTypesKept ==
  ASSUME TypeInv, [Next]_vars
  PROVE  ScreenTyped'
<1> USE DEF screen, TypeInv, TypeOK, ScreenTyped
<1>1. ASSUME NEW t \in Tabs, Press(t) \/ Burn(t) \/ Mint(t)
      PROVE  ScreenTyped'
  BY <1>1 DEF Press, Pay, Finish, Close, Begin, Burn, Mint
<1>2. ASSUME NEW t \in Tabs, Continue(t) \/ Rejected(t)
      PROVE  ScreenTyped'
  <2>1. view' = view
    BY <1>2 DEF Continue, RailAnswers, Mark, RecordFunding, Sign, Fund,
            FundExecute, FundReread, CheckClose, MoveRead, MoveWrite, Rejected
  <2>2. call[t].to \in OrderPhases
    BY DEF Calls
  <2>3. \/ reading' = reading
        \/ EndSeeing(t, state)
        \/ EndSeeing(t, call[t].to)
    BY <1>2 DEF Continue, RailAnswers, Mark, RecordFunding, Sign, Fund,
            FundExecute, FundReread, CheckClose, MoveRead, MoveWrite, Rejected,
            End, Thrown, Unrecorded
  <2> QED BY <2>1, <2>2, <2>3, SeenTyped
<1>3. ASSUME NEW t \in Tabs,
             Board(t) \/ Reopen(t) \/ ReadFails(t) \/ Dies(t)
      PROVE  ScreenTyped'
  <2>1. /\ Blank \in CheckoutViews
        /\ Now \in CheckoutViews
        /\ reading[t] \in OrderPhases =>
             buildView(reading[t], expired, Landed, {}) \in CheckoutViews
    BY ViewTyped DEF CheckoutViews, Now, Landed
  <2>2. state \in Readings /\ "none" \in Readings
    BY DEF Readings
  <2>3. CASE Ask(t)
    BY <2>2, <2>3 DEF Ask
  <2>4. CASE Show(t)
    BY <2>1, <2>2, <2>4 DEF Show
  <2>5. CASE Reopen(t) \/ Dies(t)
    BY <2>1, <2>2, <2>5 DEF Reopen, Dies
  <2>6. CASE ReadFails(t)
    BY <2>1, <2>2, <2>6 DEF ReadFails
  <2> QED BY <1>3, <2>3, <2>4, <2>5, <2>6 DEF Board
<1>4. CASE Expire \/ Arrive \/ UNCHANGED vars
  BY <1>4 DEF Expire, Arrive, vars
<1> QED BY <1>1, <1>2, <1>3, <1>4 DEF Next

LEMMA TypesKept ==
  ASSUME TypeInv, [Next]_vars
  PROVE  TypeInv'
<1>1. \A t \in Tabs : CallFits(call'[t])
  BY CallsStep DEF TypeInv, TypeOK, Stepped, Becomes
<1>2. call' \in [Tabs -> Calls]
  BY CallsStep DEF TypeInv, TypeOK, Stepped, Becomes, CallFits
<1>3. RecordTyped' /\ MoneyTyped' /\ ScreenTyped'
  BY RecordTypesKept, MoneyTypesKept, ScreenTypesKept
<1> QED BY <1>1, <1>2, <1>3
        DEF TypeInv, TypeOK, RecordTyped, MoneyTyped, ScreenTyped, CallFits

\* Every reachable state of a payment is typed.
THEOREM CheckoutTypesHold == Spec => []TypeOK
<1>1. Init => TypeInv
  BY TypesBegin
<1>2. TypeInv /\ [Next]_vars => TypeInv'
  BY TypesKept
<1>3. TypeInv => TypeOK
  BY DEF TypeInv
<1> QED BY <1>1, <1>2, <1>3, PTL DEF Spec

-----------------------------------------------------------------------------
(* What a current screen offers.                                            *)

LEMMA StatusOfNow ==
  ASSUME state \in OrderPhases, expired \in BOOLEAN
  PROVE  deriveStatus(Now) = IF state = "failed" THEN "failed" ELSE
                             IF state = "funded" THEN "paid"   ELSE
                             IF expired          THEN "expired" ELSE
                             IF state = "created" THEN "waiting_payment"
                                                  ELSE "processing_payment"
<1> DEFINE v == Now
<1>1. v.state = state
  BY DEF Now, buildView
<1>2. v.expired = expired
  BY DEF Now, buildView
<1>3. ~ v.disputed /\ ~ v.confirmed /\ ~ v.shipped
  <2>1. ASSUME NEW E, \A x : x \notin E
        PROVE  LET u == buildView(state, expired, Landed, E)
               IN  ~ u.disputed /\ ~ u.confirmed /\ ~ u.shipped
    BY <2>1 DEF buildView
  <2> QED BY <2>1 DEF Now
<1> HIDE DEF v
<1>4. deriveStatus(v) = IF state = "failed" THEN "failed" ELSE
                        IF state = "funded" THEN "paid"   ELSE
                        IF expired          THEN "expired" ELSE
                        IF state = "created" THEN "waiting_payment"
                                             ELSE "processing_payment"
  BY <1>1, <1>2, <1>3 DEF deriveStatus, StatusOf, Unfunded, OrderPhases
<1> QED BY <1>4 DEF v

LEMMA OffersOfNow ==
  ASSUME TypeInv
  PROVE  /\ payable(Now) \/ canFinish(Now) => state \in Unfunded
         /\ payable(Now) /\ ~ stalled(Now) => state = "created"
BY StatusOfNow
   DEF TypeInv, TypeOK, OrderPhases, payable, canFinish, stalled, Unfunded

\* No unpaid order is out of reach.
THEOREM OrdersKeepAWay == Spec => []WayForward
<1>1. TypeOK => WayForward
  <2> SUFFICES ASSUME TypeOK PROVE WayForward
    OBVIOUS
  <2>1. Now.landed = Landed
    BY DEF Now, buildView
  <2> QED BY <2>1, StatusOfNow
          DEF TypeOK, WayForward, payable, canFinish, canClose, stalled, Unfunded
<1> QED BY <1>1, CheckoutTypesHold, PTL

-----------------------------------------------------------------------------
(* A row is money.                                                          *)

OnArc == arc > 0 \/ collected

\* The inductive invariant behind LandedIsOnArc: a call that saw its transfer
\* delivered, and the row it writes, rest on USDC that is on Arc or has been
\* collected from there.
LandedInv ==
    /\ TypeInv
    /\ Landed => OnArc
    /\ \A t \in Tabs : call[t].ok \/ At(t, "rail.minted") => OnArc

\* What is on Arc leaves it into the escrow.
LEMMA OnArcStays ==
  ASSUME TypeInv, [Next]_vars, OnArc
  PROVE  OnArc'
<1> USE DEF OnArc, money, TypeInv, TypeOK
<1>1. ASSUME NEW t \in Tabs, Press(t) \/ Board(t) \/ Reopen(t)
      PROVE  OnArc'
  BY <1>1 DEF Press, Pay, Finish, Close, Begin, Board, Ask, Show, Reopen
<1>2. ASSUME NEW t \in Tabs, FundExecute(t)
      PROVE  OnArc'
  BY <1>2 DEF FundExecute
<1>3. ASSUME NEW t \in Tabs, Continue(t), ~ FundExecute(t)
      PROVE  OnArc'
  BY <1>3 DEF Continue, RailAnswers, Mark, RecordFunding, Sign, Fund,
              FundReread, CheckClose, MoveRead, MoveWrite
<1>4. ASSUME NEW t \in Tabs,
             Burn(t) \/ Mint(t) \/ ReadFails(t) \/ Rejected(t) \/ Dies(t)
      PROVE  OnArc'
  BY <1>4 DEF Burn, Mint, ReadFails, Rejected, Dies
<1>5. CASE Expire \/ Arrive \/ UNCHANGED vars
  BY <1>5 DEF Expire, Arrive, vars
<1> QED BY <1>1, <1>2, <1>3, <1>4, <1>5 DEF Next

\* A row is written by a call that saw its transfer delivered.
LEMMA RowsAreEarned ==
  ASSUME TypeInv, [Next]_vars
  PROVE  UNCHANGED rows \/ \E t \in Tabs : call[t].ok
<1> USE DEF record
<1>1. ASSUME NEW t \in Tabs, RecordFunding(t)
      PROVE  call[t].ok
  BY <1>1 DEF RecordFunding, At, TypeInv, CallFits
<1>2. ASSUME NEW t \in Tabs, Press(t) \/ Continue(t), ~ RecordFunding(t)
      PROVE  UNCHANGED rows
  BY <1>2 DEF Press, Pay, Finish, Close, Begin, Continue, RailAnswers, Mark,
              Sign, Fund, FundExecute, FundReread, CheckClose, MoveRead,
              MoveWrite
<1>3. ASSUME NEW t \in Tabs,
             \/ Burn(t) \/ Mint(t) \/ Board(t) \/ Reopen(t)
             \/ ReadFails(t) \/ Rejected(t) \/ Dies(t)
      PROVE  UNCHANGED rows
  BY <1>3 DEF Burn, Mint, Board, Ask, Show, Reopen, ReadFails, Rejected, Dies
<1>4. CASE Expire \/ Arrive \/ UNCHANGED vars
  BY <1>4 DEF Expire, Arrive, vars
<1> QED BY <1>1, <1>2, <1>3, <1>4 DEF Next

LEMMA LandedKept ==
  ASSUME LandedInv, [Next]_vars
  PROVE  LandedInv'
<1>1. TypeInv /\ TypeInv'
  BY TypesKept DEF LandedInv
<1>2. OnArc => OnArc'
  BY <1>1, OnArcStays
<1>3. Landed' => OnArc'
  BY <1>1, <1>2, RowsAreEarned DEF LandedInv, Landed
<1>4. \A t \in Tabs : call'[t].ok \/ call'[t].at = "rail.minted" => OnArc'
  BY <1>1, <1>2, CallsStep
     DEF LandedInv, Stepped, Becomes, Honest, At, OnArc, TypeInv, TypeOK
<1> QED BY <1>1, <1>3, <1>4 DEF LandedInv, At

\* A funding row that is not yet spent is money on Arc.
THEOREM RowsAreMoney == Spec => []LandedIsOnArc
<1>1. Init => LandedInv
  BY TypesBegin, IdleFits DEF Init, LandedInv, Landed, At, Idle
<1>2. LandedInv /\ [Next]_vars => LandedInv'
  BY LandedKept
<1>3. LandedInv => LandedIsOnArc
  BY DEF LandedInv, LandedIsOnArc, OnArc
<1> QED BY <1>1, <1>2, <1>3, PTL DEF Spec

-----------------------------------------------------------------------------
(* One call at a time, on screens that are current.                         *)

Orderly == ~ overtaken /\ faults = 0

\* A call that will record the collection.
Funds(c) ==
    \/ c.at = "fund.reread"
    \/ c.at \in Moves /\ c.to = "funded"

\* What a call that is alone makes up for: s is the order's state, and k says
\* whether the escrow has collected.
Accounted(c, s, k) ==
    /\ k /\ s # "funded" => Funds(c)
    /\ c.at \in {"rail", "rail.burned", "rail.minted", "mark", "record", "sign",
                 "fund"} => s \in Unfunded
    /\ c.at \in {"fund.execute", "fund.reread"} => s = "funding_pending"
    /\ c.at \in Moves =>
         /\ c.to = "funding_pending" => s = "created"
         /\ c.to = "funded" => s = "funding_pending"
         /\ c.to = "failed" => s \in Unfunded /\ ~ k

OthersIdle(t) == \A u \in Tabs : u # t => At(u, "idle")

\* The inductive invariant behind ClosedHoldsNothing.
AccountedInv ==
    /\ TypeInv
    /\ Orderly =>
         /\ \A t \in Tabs : ~ At(t, "idle") =>
              OthersIdle(t) /\ Accounted(call[t], state, collected)
         /\ Alone => Accounted(Idle, state, collected)

\* If the other calls are idle, only the one that moved matters.
LEMMA OneAccounts ==
  ASSUME TypeInv, [Next]_vars, NEW t \in Tabs, OthersIdle(t),
         \A u \in Tabs : u # t => call'[u] = call[u],
         Accounted(call'[t], state', collected')
  PROVE  AccountedInv'
<1>1. TypeInv'
  BY TypesKept
<1>2. \A u \in Tabs : u # t => call'[u].at = "idle"
  BY DEF OthersIdle, At
<1>3. call'[t].at = "idle" => Accounted(Idle, state', collected')
  BY DEF Accounted, Funds, Idle, Moves
<1> QED BY <1>1, <1>2, <1>3 DEF AccountedInv, Alone, OthersIdle, At

\* A call in flight that goes on: nothing else is going on.
LEMMA CallAccounts ==
  ASSUME AccountedInv, [Next]_vars, Orderly', overtaken' = overtaken,
         faults' = faults, NEW t \in Tabs, ~ At(t, "idle"), NEW c,
         Becomes(t, c),
         Accounted(call[t], state, collected)
           => Accounted(c, state', collected')
  PROVE  AccountedInv'
<1>1. OthersIdle(t) /\ Accounted(call[t], state, collected)
  BY DEF AccountedInv, Orderly
<1>2. call'[t] = c /\ \A u \in Tabs : u # t => call'[u] = call[u]
  BY DEF Becomes, AccountedInv, TypeInv, TypeOK
<1> QED BY <1>1, <1>2, OneAccounts DEF AccountedInv

LEMMA GotoAccounts ==
  ASSUME AccountedInv, [Next]_vars, Orderly', overtaken' = overtaken,
         faults' = faults, NEW t \in Tabs, ~ At(t, "idle"),
         NEW label \in Labels \ Moves, Goto(t, label),
         Accounted(call[t], state, collected)
           => Accounted([at |-> label], state', collected')
  PROVE  AccountedInv'
<1>1. call[t] \in Calls
  BY DEF AccountedInv, TypeInv, TypeOK
<1>2. Onto(call[t], label).at = label
  BY <1>1, OntoIs
<1>3. Accounted([at |-> label], state', collected')
        => Accounted(Onto(call[t], label), state', collected')
  BY <1>2 DEF Accounted, Funds
<1> QED BY <1>3, CallAccounts DEF Goto, Becomes

LEMMA EndAccounts ==
  ASSUME AccountedInv, [Next]_vars, Orderly', overtaken' = overtaken,
         faults' = faults, NEW t \in Tabs, ~ At(t, "idle"),
         call' = [call EXCEPT ![t] = Idle],
         Accounted(call[t], state, collected)
           => Accounted(Idle, state', collected')
  PROVE  AccountedInv'
BY CallAccounts DEF Becomes

LEMMA MoveAccounts ==
  ASSUME AccountedInv, [Next]_vars, Orderly', overtaken' = overtaken,
         faults' = faults, NEW t \in Tabs, ~ At(t, "idle"),
         NEW to \in OrderPhases \ {"created"},
         NEW then \in {"idle", "record", "fund.execute"},
         Move(t, to, then),
         Accounted(call[t], state, collected)
           => Accounted([at |-> "move.read", to |-> to], state', collected')
  PROVE  AccountedInv'
<1>1. call[t] \in Calls /\ call \in [Tabs -> Calls]
  BY DEF AccountedInv, TypeInv, TypeOK
<1>2. Moving(t, to, then).at = "move.read" /\ Moving(t, to, then).to = to
  BY <1>1 DEF Moving, Calls
<1>3. Accounted([at |-> "move.read", to |-> to], state', collected')
        => Accounted(Moving(t, to, then), state', collected')
  BY <1>2 DEF Accounted, Funds, Moves
<1>4. Becomes(t, Moving(t, to, then))
  BY <1>1 DEF Move, Moving, Becomes
<1> QED BY <1>3, <1>4, CallAccounts

\* A button pressed in order is pressed for what is so, and nothing else is
\* going on.
LEMMA PressAccounts ==
  ASSUME AccountedInv, [Next]_vars, Orderly', NEW t \in Tabs, Press(t)
  PROVE  AccountedInv'
<1> USE DEF record, money, screen, story
<1>1. UNCHANGED <<state, collected, faults>>
  BY DEF Press, Pay, Finish, Close, Begin
<1>2. ~ overtaken /\ Alone
  BY DEF Press, Pay, Finish, Close, Risk, Orderly
<1>3. TypeInv /\ Accounted(Idle, state, collected)
  BY <1>1, <1>2 DEF AccountedInv, Orderly
<1>4. ASSUME NEW rail \in PaySources,
             NEW label \in {"rail", "sign", "fund", "close"},
             Begin(t, rail, label),
             label # "close" => state \in Unfunded
      PROVE  AccountedInv'
  <2>1. /\ call'[t].at = label
        /\ \A u \in Tabs : u # t => call'[u] = call[u]
    BY <1>3, <1>4 DEF Begin, TypeInv, TypeOK, Idle
  <2>3. Accounted(call'[t], state', collected')
    BY <1>1, <1>3, <1>4, <2>1
       DEF Accounted, Funds, Idle, Moves, Unfunded
  <2> QED BY <1>2, <1>3, <2>1, <2>3, OneAccounts DEF Alone, OthersIdle
<1>5. ASSUME NEW rail \in PaySources, Pay(t, rail)
      PROVE  AccountedInv'
  <2>1. view[t] = Now
    BY <1>5 DEF Pay, Risk, Orderly
  <2>2. state \in Unfunded
    BY <1>3, <1>5, <2>1, OffersOfNow DEF Pay, PaySources
  <2> QED BY <1>4, <1>5, <2>2 DEF Pay, Authorize
<1>6. CASE Finish(t)
  <2>1. view[t] = Now
    BY <1>6 DEF Finish, Risk, Orderly
  <2>2. state \in Unfunded
    BY <1>3, <1>6, <2>1, OffersOfNow DEF Finish
  <2> QED BY <1>4, <1>6, <2>2 DEF Finish, Authorize, PaySources
<1>7. CASE Close(t)
  BY <1>4, <1>7 DEF Close, PaySources
<1> QED BY <1>5, <1>6, <1>7 DEF Press

\* The rail: it burns once, and what has burned is marked.
LEMMA RailAccounts ==
  ASSUME AccountedInv, [Next]_vars, Orderly', NEW t \in Tabs,
         Burn(t) \/ Mint(t) \/ RailAnswers(t)
  PROVE  AccountedInv'
<1> USE DEF record, money, screen, story
<1>1. /\ UNCHANGED <<setting, state, collected, overtaken, faults>>
      /\ ~ At(t, "idle")
      /\ TypeInv
  BY DEF Burn, Mint, RailAnswers, Stage, At, AccountedInv
<1>2. {"rail.burned", "rail.minted"} \subseteq Labels \ Moves
  BY DEF Labels, Moves
<1>3. CASE Burn(t)
  <2>1. Accounted(call[t], state, collected)
          => Accounted([at |-> "rail.burned"], state', collected')
    BY <1>1, <1>3 DEF Burn, At, Accounted, Funds, Moves, Unfunded
  <2> QED BY <1>1, <1>2, <1>3, <2>1, GotoAccounts DEF Burn
<1>4. CASE Mint(t)
  <2>1. Accounted(call[t], state, collected)
          => Accounted([at |-> "rail.minted"], state', collected')
    BY <1>1, <1>4 DEF Mint, At, Accounted, Funds, Moves
  <2> QED BY <1>1, <1>2, <1>4, <2>1, GotoAccounts DEF Mint
<1>5. CASE RailAnswers(t)
  <2>1. PICK e \in RailEnds[payer][call[t].rail][Stage[call[t].at]] :
          IF e.as = "nothing"
            THEN End(t)
            ELSE call' = [call EXCEPT ![t].at = "mark",
                                      ![t].ok = (e.as = "delivered")]
    BY <1>5 DEF RailAnswers
  <2>2. call[t].at \in {"rail", "rail.burned", "rail.minted"}
    BY <1>5 DEF RailAnswers, Stage
  <2>3. CASE e.as = "nothing"
    <3>1. Accounted(call[t], state, collected)
            => Accounted(Idle, state', collected')
      BY <1>1, <2>2 DEF Accounted, Funds, Moves, Idle
    <3> QED BY <1>1, <2>1, <2>3, <3>1, EndAccounts DEF End, EndSeeing
  <2>4. CASE e.as # "nothing"
    <3> DEFINE c == [call[t] EXCEPT !.at = "mark", !.ok = (e.as = "delivered")]
    <3>0. c.at = "mark"
      BY <1>1 DEF TypeInv, TypeOK, Calls
    <3>1. Becomes(t, c)
      BY <1>1, <2>1, <2>4 DEF Becomes, TypeInv, TypeOK
    <3> HIDE DEF c
    <3>2. Accounted(call[t], state, collected)
            => Accounted(c, state', collected')
      BY <1>1, <2>2, <3>0 DEF Accounted, Funds, Moves
    <3> QED BY <1>1, <3>1, <3>2, CallAccounts
  <2> QED BY <2>3, <2>4
<1> QED BY <1>3, <1>4, <1>5

\* What goes on moves the order as its call says, and moves no money but into
\* the escrow.
LEMMA ContinueAccounts ==
  ASSUME AccountedInv, [Next]_vars, Orderly', NEW t \in Tabs,
         Continue(t), ~ RailAnswers(t)
  PROVE  AccountedInv'
<1> USE DEF record, money, screen, story
<1>1. /\ ~ At(t, "idle")
      /\ TypeInv
      /\ CallFits(call[t])
      /\ state \in OrderPhases
  BY DEF Continue, Mark, RecordFunding, Sign, Fund, FundExecute, FundReread,
         CheckClose, MoveRead, MoveWrite, At, AccountedInv, TypeInv, TypeOK
<1>2. UNCHANGED <<overtaken, faults>>
  BY DEF Continue, Mark, RecordFunding, Sign, Fund, FundExecute, FundReread,
         CheckClose, MoveRead, MoveWrite
<1>3. {"record", "sign", "fund", "fund.execute", "fund.reread"}
        \subseteq Labels \ Moves
  BY DEF Labels, Moves
<1>4. {"funding_pending", "funded", "failed"} \subseteq OrderPhases \ {"created"}
  BY DEF OrderPhases
<1>5. CASE Mark(t)
  <2>1. UNCHANGED <<state, collected>>
    BY <1>5 DEF Mark
  <2>2. ASSUME state = "created"
        PROVE  AccountedInv'
    <3>1. Accounted(call[t], state, collected)
            => Accounted([at |-> "move.read", to |-> "funding_pending"],
                         state', collected')
      BY <1>1, <1>2, <1>5, <2>1, <2>2
         DEF Mark, At, Accounted, Funds, Moves
    <3>2. AfterMark(t) \in {"idle", "record"}
      BY DEF AfterMark
    <3> QED BY <1>1, <1>2, <1>4, <1>5, <2>2, <3>1, <3>2, MoveAccounts DEF Mark
  <2>3. ASSUME state # "created"
        PROVE  AccountedInv'
    <3>1. Accounted(call[t], state, collected)
            => /\ Accounted([at |-> "record"], state', collected')
               /\ Accounted(Idle, state', collected')
      BY <1>1, <1>2, <1>5, <2>1, <2>3
         DEF Mark, At, Accounted, Funds, Moves, Idle
    <3>2. Goto(t, "record") \/ End(t)
      BY <1>5, <2>3 DEF Mark
    <3> QED BY <1>1, <1>2, <1>3, <3>1, <3>2, GotoAccounts, EndAccounts
            DEF End, EndSeeing
  <2> QED BY <2>2, <2>3
<1>6. CASE RecordFunding(t) \/ Sign(t)
  <2>1. UNCHANGED <<state, collected>>
    BY <1>6 DEF RecordFunding, Sign
  <2>2. Accounted(call[t], state, collected)
          => /\ Accounted([at |-> "sign"], state', collected')
             /\ Accounted([at |-> "fund"], state', collected')
             /\ Accounted(Idle, state', collected')
    BY <1>1, <1>2, <1>6, <2>1
       DEF RecordFunding, Sign, At, Accounted, Funds, Moves, Idle
  <2>3. Goto(t, "sign") \/ Goto(t, "fund") \/ End(t)
    BY <1>6 DEF RecordFunding, Sign, Authorize
  <2> QED BY <1>1, <1>2, <1>3, <2>2, <2>3, GotoAccounts, EndAccounts
          DEF End, EndSeeing
<1>7. CASE Fund(t)
  <2>1. UNCHANGED <<state, collected>>
    BY <1>7 DEF Fund
  <2>2. ASSUME state = "created"
        PROVE  AccountedInv'
    <3>1. Accounted(call[t], state, collected)
            => Accounted([at |-> "move.read", to |-> "funding_pending"],
                         state', collected')
      BY <1>1, <1>2, <1>7, <2>1, <2>2
         DEF Fund, At, Accounted, Funds, Moves
    <3> QED BY <1>1, <1>2, <1>4, <1>7, <2>2, <3>1, MoveAccounts DEF Fund
  <2>3. ASSUME state # "created"
        PROVE  AccountedInv'
    <3>1. Accounted(call[t], state, collected)
            => Accounted([at |-> "fund.execute"], state', collected')
      BY <1>1, <1>2, <1>7, <2>1, <2>3
         DEF Fund, At, Accounted, Funds, Moves, Unfunded
    <3> QED BY <1>1, <1>2, <1>3, <1>7, <2>3, <3>1, GotoAccounts DEF Fund
  <2> QED BY <2>2, <2>3
<1>8. CASE FundExecute(t)
  <2>1. state' = state
    BY <1>8 DEF FundExecute
  <2>2. CASE Goto(t, "fund.reread")
    <3>1. Accounted(call[t], state, collected)
            => Accounted([at |-> "fund.reread"], state', collected')
      BY <1>1, <1>2, <1>8, <2>1
         DEF FundExecute, At, Accounted, Funds, Moves
    <3> QED BY <1>1, <1>2, <1>3, <2>2, <3>1, GotoAccounts
  <2>3. CASE End(t) /\ collected' = collected
    <3>1. Accounted(call[t], state, collected)
            => Accounted(Idle, state', collected')
      BY <1>1, <1>2, <1>8, <2>1, <2>3
         DEF FundExecute, At, Accounted, Funds, Moves, Idle
    <3> QED BY <1>1, <1>2, <2>3, <3>1, EndAccounts DEF End, EndSeeing
  <2> QED BY <1>8, <2>2, <2>3 DEF FundExecute
<1>9. CASE FundReread(t)
  <2>1. UNCHANGED <<state, collected>>
    BY <1>9 DEF FundReread
  <2>2. ASSUME state = "funding_pending"
        PROVE  AccountedInv'
    <3>1. Accounted(call[t], state, collected)
            => Accounted([at |-> "move.read", to |-> "funded"],
                         state', collected')
      BY <1>1, <1>2, <1>9, <2>1, <2>2
         DEF FundReread, At, Accounted, Funds, Moves
    <3> QED BY <1>1, <1>2, <1>4, <1>9, <2>2, <3>1, MoveAccounts DEF FundReread
  <2>3. ASSUME state # "funding_pending"
        PROVE  AccountedInv'
    <3>1. ~ Accounted(call[t], state, collected)
      BY <1>9, <2>3 DEF FundReread, At, Accounted
    <3> QED BY <1>1, <1>2, <3>1 DEF AccountedInv, Orderly
  <2> QED BY <2>2, <2>3
<1>10. CASE CheckClose(t)
  <2>1. UNCHANGED <<state, collected>>
    BY <1>10 DEF CheckClose
  <2>2. CASE Move(t, "failed", "idle") /\ state \in Unfunded
    <3>1. Accounted(call[t], state, collected)
            => Accounted([at |-> "move.read", to |-> "failed"],
                         state', collected')
      BY <1>1, <1>2, <1>10, <2>1, <2>2
         DEF CheckClose, At, Accounted, Funds, Moves, Unfunded
    <3> QED BY <1>1, <1>2, <1>4, <2>2, <3>1, MoveAccounts
  <2>3. CASE End(t)
    <3>1. Accounted(call[t], state, collected)
            => Accounted(Idle, state', collected')
      BY <1>1, <1>2, <1>10, <2>1
         DEF CheckClose, At, Accounted, Funds, Moves, Idle
    <3> QED BY <1>1, <1>2, <2>3, <3>1, EndAccounts DEF End, EndSeeing
  <2> QED BY <1>10, <2>2, <2>3 DEF CheckClose, mayExpire
<1>11. CASE MoveRead(t)
  <2>1. UNCHANGED <<state, collected>>
    BY <1>11 DEF MoveRead
  <2>2. Accounted(call[t], state, collected)
          => canTransition(state, call[t].to)
    <3>1. /\ {"funding_pending", "failed"} \subseteq TRANSITIONS["created"]
          /\ {"funded", "failed"} \subseteq TRANSITIONS["funding_pending"]
      BY DEF TRANSITIONS
    <3>2. call[t].to \in {"funding_pending", "funded", "failed"}
      BY <1>1, <1>11 DEF MoveRead, At, CallFits, Calls, OrderPhases, Moves
    <3> QED BY <1>11, <3>1, <3>2
            DEF MoveRead, At, Accounted, Moves, canTransition, Unfunded
  <2>3. Accounted(call[t], state, collected)
    BY <1>1, <1>2 DEF AccountedInv, Orderly
  <2> DEFINE c == [call[t] EXCEPT !.at = "move.write"]
  <2>4. c.at = "move.write" /\ c.to = call[t].to
    BY <1>1 DEF CallFits, Calls
  <2>5. Becomes(t, c)
    BY <1>1, <1>11, <2>2, <2>3 DEF MoveRead, Becomes, TypeInv, TypeOK
  <2> HIDE DEF c
  <2>6. Accounted(c, state', collected')
    BY <1>2, <1>11, <2>1, <2>3, <2>4
       DEF MoveRead, At, Accounted, Funds, Moves
  <2> QED BY <1>1, <1>2, <2>5, <2>6, CallAccounts
<1>12. CASE MoveWrite(t)
  <2>1. state' = call[t].to /\ collected' = collected
    BY <1>12 DEF MoveWrite
  <2>2. /\ At(t, "move.write")
        /\ call[t].to \in {"funding_pending", "funded", "failed"}
        /\ call[t].then \in {"idle", "record", "fund.execute"}
    BY <1>1, <1>12 DEF MoveWrite, At, CallFits, Calls, OrderPhases, Moves
  <2>3. Accounted(call[t], state, collected)
    BY <1>1, <1>2 DEF AccountedInv, Orderly
  <2>4. CASE call[t].then = "idle"
    <3>1. Accounted(Idle, state', collected')
      BY <1>1, <1>2, <2>1, <2>2, <2>3
         DEF At, Accounted, Funds, Moves, Idle, Unfunded
    <3> QED BY <1>1, <1>2, <1>12, <2>4, <3>1, EndAccounts
            DEF MoveWrite, EndSeeing
  <2>5. CASE call[t].then # "idle"
    <3>1. call[t].to = "funding_pending"
      BY <1>1, <2>5 DEF CallFits
    <3>2. Accounted([at |-> call[t].then], state', collected')
      BY <1>1, <1>2, <2>1, <2>2, <2>3, <2>5, <3>1
         DEF At, Accounted, Funds, Moves, Unfunded
    <3> QED BY <1>1, <1>2, <1>3, <1>12, <2>2, <2>5, <3>2, GotoAccounts
            DEF MoveWrite
  <2> QED BY <2>4, <2>5
<1> QED BY <1>5, <1>6, <1>7, <1>8, <1>9, <1>10, <1>11, <1>12 DEF Continue

LEMMA AccountsBegin == Init => AccountedInv
<1> SUFFICES ASSUME Init PROVE AccountedInv
  OBVIOUS
<1>1. TypeInv
  BY TypesBegin
<1>3. Accounted(Idle, state, collected)
  BY DEF Init, Accounted, Idle, Moves
<1>4. \A t \in Tabs : At(t, "idle")
  BY DEF Init, At, Idle
<1> QED BY <1>1, <1>3, <1>4 DEF AccountedInv

LEMMA AccountsKept ==
  ASSUME AccountedInv, [Next]_vars
  PROVE  AccountedInv'
<1>1. TypeInv /\ TypeInv'
  BY TypesKept DEF AccountedInv
<1>2. CASE ~ Orderly'
  BY <1>1, <1>2 DEF AccountedInv
<1>3. ASSUME NEW t \in Tabs, Orderly',
             Press(t) \/ Continue(t) \/ Burn(t) \/ Mint(t)
      PROVE  AccountedInv'
  BY <1>3, PressAccounts, RailAccounts, ContinueAccounts
<1>4. ASSUME NEW t \in Tabs, ReadFails(t) \/ Rejected(t) \/ Dies(t)
      PROVE  ~ Orderly'
  BY <1>1, <1>4, SettingsAssumption
     DEF ReadFails, Rejected, Dies, Fault, Orderly, TypeInv, TypeOK
<1>5. ASSUME UNCHANGED <<state, collected, call, overtaken, faults>>
      PROVE  AccountedInv'
  BY <1>1, <1>5 DEF AccountedInv, Orderly, OthersIdle, Alone, At
<1>6. ASSUME NEW t \in Tabs, Board(t) \/ Reopen(t)
      PROVE  AccountedInv'
  BY <1>5, <1>6 DEF Board, Ask, Show, Reopen, record, money, story
<1>7. CASE Expire \/ Arrive \/ UNCHANGED vars
  BY <1>5, <1>7 DEF Expire, Arrive, vars, record, money, story
<1> QED BY <1>2, <1>3, <1>4, <1>6, <1>7 DEF Next

LEMMA CallsAreAccounted == Spec => []AccountedInv
<1> QED BY AccountsBegin, AccountsKept, PTL DEF Spec

\* An order is accounted for by itself, or by the call that is alone.
LEMMA SomeoneAccounts ==
  ASSUME AccountedInv, Orderly
  PROVE  \E c : /\ Accounted(c, state, collected)
                /\ Funds(c) => state = "funding_pending"
<1>1. CASE Alone
  BY <1>1 DEF AccountedInv, Accounted, Funds, Idle, Moves
<1>2. CASE ~ Alone
  BY <1>2 DEF AccountedInv, Alone, Accounted, Funds, Moves
<1> QED BY <1>1, <1>2

\* An order is closed only if nothing was collected for it.
THEOREM ClosedOrdersHoldNothing == Spec => []ClosedHoldsNothing
<1>1. AccountedInv => ClosedHoldsNothing
  <2> SUFFICES ASSUME AccountedInv PROVE ClosedHoldsNothing
    OBVIOUS
  <2>1. faults \in Nat
    BY SettingsAssumption DEF AccountedInv, TypeInv, TypeOK
  <2> QED BY <2>1, SomeoneAccounts DEF ClosedHoldsNothing, Orderly, Accounted
<1> QED BY <1>1, CallsAreAccounted, PTL

-----------------------------------------------------------------------------
(* A burn is shown, however many browsers race.                             *)

LEMMA BurnedTyped ==
  ASSUME TypeInv
  PROVE  Burned \in Nat
BY SettingsAssumption DEF Burned, TypeInv, TypeOK

\* A call that will mark its burn.
Marks(c) ==
    \/ c.at \in {"rail.burned", "rail.minted", "mark"}
    \/ c.at \in Moves /\ c.to = "funding_pending"

Unmarked == state = "created" /\ Burned > 0 /\ ~denied /\ faults = 0

\* The inductive invariant behind BurnIsShown: an order that does not show a
\* burn yet has a call that is about to mark it.
ShownInv == TypeInv /\ (Unmarked => \E t \in Tabs : Marks(call[t]))

\* No step takes an order back to "created", and nothing is denied or goes
\* wrong twice: an order that is unmarked after a step was so before it, or has
\* just burned.
LEMMA StaysMarked ==
  ASSUME TypeInv, [Next]_vars, Unmarked'
  PROVE  /\ state = "created" /\ ~denied /\ faults = 0 /\ faults' = 0
         /\ Unmarked \/ \E t \in Tabs : Burn(t)
<1> USE DEF record, money, screen, story
<1>1. faults \in Nat
  BY SettingsAssumption DEF TypeInv, TypeOK
<1>2. ASSUME NEW t \in Tabs, Press(t)
      PROVE  UNCHANGED <<setting, state, away, denied, faults>>
  BY <1>2 DEF Press, Pay, Finish, Close, Begin
<1>3. ASSUME NEW t \in Tabs, Continue(t)
      PROVE  /\ state' = state \/ (At(t, "move.write") /\ state' = call[t].to)
             /\ denied => denied'
             /\ UNCHANGED <<setting, away, faults>>
  <2>1. CASE RailAnswers(t)
    BY <2>1, Zenon DEF RailAnswers
  <2> QED BY <1>3, <2>1
          DEF Continue, Mark, RecordFunding, Sign, Fund, FundExecute,
              FundReread, CheckClose, MoveRead, MoveWrite
<1>4. ASSUME NEW t \in Tabs, At(t, "move.write")
      PROVE  call[t].to # "created"
  BY <1>4 DEF At, TypeInv, CallFits, Moves
<1>5. ASSUME NEW t \in Tabs, Burn(t) \/ Mint(t)
      PROVE  UNCHANGED <<setting, state, denied, faults>> /\ (Burn(t) \/ away' = away)
  BY <1>5 DEF Burn, Mint
<1>6. ASSUME NEW t \in Tabs, Board(t) \/ Reopen(t)
      PROVE  UNCHANGED <<setting, state, away, denied, faults>>
  BY <1>6 DEF Board, Ask, Show, Reopen
<1>7. ASSUME NEW t \in Tabs, ReadFails(t) \/ Rejected(t) \/ Dies(t)
      PROVE  faults' > 0
  BY <1>1, <1>7 DEF ReadFails, Rejected, Dies, Fault
<1>8. CASE Expire \/ Arrive \/ UNCHANGED vars
  BY <1>8 DEF Expire, Arrive, vars, Unmarked, Burned
<1> QED BY <1>1, <1>2, <1>3, <1>4, <1>5, <1>6, <1>7, <1>8
        DEF Next, Unmarked, Burned

\* A call that will mark a burn goes on to mark it, or the order is marked.
LEMMA MarksOn ==
  ASSUME TypeInv, [Next]_vars, Unmarked', state = "created", NEW u \in Tabs,
         Marks(call[u])
  PROVE  Marks(call'[u])
<1> USE DEF record, money, screen, story
<1>1. /\ call \in [Tabs -> Calls] /\ CallFits(call[u])
      /\ faults \in Nat
      /\ ~ At(u, "idle") /\ ~ At(u, "rail")
  BY SettingsAssumption DEF TypeInv, TypeOK, Marks, Moves, At
<1>2. CASE call'[u] = call[u]
  BY <1>2
<1>3. CASE Mint(u)
  <2>1. "rail.minted" \in Labels
    BY DEF Labels
  <2> QED BY <1>1, <1>3, <2>1, OntoIs DEF Mint, Goto, Marks
<1>4. CASE RailAnswers(u)
  <2>1. PICK e \in RailEnds[payer][call[u].rail][Stage[call[u].at]] :
          /\ denied' = (denied \/ e.denied)
          /\ IF e.as = "nothing"
               THEN End(u)
               ELSE call' = [call EXCEPT ![u].at = "mark",
                                         ![u].ok = (e.as = "delivered")]
    BY <1>4 DEF RailAnswers
  <2>2. /\ call[u].at \in {"rail.burned", "rail.minted"}
        /\ call[u].rail \in CrossChain
        /\ Stage[call[u].at] \in Stages \ {"none"}
    BY <1>1, <1>4 DEF RailAnswers, Stage, Stages, At, CallFits
  <2>3. e.as # "nothing"
    <3>1. ~ denied'
      BY DEF Unmarked
    <3>2. e.denied \in BOOLEAN /\ (e.as = "nothing" => e.denied)
      BY <2>2, PayerTyped, RailEndsHonestly
    <3> QED BY <2>1, <3>1, <3>2, Zenon
  <2>4. call'[u].at = "mark"
    BY <1>1, <2>1, <2>3 DEF Calls
  <2> QED BY <2>4 DEF Marks
<1>5. CASE Mark(u)
  <2>1. Move(u, "funding_pending", AfterMark(u))
    BY <1>5 DEF Mark
  <2>2. call'[u].at = "move.read" /\ call'[u].to = "funding_pending"
    BY <1>1, <2>1 DEF Move, Calls
  <2> QED BY <2>2 DEF Marks, Moves
<1>6. CASE MoveRead(u)
  <2>1. canTransition(state, call[u].to)
    BY <1>6 DEF MoveRead, At, Marks, canTransition, TRANSITIONS
  <2>2. call'[u].at = "move.write" /\ call'[u].to = call[u].to
    BY <1>1, <1>6, <2>1 DEF MoveRead, Calls
  <2> QED BY <1>6, <2>2 DEF MoveRead, At, Marks, Moves
<1>7. ~ MoveWrite(u)
  BY DEF MoveWrite, At, Marks, Unmarked
<1>8. ASSUME NEW t \in Tabs, ReadFails(t) \/ Rejected(t) \/ Dies(t)
      PROVE  FALSE
  BY <1>1, <1>8 DEF ReadFails, Rejected, Dies, Fault, Unmarked
<1>9. ASSUME NEW t \in Tabs, t # u,
             Press(t) \/ Continue(t) \/ Burn(t) \/ Mint(t)
      PROVE  call'[u] = call[u]
  BY <1>1, <1>9
     DEF Press, Pay, Finish, Close, Begin, Continue, RailAnswers, Mark,
         RecordFunding, Sign, Fund, FundExecute, FundReread, CheckClose,
         MoveRead, MoveWrite, Burn, Mint, Goto, Move, End, EndSeeing, Thrown,
         Unrecorded
<1>10. ~ Press(u) /\ ~ Burn(u)
  BY <1>1 DEF Press, Pay, Finish, Close, Begin, Burn
<1>11. Continue(u) => RailAnswers(u) \/ Mark(u) \/ MoveRead(u) \/ MoveWrite(u)
  BY DEF Continue, RecordFunding, Sign, Fund, FundExecute, FundReread,
         CheckClose, At, Marks, Moves
<1>12. ASSUME NEW t \in Tabs, Board(t) \/ Reopen(t)
       PROVE  call' = call
  BY <1>12 DEF Board, Ask, Show, Reopen
<1>13. CASE Expire \/ Arrive \/ UNCHANGED vars
  BY <1>2, <1>13 DEF Expire, Arrive, vars
<1> QED BY <1>2, <1>3, <1>4, <1>5, <1>6, <1>7, <1>8, <1>9, <1>10, <1>11,
           <1>12, <1>13 DEF Next

LEMMA ShownKept ==
  ASSUME ShownInv, [Next]_vars
  PROVE  ShownInv'
<1>1. TypeInv /\ TypeInv'
  BY TypesKept DEF ShownInv
<1>2. SUFFICES ASSUME Unmarked' PROVE \E t \in Tabs : Marks(call'[t])
  BY <1>1 DEF ShownInv, Marks
<1>3. ASSUME NEW t \in Tabs, Burn(t)
      PROVE  Marks(call'[t])
  <2>1. "rail.burned" \in Labels /\ call \in [Tabs -> Calls]
    BY <1>1 DEF Labels, TypeInv, TypeOK
  <2> QED BY <1>3, <2>1, OntoIs DEF Burn, Goto, Marks
<1>4. CASE Unmarked
  <2>1. PICK u \in Tabs : Marks(call[u])
    BY <1>4 DEF ShownInv
  <2>2. Marks(call'[u])
    BY <1>1, <1>2, <2>1, StaysMarked, MarksOn
  <2> QED BY <2>2
<1> QED BY <1>1, <1>2, <1>3, <1>4, StaysMarked

\* A payer is asked for a second amount only behind a warning, unless the kit
\* denied the burn: for any settings without faults, and any races.
THEOREM BurnsAreShown == Spec => []BurnIsShown
<1>1. Init => ShownInv
  <2>1. Init => TypeInv
    BY TypesBegin
  <2>2. Init => Burned = 0
    BY <2>1, SettingsAssumption DEF Init, Burned, TypeInv, TypeOK
  <2> QED BY <2>1, <2>2 DEF ShownInv, Unmarked
<1>2. ShownInv /\ [Next]_vars => ShownInv'
  BY ShownKept
<1>3. ShownInv => BurnIsShown
  <2> SUFFICES ASSUME ShownInv, Burned > 0, Alone, payable(Now),
                      ~ stalled(Now), ~ denied, ~ (faults > 0)
               PROVE  FALSE
    BY DEF BurnIsShown
  <2>1. TypeInv /\ faults = 0
    BY SettingsAssumption DEF ShownInv, TypeInv, TypeOK
  <2>2. Unmarked
    BY <2>1, OffersOfNow DEF Unmarked
  <2>3. PICK t \in Tabs : Marks(call[t])
    BY <2>2 DEF ShownInv
  <2> QED BY <2>3 DEF Alone, At, Marks, Moves
<1> QED BY <1>1, <1>2, <1>3, PTL DEF Spec
=============================================================================
