------------------------- MODULE WalletRails_Proofs -------------------------
(***************************************************************************)
(* What WalletRailsProperties states, for any chains, balances, amounts and *)
(* answers of the payer.                                                    *)
(*                                                                         *)
(* A call that is alone with the wallet never has it on the wrong chain: a  *)
(* request is forwarded only from "forward", and a call is there only after *)
(* it saw, or was told, that the wallet is on the request's chain; nothing  *)
(* but this call or the payer moves the wallet.  The signature has no such  *)
(* look of its own: it rests on the mint having left the wallet on Arc, or  *)
(* on the chain the button was rendered with.                               *)
(*                                                                         *)
(* A plan is right: planAllocations is a fold over the chains, and what     *)
(* holds after each of them holds at its end.  As long as something is left *)
(* every chain gave all it can, so a plan that is short took all there is;  *)
(* and all chains but the last were not enough, so no allocation does with  *)
(* two intents fewer, the chains being taken from the fullest down.         *)
(*                                                                         *)
(* The intents are accepted and a top-up suffices: between the plan and the *)
(* spend, and between the deposit and its spend, balances only grow.        *)
(***************************************************************************)
EXTENDS WalletRailsProperties, TLAPS, WellFoundedInduction, FiniteSetTheorems

\* Where the wallet and the calls may be at all.
WalletTyped ==
    /\ network \in Networks
    /\ call \in [Actors -> Calls]
    /\ call["pay"].leg # "credit"

\* Where a call is when it is alone with the wallet.
Placed ==
    ~ overlapped =>
        /\ ~ misplaced
        /\ \A w \in Actors : Busy(w) => ~ Busy(Other(w))
        /\ \A w \in Actors : At(w, "forward") => OnPin(w)
        /\ At("pay", "sign") => network = Arc
        /\ At("pay", "refresh") => network = Arc
        /\ At("pay", "auth") => network \in {Arc, call["pay"].seen}

WalletInv == WalletTyped /\ Placed

-----------------------------------------------------------------------------

LEMMA OtherActor ==
  Other("pay") = "deposit" /\ Other("deposit") = "pay"
BY DEF Other, Actors

LEMMA IdleTyped == Idle \in Calls
<1>1. (CHOOSE c \in Chains : TRUE) \in Chains
  BY RailsAssumption
<1> QED BY <1>1 DEF Idle, Calls, Labels, PaySources, Legs, Networks

LEMMA PinTyped ==
  ASSUME WalletTyped, NEW w \in Actors
  PROVE  pinOf(w) \in Networks
BY DEF WalletTyped, pinOf, Calls, Networks

-----------------------------------------------------------------------------
(* Types.                                                                  *)

\* What an action does to one call, and where it leaves the wallet.
Becomes(w, c) == call' = [call EXCEPT ![w] = c]

LEMMA BecomesTyped ==
  ASSUME WalletTyped, NEW w \in Actors, NEW c \in Calls, Becomes(w, c),
         w = "pay" => c.leg # "credit", network' \in Networks
  PROVE  /\ WalletTyped'
         /\ call'[w] = c
         /\ \A v \in Actors : v # w => call'[v] = call[v]
BY DEF WalletTyped, Becomes, Actors

\* A call that only goes on to another label.
LEMMA GotoIs ==
  ASSUME WalletTyped, NEW w \in Actors, NEW label \in Labels, Goto(w, label)
  PROVE  /\ [call[w] EXCEPT !.at = label] \in Calls
         /\ Becomes(w, [call[w] EXCEPT !.at = label])
         /\ w = "pay" => [call[w] EXCEPT !.at = label].leg # "credit"
         /\ [call[w] EXCEPT !.at = label].at = label
         /\ [call[w] EXCEPT !.at = label].leg = call[w].leg
         /\ [call[w] EXCEPT !.at = label].from = call[w].from
         /\ [call[w] EXCEPT !.at = label].seen = call[w].seen
BY DEF WalletTyped, Goto, Becomes, Calls, Actors

\* A call that goes on to another request.
Further(w, label, leg) == [call[w] EXCEPT !.at = label, !.leg = leg]

LEMMA OnwardIs ==
  ASSUME WalletTyped, NEW w \in Actors, NEW label \in Labels, NEW leg \in Legs,
         Onward(w, label, leg)
  PROVE  /\ Further(w, label, leg) \in Calls
         /\ Becomes(w, Further(w, label, leg))
         /\ Further(w, label, leg).at = label
         /\ Further(w, label, leg).leg = leg
BY DEF WalletTyped, Onward, Becomes, Calls, Actors, Further

-----------------------------------------------------------------------------
(* Places.                                                                 *)

\* Where a call that is alone may be, given where the wallet is.
Fits(w, c, n) ==
    /\ c.at = "forward" => n = IF c.leg = "mint" THEN Arc ELSE c.from
    /\ w = "pay" /\ c.at \in {"sign", "refresh"} => n = Arc
    /\ w = "pay" /\ c.at = "auth" => n \in {Arc, c.seen}

\* If the other call is idle, only the one that moved matters.
LEMMA OneMoves ==
  ASSUME WalletInv, NEW w \in Actors, NEW c \in Calls, Becomes(w, c),
         w = "pay" => c.leg # "credit", network' \in Networks,
         ~ overlapped' => ~ misplaced' /\ ~ Busy(Other(w)) /\ Fits(w, c, network')
  PROVE  WalletInv'
<1>1. /\ WalletTyped' /\ call'[w] = c
      /\ \A v \in Actors : v # w => call'[v] = call[v]
  BY BecomesTyped DEF WalletInv
<1>2. Placed'
  <2> SUFFICES ASSUME ~ overlapped' PROVE Placed!2'
    BY DEF Placed
  <2>1. Other(w) \in Actors \ {w} /\ Actors = {w, Other(w)}
    BY OtherActor DEF Actors
  <2>2. call'[Other(w)].at = "idle"
    BY <1>1, <2>1 DEF Busy, At
  <2> QED BY <1>1, <2>1, <2>2, OtherActor
          DEF Busy, At, Fits, OnPin, pinOf, Actors
<1> QED BY <1>1, <1>2 DEF WalletInv

\* A call in flight moves, and the wallet is where that call has it.
LEMMA CallMoves ==
  ASSUME WalletInv, NEW w \in Actors, Busy(w), NEW c \in Calls, Becomes(w, c),
         w = "pay" => c.leg # "credit", network' \in Networks,
         UNCHANGED ghosts, ~ overlapped => Fits(w, c, network')
  PROVE  WalletInv'
<1>1. ~ overlapped => ~ misplaced /\ ~ Busy(Other(w))
  BY DEF WalletInv, Placed
<1> QED BY <1>1, OneMoves DEF ghosts

\* A call ends; only a misplaced request says more than that.
LEMMA CallEnds ==
  ASSUME WalletInv, NEW w \in Actors, Busy(w), End(w), network' = network,
         overlapped' = overlapped, ~ overlapped => misplaced' = misplaced
  PROVE  WalletInv'
<1>1. Idle \in Calls /\ Idle.at = "idle" /\ Idle.leg = "none" /\ Becomes(w, Idle)
  BY IdleTyped DEF Idle, End, Becomes
<1>2. ~ overlapped => ~ misplaced /\ ~ Busy(Other(w))
  BY DEF WalletInv, Placed
<1> QED BY <1>1, <1>2, OneMoves DEF Fits, WalletInv, WalletTyped

\* A button is pressed.
LEMMA CallBegins ==
  ASSUME WalletInv, NEW w \in Actors, NEW c \in Calls, Begin(w, c),
         w = "pay" => c.leg # "credit", network' = network,
         Fits(w, c, network)
  PROVE  WalletInv'
<1>1. ~ overlapped' => ~ misplaced' /\ ~ Busy(Other(w))
  BY DEF Begin, WalletInv, Placed
<1> QED BY <1>1, OneMoves DEF Begin, Becomes, WalletInv, WalletTyped

\* A prompt that is declined ends the call.
LEMMA DeclinedKeeps ==
  ASSUME WalletInv, NEW w \in Actors, Busy(w), Declined(w)
  PROVE  WalletInv'
BY CallEnds DEF Declined, Fail, wallet, ghosts

-----------------------------------------------------------------------------
(* ensureChain: after it the wallet is on the request's chain.             *)

\* A question or a prompt is answered and the call is where `label` says.
LEMMA PinningKeeps ==
  ASSUME WalletInv, NEW w \in Actors, Busy(w), NEW label \in Labels,
         Pinning(w, label), network' \in Networks,
         ~ overlapped /\ label = "forward" => network' = pinOf(w),
         label \notin {"auth", "sign", "refresh"}
  PROVE  WalletInv'
<1> DEFINE c == [call[w] EXCEPT !.at = label]
<1>1. c \in Calls /\ Becomes(w, c) /\ (w = "pay" => c.leg # "credit")
  BY GotoIs DEF Pinning, WalletInv
<1>2. c.at = label /\ c.leg = call[w].leg /\ c.from = call[w].from
  BY GotoIs DEF Pinning, WalletInv
<1>3. ~ overlapped => Fits(w, c, network')
  BY <1>2 DEF Fits, pinOf
<1> HIDE DEF c
<1> QED BY <1>1, <1>3, CallMoves DEF Pinning

LEMMA EnsureChainKeeps ==
  ASSUME WalletInv, NEW w \in Actors,
         Check(w) \/ Switch(w) \/ Add(w) \/ Recheck(w) \/ Reswitch(w)
  PROVE  WalletInv'
<1> USE DEF At, Labels
<1>0. network \in Networks /\ pinOf(w) \in Networks
  BY PinTyped DEF WalletInv, WalletTyped
<1>1. CASE Check(w)
  <2>1. Busy(w) /\ network' = network
    BY <1>1 DEF Check, Busy, wallet
  <2>2. CASE OnPin(w)
    <3>1. Pinning(w, "forward")
      BY <1>1, <2>2 DEF Check
    <3> QED BY <1>0, <2>1, <2>2, <3>1, PinningKeeps DEF OnPin
  <2>3. CASE ~ OnPin(w)
    <3>1. Pinning(w, "switch")
      BY <1>1, <2>3 DEF Check
    <3> QED BY <1>0, <2>1, <3>1, PinningKeeps
  <2> QED BY <2>2, <2>3
<1>2. CASE Switch(w)
  <2>1. Busy(w)
    BY <1>2 DEF Switch, Busy
  <2>2. CASE Move(pinOf(w)) /\ Pinning(w, "forward")
    BY <1>0, <2>1, <2>2, PinningKeeps DEF Move
  <2>3. CASE UNCHANGED wallet /\ Pinning(w, "add")
    BY <1>0, <2>1, <2>3, PinningKeeps DEF wallet
  <2>4. CASE Declined(w)
    BY <2>1, <2>4, DeclinedKeeps
  <2> QED BY <1>2, <2>2, <2>3, <2>4 DEF Switch
<1>3. CASE Add(w)
  <2>1. Busy(w)
    BY <1>3 DEF Add, Busy
  <2>2. CASE network' \in {network, pinOf(w)} /\ Added(w)
    BY <1>0, <2>1, <2>2, PinningKeeps DEF Added
  <2>3. CASE Declined(w)
    BY <2>1, <2>3, DeclinedKeeps
  <2> QED BY <1>3, <2>2, <2>3 DEF Add
<1>4. CASE Recheck(w)
  <2>1. Busy(w) /\ network' = network
    BY <1>4 DEF Recheck, Busy, wallet
  <2>2. CASE OnPin(w)
    <3>1. Pinning(w, "forward")
      BY <1>4, <2>2 DEF Recheck
    <3> QED BY <1>0, <2>1, <2>2, <3>1, PinningKeeps DEF OnPin
  <2>3. CASE ~ OnPin(w)
    <3>1. Pinning(w, "reswitch")
      BY <1>4, <2>3 DEF Recheck
    <3> QED BY <1>0, <2>1, <3>1, PinningKeeps
  <2> QED BY <2>2, <2>3
<1>5. CASE Reswitch(w)
  <2>1. Busy(w)
    BY <1>5 DEF Reswitch, Busy
  <2>2. CASE Move(pinOf(w)) /\ Pinning(w, "forward")
    BY <1>0, <2>1, <2>2, PinningKeeps DEF Move
  <2>3. CASE Declined(w)
    BY <2>1, <2>3, DeclinedKeeps
  <2> QED BY <1>5, <2>2, <2>3 DEF Reswitch
<1> QED BY <1>1, <1>2, <1>3, <1>4, <1>5

-----------------------------------------------------------------------------
(* The requests, the signature and the buttons.                            *)

\* A request that was forwarded and answered: the next one starts over at
\* "check", and after the mint the wallet is on Arc.
LEMMA OnwardKeeps ==
  ASSUME WalletInv, NEW w \in Actors, Busy(w), NEW label \in {"check", "refresh"},
         NEW leg \in Legs, Onward(w, label, leg), UNCHANGED <<wallet, ghosts>>,
         w = "pay" => leg # "credit",
         w = "pay" /\ label = "refresh" => (~ overlapped => network = Arc)
  PROVE  WalletInv'
<1> DEFINE c == Further(w, label, leg)
<1>1. c \in Calls /\ Becomes(w, c) /\ c.at = label /\ c.leg = leg
  <2>1. WalletTyped /\ label \in Labels
    BY DEF WalletInv, Labels
  <2> QED BY <2>1, OnwardIs
<1>2. network' = network /\ network \in Networks
  BY DEF wallet, WalletInv, WalletTyped
<1>3. ~ overlapped => Fits(w, c, network')
  BY <1>1, <1>2 DEF Fits
<1> HIDE DEF c
<1> QED BY <1>1, <1>2, <1>3, CallMoves

LEMMA ForwardKeeps ==
  ASSUME WalletInv, NEW w \in Actors, Forward(w)
  PROVE  WalletInv'
<1>0. Busy(w)
  BY DEF Forward, At, Busy
<1>1. CASE /\ OnPin(w)
           /\ Approve(w) \/ Credit(w) \/ Burn(w) \/ Revert(w)
                \/ Intents(w) \/ Mint(w)
           /\ UNCHANGED <<wallet, shown, short, ghosts>>
  <2>0. UNCHANGED <<wallet, ghosts>>
    BY <1>1
  <2>1. CASE Approve(w)
    <3>1. CASE w = "pay"
      <4>1. Onward(w, "check", "burn")
        BY <2>1, <3>1 DEF Approve
      <4> QED BY <1>0, <2>0, <4>1, OnwardKeeps DEF Legs
    <3>2. CASE w # "pay"
      <4>1. Onward(w, "check", "credit")
        BY <2>1, <3>2 DEF Approve
      <4> QED BY <1>0, <2>0, <3>2, <4>1, OnwardKeeps DEF Legs
    <3> QED BY <3>1, <3>2
  <2>2. CASE Credit(w)
    <3>1. w # "pay"
      BY <2>2 DEF Credit, WalletInv, WalletTyped
    <3>2. Onward(w, "refresh", "none")
      BY <2>2 DEF Credit
    <3> QED BY <1>0, <2>0, <3>1, <3>2, OnwardKeeps DEF Legs
  <2>3. CASE Burn(w)
    <3>1. Onward(w, "check", "mint")
      BY <2>3 DEF Burn
    <3> QED BY <1>0, <2>0, <3>1, OnwardKeeps DEF Legs
  <2>4. CASE Revert(w)
    <3>1. End(w)
      BY <2>4 DEF Revert, Fail
    <3> QED BY <1>0, <2>0, <3>1, CallEnds DEF wallet, ghosts
  <2>5. CASE Intents(w)
    <3>1. Onward(w, "check", "mint") \/ End(w)
      BY <2>5 DEF Intents, Fail
    <3>2. CASE Onward(w, "check", "mint")
      BY <1>0, <2>0, <3>2, OnwardKeeps DEF Legs
    <3>3. CASE End(w)
      BY <1>0, <2>0, <3>3, CallEnds DEF wallet, ghosts
    <3> QED BY <3>1, <3>2, <3>3
  <2>6. CASE Mint(w)
    <3>1. Onward(w, "refresh", "none") /\ network = Arc
      BY <1>1, <2>6 DEF Mint, OnPin, pinOf
    <3> QED BY <1>0, <2>0, <3>1, OnwardKeeps DEF Legs
  <2> QED BY <1>1, <2>1, <2>2, <2>3, <2>4, <2>5, <2>6
<1>2. CASE Declined(w)
  BY <1>0, <1>2, DeclinedKeeps
<1>3. CASE /\ ~ OnPin(w)
           /\ misplaced' = TRUE
           /\ Fail(w)
           /\ UNCHANGED <<money, wallet, shown, short, overlapped>>
  <2>1. overlapped
    BY <1>3 DEF Forward, WalletInv, Placed
  <2> QED BY <1>0, <1>3, <2>1, CallEnds DEF Fail, wallet
<1> QED BY <1>1, <1>2, <1>3 DEF Forward

LEMMA RefreshKeeps ==
  ASSUME WalletInv, NEW w \in Actors, Refresh(w)
  PROVE  WalletInv'
<1>0. /\ Busy(w) /\ network' = network /\ UNCHANGED ghosts
      /\ network \in Networks
  BY DEF Refresh, At, Busy, wallet, WalletInv, WalletTyped
<1>1. CASE w = "pay"
  <2> DEFINE c == [call[w] EXCEPT !.at = "auth"]
  <2>1. c \in Calls /\ Becomes(w, c) /\ c.leg # "credit" /\ c.at = "auth"
    BY <1>1, GotoIs DEF Refresh, WalletInv, Labels
  <2>2. ~ overlapped => network = Arc
    BY <1>1 DEF Refresh, WalletInv, Placed
  <2>3. ~ overlapped => Fits(w, c, network')
    BY <1>0, <2>1, <2>2 DEF Fits
  <2> HIDE DEF c
  <2> QED BY <1>0, <2>1, <2>3, CallMoves
<1>2. CASE w # "pay"
  BY <1>0, <1>2, CallEnds DEF Refresh, ghosts
<1> QED BY <1>1, <1>2

LEMMA QuoteKeeps ==
  ASSUME WalletInv, Quote
  PROVE  WalletInv'
<1>0. /\ "pay" \in Actors /\ Busy("pay") /\ network' = network
      /\ UNCHANGED <<wallet, ghosts>>
  BY DEF Quote, At, Busy, wallet, Actors
<1>1. CASE End("pay")
  BY <1>0, <1>1, CallEnds DEF ghosts
<1>2. CASE Onward("pay", "check", "intents")
  BY <1>0, <1>2, OnwardKeeps DEF Legs
<1> QED BY <1>1, <1>2 DEF Quote, Fail, Onward

LEMMA AuthKeeps ==
  ASSUME WalletInv, Auth
  PROVE  WalletInv'
<1>0. "pay" \in Actors /\ Busy("pay") /\ network \in Networks /\ Arc \in Networks
  BY DEF Auth, At, Busy, Actors, WalletInv, WalletTyped, Networks
<1> DEFINE c == [call["pay"] EXCEPT !.at = "sign"]
<1>1. ASSUME Pinning("pay", "sign"), network' \in Networks,
             ~ overlapped => network' = Arc
      PROVE  WalletInv'
  <2>1. c \in Calls /\ Becomes("pay", c) /\ c.leg # "credit" /\ c.at = "sign"
    BY <1>0, <1>1, GotoIs DEF Pinning, WalletInv, Labels
  <2>2. ~ overlapped => Fits("pay", c, network')
    BY <1>1, <2>1 DEF Fits
  <2> HIDE DEF c
  <2> QED BY <1>0, <1>1, <2>1, <2>2, CallMoves DEF Pinning
<1>2. CASE call["pay"].seen = Arc /\ Pinning("pay", "sign") /\ UNCHANGED wallet
  <2>1. network' = network /\ (~ overlapped => network = Arc)
    BY <1>2 DEF Auth, wallet, WalletInv, Placed
  <2> QED BY <1>0, <1>1, <1>2, <2>1
<1>3. CASE network' = Arc /\ Pinning("pay", "sign")
  BY <1>0, <1>1, <1>3
<1>4. CASE Declined("pay")
  BY <1>0, <1>4, DeclinedKeeps
<1> QED BY <1>2, <1>3, <1>4 DEF Auth

LEMMA SignKeeps ==
  ASSUME WalletInv, Sign
  PROVE  WalletInv'
<1>0. "pay" \in Actors /\ Busy("pay") /\ network' = network /\ End("pay")
  BY DEF Sign, Fail, At, Busy, wallet, Actors
<1>1. CASE UNCHANGED ghosts
  BY <1>0, <1>1, CallEnds DEF ghosts
<1>2. CASE network # Arc /\ UNCHANGED overlapped
  <2>1. overlapped
    BY <1>2 DEF Sign, WalletInv, Placed
  <2> QED BY <1>0, <1>2, <2>1, CallEnds
<1> QED BY <1>1, <1>2 DEF Sign

LEMMA PressKeeps ==
  ASSUME WalletInv, PressPay \/ PressFinish \/ PressDeposit
  PROVE  WalletInv'
<1>0. /\ "pay" \in Actors /\ "deposit" \in Actors
      /\ network \in Networks /\ Enabled \subseteq Chains
  BY RailsAssumption DEF Actors, WalletInv, WalletTyped
<1>1. CASE PressPay
  <2>1. PICK rail \in PaySources, from \in Enabled : PressPay!(rail, from)
    BY <1>1 DEF PressPay
  <2> DEFINE c == [rail |-> rail, from |-> from, seen |-> network,
                   leg |-> IF rail = "bridge" THEN "approve" ELSE "none",
                   at |-> CASE rail = "arc"     -> "auth"
                            [] rail = "unified" -> "quote"
                            [] rail = "bridge"  -> "check"]
  <2>2. Begin("pay", c) /\ network' = network
    BY <2>1 DEF wallet
  <2>3. c.at \in {"auth", "quote", "check"} /\ c.leg \in {"approve", "none"}
    BY DEF PaySources
  <2>4. c \in Calls
    BY <1>0, <2>3 DEF Calls, Labels, Legs
  <2>5. Fits("pay", c, network)
    BY <2>3 DEF Fits
  <2> HIDE DEF c
  <2> QED BY <1>0, <2>2, <2>3, <2>4, <2>5, CallBegins
<1>2. CASE PressFinish
  <2> DEFINE c == [Idle EXCEPT !.at = "auth", !.seen = network]
  <2>1. Begin("pay", c) /\ network' = network
    BY <1>2 DEF PressFinish, wallet
  <2>2. c \in Calls /\ c.leg = "none" /\ c.at = "auth" /\ c.seen = network
    BY <1>0, IdleTyped DEF Idle, Calls, Labels
  <2>3. Fits("pay", c, network)
    BY <2>2 DEF Fits
  <2> HIDE DEF c
  <2> QED BY <1>0, <2>1, <2>2, <2>3, CallBegins
<1>3. CASE PressDeposit
  <2>1. PICK from \in Enabled : PressDeposit!(from)
    BY <1>3 DEF PressDeposit
  <2> DEFINE c == [rail |-> "unified", from |-> from, at |-> "check",
                   leg |-> "approve", seen |-> network]
  <2>2. Begin("deposit", c) /\ network' = network
    BY <2>1 DEF wallet
  <2>3. c \in Calls /\ Fits("deposit", c, network)
    BY <1>0 DEF Calls, Labels, Legs, PaySources, Fits
  <2> HIDE DEF c
  <2> QED BY <1>0, <2>2, <2>3, CallBegins
<1> QED BY <1>1, <1>2, <1>3

\* The payer moves the wallet by hand: alone with it only if no call is.
LEMMA UserKeeps ==
  ASSUME WalletInv, NEW n \in Networks, UserSwitches(n)
  PROVE  WalletInv'
<1>1. call' = call /\ network' \in Networks /\ misplaced' = misplaced
  BY DEF UserSwitches, Move
<1>2. ~ overlapped' => ~ overlapped /\ \A w \in Actors : ~ Busy(w)
  BY DEF UserSwitches
<1> QED BY <1>1, <1>2 DEF WalletInv, WalletTyped, Placed, Busy, At, Actors

-----------------------------------------------------------------------------

LEMMA WalletStarts == Init => WalletInv
<1> SUFFICES ASSUME Init PROVE WalletInv
  OBVIOUS
<1>1. network \in Networks
  BY RailsAssumption DEF Init, Wallet
<1>2. Idle.at = "idle" /\ Idle.leg = "none"
  BY DEF Idle
<1> QED BY <1>1, <1>2, IdleTyped
        DEF Init, WalletInv, WalletTyped, Placed, Busy, At, Actors

LEMMA WalletKeeps == WalletInv /\ [Next]_vars => WalletInv'
<1> SUFFICES ASSUME WalletInv, [Next]_vars PROVE WalletInv'
  OBVIOUS
<1>1. ASSUME UNCHANGED <<wallet, call, ghosts>> PROVE WalletInv'
  BY <1>1 DEF WalletInv, WalletTyped, Placed, Busy, At, OnPin, pinOf, wallet, ghosts
<1>2. CASE PressPay \/ PressFinish \/ PressDeposit
  BY <1>2, PressKeeps
<1>3. CASE Quote
  BY <1>3, QuoteKeeps
<1>4. CASE Auth
  BY <1>4, AuthKeeps
<1>5. CASE Sign
  BY <1>5, SignKeeps
<1>6. CASE Reopen
  BY <1>1, <1>6 DEF Reopen
<1>7. ASSUME NEW w \in Actors, Request(w) PROVE WalletInv'
  BY <1>7, EnsureChainKeeps, ForwardKeeps, RefreshKeeps DEF Request
<1>8. ASSUME NEW c \in Chains, Confirm(c) PROVE WalletInv'
  BY <1>1, <1>8 DEF Confirm
<1>9. ASSUME NEW n \in Networks, UserSwitches(n) PROVE WalletInv'
  BY <1>9, UserKeeps
<1>10. CASE UNCHANGED vars
  BY <1>1, <1>10 DEF vars
<1> QED BY <1>2, <1>3, <1>4, <1>5, <1>6, <1>7, <1>8, <1>9, <1>10 DEF Next

\* The inductive invariant: where a call is when it is alone with the wallet.
THEOREM AloneIsPlaced == Spec => []WalletInv
<1>1. WalletInv /\ [Next]_vars => WalletInv'
  BY WalletKeeps
<1> QED BY <1>1, WalletStarts, PTL DEF Spec

\* A request of pinnedTo, and the signature of signAndAuthorize, reaches the
\* wallet on its own chain unless the payer or a second call moved it meanwhile.
THEOREM RequestsArePinned == Spec => []OnItsChain
<1>1. WalletInv => OnItsChain
  BY DEF WalletInv, Placed, OnItsChain
<1> QED BY <1>1, AloneIsPlaced, PTL

-----------------------------------------------------------------------------
(* Induction over data: what every step from 0 on keeps holds of every       *)
(* natural number, and what holds of a set whenever it holds of the set less *)
(* any one element holds of every finite set.  Both come of the well-founded  *)
(* order of the naturals.                                                    *)

\* A set of naturals that is not empty has a least element.
LEMMA Least ==
  ASSUME NEW T \in SUBSET Nat, T # {}
  PROVE  \E n \in T : \A m \in T : ~ (m < n)
<1>1. IsWellFoundedOn({ss \in Nat \X Nat : ss[1] < ss[2]}, Nat)
  BY NatLessThanWellFounded DEF OpToRel
<1>2. PICK n \in T :
        \A m \in T : <<m, n>> \notin {ss \in Nat \X Nat : ss[1] < ss[2]}
  BY <1>1, WFMin
<1>3. ASSUME NEW m \in T, m < n PROVE FALSE
  <2>1. <<m, n>> \in Nat \X Nat
    OBVIOUS
  <2>2. <<m, n>>[1] < <<m, n>>[2]
    BY <1>3
  <2> QED BY <1>2, <2>1, <2>2
<1> QED BY <1>3

\* A set of naturals that holds 0, and with a number the next, holds them all.
LEMMA AllNat ==
  ASSUME NEW S, 0 \in S, \A n \in Nat : n \in S => n + 1 \in S
  PROVE  Nat \subseteq S
<1> SUFFICES ASSUME Nat \ S # {} PROVE FALSE
  OBVIOUS
<1>1. PICK n \in Nat \ S : \A m \in Nat \ S : ~ (m < n)
  BY Least
<1>2. n - 1 \in Nat /\ n - 1 < n
  BY <1>1
<1>3. n - 1 \in S
  BY <1>1, <1>2
<1> QED BY <1>1, <1>2, <1>3

\* A set of subsets of a finite set that holds every set of which it holds
\* what is left without any one element, holds them all.
LEMMA AllSubsets ==
  ASSUME NEW D, NEW S, IsFiniteSet(D),
         \A s \in SUBSET D : (\A x \in s : s \ {x} \in S) => s \in S
  PROVE  SUBSET D \subseteq S
<1>. DEFINE N == {n \in Nat : \A s \in SUBSET D : Cardinality(s) = n => s \in S}
<1>0. \A s \in SUBSET D : IsFiniteSet(s) /\ Cardinality(s) \in Nat
  BY FS_Subset, FS_CardinalityType
<1>1. 0 \in N
  BY <1>0, FS_EmptySet
<1>2. ASSUME NEW n \in Nat, n \in N
      PROVE  n + 1 \in N
  <2> SUFFICES ASSUME NEW s \in SUBSET D, Cardinality(s) = n + 1
               PROVE  s \in S
    OBVIOUS
  <2>1. ASSUME NEW x \in s
        PROVE  s \ {x} \in S
    <3>1. Cardinality(s \ {x}) = Cardinality(s) - 1
      BY <1>0, FS_RemoveElement
    <3>2. Cardinality(s \ {x}) = n
      BY <3>1
    <3> QED BY <1>2, <3>2
  <2> QED BY <2>1
<1>3. Nat \subseteq N
  <2> HIDE DEF N
  <2> QED BY <1>1, <1>2, AllNat
<1> QED BY <1>0, <1>3

\* A fold over the finite set D: f[x] takes the value of the rest to that with
\* element x, and pick names the element of a set that comes last.
Foldable(D, V, base, f, pick) ==
    /\ IsFiniteSet(D)
    /\ base \in V
    /\ f \in [D -> [V -> V]]
    /\ \A s \in SUBSET D : s # {} => pick[s] \in s

FoldsTo(g, D, V, base, f, pick) ==
    /\ g \in [SUBSET D -> V]
    /\ g[{}] = base
    /\ \A s \in SUBSET D : s # {} => g[s] = f[pick[s]][g[s \ {pick[s]}]]

\* It defines a function.
LEMMA FoldDefined ==
  ASSUME NEW D, NEW V, NEW base, NEW f, NEW pick,
         Foldable(D, V, base, f, pick)
  PROVE  \E g : FoldsTo(g, D, V, base, f, pick)
<1> USE DEF Foldable
<1>. DEFINE Up(n) == {s \in SUBSET D : Cardinality(s) <= n}
            Folds(g, n) == \A s \in Up(n) :
              g[s] = IF s = {} THEN base ELSE f[pick[s]][g[s \ {pick[s]}]]
            N == {n \in Nat : \E g \in [Up(n) -> V] : Folds(g, n)}
<1>0. \A s \in SUBSET D : IsFiniteSet(s) /\ Cardinality(s) \in Nat
  BY FS_Subset, FS_CardinalityType
<1>1. 0 \in N
  <2>1. \A s \in Up(0) : s = {}
    BY <1>0, FS_EmptySet
  <2>2. [s \in Up(0) |-> base] \in [Up(0) -> V]
    OBVIOUS
  <2> QED BY <2>1, <2>2
<1>2. ASSUME NEW n \in Nat, n \in N
      PROVE  n + 1 \in N
  <2>1. PICK g \in [Up(n) -> V] : Folds(g, n)
    BY <1>2
  <2>2. ASSUME NEW s \in Up(n+1)
        PROVE  /\ s \in SUBSET D
               /\ s # {} => /\ pick[s] \in D
                            /\ s \ {pick[s]} \in Up(n)
               /\ s \notin Up(n) => s # {}
    <3>1. {} \in Up(n)
      BY FS_EmptySet
    <3>2. ASSUME s # {}
          PROVE  s \ {pick[s]} \in Up(n)
      <4>1. pick[s] \in s /\ IsFiniteSet(s) /\ Cardinality(s) \in Nat
        BY <1>0, <3>2
      <4>2. Cardinality(s \ {pick[s]}) = Cardinality(s) - 1
        BY <4>1, FS_RemoveElement
      <4> QED BY <4>1, <4>2
    <3> QED BY <3>1, <3>2
  <2>3. Up(n) \subseteq Up(n+1)
    BY <1>0
  <2>. DEFINE h == [s \in Up(n+1) |->
                     IF s \in Up(n) THEN g[s]
                     ELSE f[pick[s]][g[s \ {pick[s]}]]]
  <2>. HIDE DEF Up
  <2>4. h \in [Up(n+1) -> V]
    BY <2>2
  <2>5. ASSUME NEW s \in Up(n+1)
        PROVE  h[s] = IF s = {} THEN base ELSE f[pick[s]][h[s \ {pick[s]}]]
    <3>1. s # {} => h[s \ {pick[s]}] = g[s \ {pick[s]}]
      BY <2>2, <2>3
    <3>2. CASE s \in Up(n)
      BY <2>1, <3>1, <3>2
    <3>3. CASE s \notin Up(n)
      BY <2>2, <3>1, <3>3
    <3> QED BY <3>2, <3>3
  <2>6. Folds(h, n + 1)
    <3> HIDE DEF h
    <3> QED BY <2>5
  <2> HIDE DEF h, Folds
  <2> QED BY <2>4, <2>6
<1>3. Cardinality(D) \in N
  <2> HIDE DEF N
  <2> QED BY <1>0, <1>1, <1>2, AllNat
<1>4. Up(Cardinality(D)) = SUBSET D
  BY FS_Subset, <1>0
<1>5. PICK g \in [SUBSET D -> V] :
        \A s \in SUBSET D :
          g[s] = IF s = {} THEN base ELSE f[pick[s]][g[s \ {pick[s]}]]
  BY <1>3, <1>4
<1>6. FoldsTo(g, D, V, base, f, pick)
  BY <1>5 DEF FoldsTo
<1> QED BY <1>6

\* The element of s that a sum takes last, and a sum by the subsets of S.
LastOf(s) == CHOOSE x \in s : TRUE

SumsTo(g, f, S) ==
    /\ g \in [SUBSET S -> Nat]
    /\ g[{}] = 0
    /\ \A s \in SUBSET S : s # {} => g[s] = f[LastOf(s)] + g[s \ {LastOf(s)}]
    /\ SumFunctionOnSet(f, S) = g[S]

LEMMA SumIterates ==
  ASSUME NEW D, IsFiniteSet(D), NEW f \in [D -> Nat], NEW S \in SUBSET D
  PROVE  \E g : SumsTo(g, f, S)
<1>. DEFINE pick == [s \in SUBSET S |-> LastOf(s)]
            step == [x \in S |-> [v \in Nat |-> f[x] + v]]
            Fold(h) == h = [s \in SUBSET S |->
                             IF s = {} THEN 0
                             ELSE f[LastOf(s)] + h[s \ {LastOf(s)}]]
            iter == CHOOSE h : Fold(h)
<1>1. /\ IsFiniteSet(S) /\ step \in [S -> [Nat -> Nat]]
      /\ \A s \in SUBSET S : s # {} => LastOf(s) \in s
      /\ \A s \in SUBSET S : s # {} => pick[s] \in s
  BY FS_Subset DEF LastOf
<1>2. PICK g : /\ g \in [SUBSET S -> Nat] /\ g[{}] = 0
               /\ \A s \in SUBSET S :
                    s # {} => g[s] = step[pick[s]][g[s \ {pick[s]}]]
  <2>1. Foldable(S, Nat, 0, step, pick)
    BY <1>1 DEF Foldable
  <2> HIDE DEF pick, step, Fold, iter
  <2>2. PICK g : FoldsTo(g, S, Nat, 0, step, pick)
    BY <2>1, FoldDefined
  <2> QED BY <2>2 DEF FoldsTo
<1>3. ASSUME NEW s \in SUBSET S, s # {}
      PROVE  g[s] = f[LastOf(s)] + g[s \ {LastOf(s)}]
  <2>1. /\ pick[s] = LastOf(s) /\ LastOf(s) \in S
        /\ s \ {LastOf(s)} \in SUBSET S /\ g[s \ {LastOf(s)}] \in Nat
    BY <1>1, <1>2, <1>3
  <2> QED BY <1>2, <1>3, <2>1
<1>4. Fold(g)
  BY <1>2, <1>3
<1>5. Fold(iter)
  <2> HIDE DEF Fold
  <2> QED BY <1>4
<1>6. SumFunctionOnSet(f, S) = iter[S]
  BY DEF SumFunctionOnSet, FoldFunctionOnSet, MapThenFoldSet, LastOf
<1>7. iter[S] = g[S]
  <2>. DEFINE Same == {s \in SUBSET S : iter[s] = g[s]}
  <2>1. ASSUME NEW s \in SUBSET S, \A x \in s : s \ {x} \in Same
        PROVE  s \in Same
    <3>. HIDE DEF iter
    <3>1. CASE s = {}
      BY <1>2, <1>5, <3>1
    <3>2. CASE s # {}
      <4>1. LastOf(s) \in s
        BY <1>1, <3>2
      <4>2. iter[s \ {LastOf(s)}] = g[s \ {LastOf(s)}]
        BY <2>1, <4>1
      <4>3. iter[s] = f[LastOf(s)] + iter[s \ {LastOf(s)}]
        BY <1>5, <3>2
      <4> QED BY <1>3, <3>2, <4>2, <4>3
    <3> QED BY <3>1, <3>2
  <2>2. SUBSET S \subseteq Same
    <3> HIDE DEF Same, pick, step, Fold, iter
    <3> QED BY <1>1, <2>1, AllSubsets
  <2> QED BY <2>2
<1>8. SumsTo(g, f, S)
  <2> HIDE DEF pick, step, Fold, iter
  <2> QED BY <1>2, <1>3, <1>6, <1>7 DEF SumsTo
<1> QED BY <1>8

\* A sum is a natural number, and begins at 0.
LEMMA SumType ==
  ASSUME NEW D, IsFiniteSet(D), NEW f \in [D -> Nat]
  PROVE  /\ SumFunctionOnSet(f, {}) = 0
         /\ \A S \in SUBSET D : SumFunctionOnSet(f, S) \in Nat
<1>1. ASSUME NEW S \in SUBSET D
      PROVE  /\ SumFunctionOnSet(f, S) \in Nat
             /\ S = {} => SumFunctionOnSet(f, S) = 0
  <2>1. PICK g : SumsTo(g, f, S)
    BY SumIterates
  <2>2. /\ g \in [SUBSET S -> Nat] /\ g[{}] = 0
        /\ SumFunctionOnSet(f, S) = g[S]
    BY <2>1 DEF SumsTo
  <2>3. g[S] \in Nat
    BY <2>2
  <2> QED BY <2>2, <2>3
<1> QED BY <1>1

\* It takes the elements in the order of CHOOSE.
LEMMA SumLast ==
  ASSUME NEW D, IsFiniteSet(D), NEW f \in [D -> Nat],
         NEW S \in SUBSET D, S # {}
  PROVE  SumFunctionOnSet(f, S) =
           f[LastOf(S)] + SumFunctionOnSet(f, S \ {LastOf(S)})
<1>1. PICK g : SumsTo(g, f, S)
  BY SumIterates
<1>2. PICK R : R = S \ {LastOf(S)}
  OBVIOUS
<1>3. R \in SUBSET D /\ R \in SUBSET S /\ IsFiniteSet(R)
  BY <1>2, FS_Subset
<1>4. PICK h : SumsTo(h, f, R)
  BY <1>3, SumIterates
<1>5. g[R] = h[R]
  <2>. DEFINE Same == {s \in SUBSET R : g[s] = h[s]}
  <2>1. ASSUME NEW s \in SUBSET R, \A x \in s : s \ {x} \in Same
        PROVE  s \in Same
    <3>1. CASE s = {}
      BY <1>1, <1>4, <3>1 DEF SumsTo
    <3>2. CASE s # {}
      <4>1. LastOf(s) \in s
        BY <3>2 DEF LastOf
      <4>2. g[s \ {LastOf(s)}] = h[s \ {LastOf(s)}]
        BY <2>1, <4>1
      <4>3. g[s] = f[LastOf(s)] + g[s \ {LastOf(s)}]
        BY <1>1, <1>3, <3>2 DEF SumsTo
      <4>4. h[s] = f[LastOf(s)] + h[s \ {LastOf(s)}]
        BY <1>4, <3>2 DEF SumsTo
      <4> QED BY <4>2, <4>3, <4>4
    <3> QED BY <3>1, <3>2
  <2>2. \A s \in SUBSET R : (\A x \in s : s \ {x} \in Same) => s \in Same
    BY <2>1
  <2>3. SUBSET R \subseteq Same
    <3> HIDE DEF Same
    <3> QED BY <1>3, <2>2, AllSubsets
  <2> QED BY <2>3
<1>6. g[S] = f[LastOf(S)] + g[R]
  BY <1>1, <1>2 DEF SumsTo
<1>7. SumFunctionOnSet(f, S) = g[S] /\ SumFunctionOnSet(f, R) = h[R]
  BY <1>1, <1>4 DEF SumsTo
<1> QED BY <1>2, <1>5, <1>6, <1>7

\* But in any order it comes to the same.
LEMMA SumTake ==
  ASSUME NEW D, IsFiniteSet(D), NEW f \in [D -> Nat],
         NEW S \in SUBSET D, NEW x \in S
  PROVE  SumFunctionOnSet(f, S) = f[x] + SumFunctionOnSet(f, S \ {x})
<1>. DEFINE Takes == {s \in SUBSET D :
       \A y \in s : SumFunctionOnSet(f, s) =
                      f[y] + SumFunctionOnSet(f, s \ {y})}
<1>1. ASSUME NEW s \in SUBSET D, \A y \in s : s \ {y} \in Takes, NEW y \in s
      PROVE  SumFunctionOnSet(f, s) = f[y] + SumFunctionOnSet(f, s \ {y})
  <2>1. PICK c \in s : c = LastOf(s)
    BY DEF LastOf
  <2>2. SumFunctionOnSet(f, s) = f[c] + SumFunctionOnSet(f, s \ {c})
    BY <2>1, SumLast
  <2>3. CASE c # y
    <3>1. SumFunctionOnSet(f, s \ {c}) =
            f[y] + SumFunctionOnSet(f, (s \ {c}) \ {y})
      BY <1>1, <2>1, <2>3
    <3>2. SumFunctionOnSet(f, s \ {y}) =
            f[c] + SumFunctionOnSet(f, (s \ {y}) \ {c})
      BY <1>1, <2>1, <2>3
    <3>3. (s \ {c}) \ {y} = (s \ {y}) \ {c}
      OBVIOUS
    <3>4. (s \ {y}) \ {c} \in SUBSET D
      OBVIOUS
    <3>5. PICK n : n = SumFunctionOnSet(f, (s \ {y}) \ {c})
      OBVIOUS
    <3>6. n \in Nat /\ f[y] \in Nat /\ f[c] \in Nat
      BY <2>1, <3>4, <3>5, SumType
    <3>7. f[c] + (f[y] + n) = f[y] + (f[c] + n)
      BY <3>6
    <3> QED BY <2>2, <3>1, <3>2, <3>3, <3>5, <3>7
  <2> QED BY <2>2, <2>3
<1>2. \A s \in SUBSET D : (\A y \in s : s \ {y} \in Takes) => s \in Takes
  BY <1>1
<1>3. SUBSET D \subseteq Takes
  <2> HIDE DEF Takes
  <2> QED BY <1>2, AllSubsets
<1> QED BY <1>3

-----------------------------------------------------------------------------
(* Sums.                                                                    *)

\* The sum of f over S.
Total(f, S) == SumFunctionOnSet(f, S)

\* A total is a natural number; it begins at 0, and any element may come last.
LEMMA TotalOf ==
  ASSUME NEW D, IsFiniteSet(D), NEW f \in [D -> Nat]
  PROVE  /\ Total(f, {}) = 0
         /\ \A S \in SUBSET D :
              /\ Total(f, S) \in Nat
              /\ \A x \in S : Total(f, S) = f[x] + Total(f, S \ {x})
  BY SumType, SumTake DEF Total

\* Smaller elements sum up to less.
LEMMA TotalMonotone ==
  ASSUME NEW D, IsFiniteSet(D), NEW f \in [D -> Nat], NEW h \in [D -> Nat],
         NEW S \in SUBSET D, \A x \in S : f[x] <= h[x]
  PROVE  Total(f, S) <= Total(h, S)
<1>. DEFINE Less == {s \in SUBSET S : Total(f, s) <= Total(h, s)}
<1>1. ASSUME NEW s \in SUBSET S, \A x \in s : s \ {x} \in Less
      PROVE  s \in Less
  <2>1. CASE s = {}
    BY <2>1, TotalOf
  <2>2. CASE s # {}
    <3>1. PICK x \in s : TRUE
      BY <2>2
    <3>2. PICK r : r = s \ {x}
      OBVIOUS
    <3>3. /\ Total(f, s) = f[x] + Total(f, r)
          /\ Total(h, s) = h[x] + Total(h, r)
      BY <3>1, <3>2, TotalOf
    <3>4. PICK m, n : m = Total(f, r) /\ n = Total(h, r)
      OBVIOUS
    <3>5. m \in Nat /\ n \in Nat /\ f[x] \in Nat /\ h[x] \in Nat
      BY <3>1, <3>2, <3>4, TotalOf
    <3>6. m <= n /\ f[x] <= h[x]
      BY <1>1, <3>1, <3>2, <3>4
    <3>7. f[x] + m <= h[x] + n
      BY <3>5, <3>6
    <3> QED BY <3>3, <3>4, <3>7
  <2> QED BY <2>1, <2>2
<1>2. \A s \in SUBSET S : (\A x \in s : s \ {x} \in Less) => s \in Less
  BY <1>1
<1>3. IsFiniteSet(S)
  BY FS_Subset
<1>4. SUBSET S \subseteq Less
  <2> HIDE DEF Less
  <2> QED BY <1>2, <1>3, AllSubsets
<1> QED BY <1>4

\* A total depends on the elements it sums.
LEMMA TotalAgrees ==
  ASSUME NEW D, IsFiniteSet(D), NEW f \in [D -> Nat], NEW h \in [D -> Nat],
         NEW S \in SUBSET D, \A x \in S : f[x] = h[x]
  PROVE  Total(f, S) = Total(h, S)
<1>1. \A x \in S : f[x] \in Nat /\ h[x] \in Nat
  OBVIOUS
<1>2. Total(f, S) <= Total(h, S) /\ Total(h, S) <= Total(f, S)
  BY <1>1, TotalMonotone
<1>3. Total(f, S) \in Nat /\ Total(h, S) \in Nat
  BY TotalOf
<1> QED BY <1>2, <1>3

\* A set may be summed up in two parts.
LEMMA TotalParts ==
  ASSUME NEW D, IsFiniteSet(D), NEW f \in [D -> Nat], NEW S \in SUBSET D,
         NEW R \in SUBSET S
  PROVE  Total(f, S) = Total(f, R) + Total(f, S \ R)
<1>. DEFINE Parts == {r \in SUBSET R :
                       Total(f, S) = Total(f, r) + Total(f, S \ r)}
<1>1. ASSUME NEW s \in SUBSET R, \A x \in s : s \ {x} \in Parts
      PROVE  s \in Parts
  <2>1. CASE s = {}
    <3>1. S \ s = S /\ Total(f, S) \in Nat /\ Total(f, s) = 0
      BY <2>1, TotalOf
    <3> QED BY <3>1
  <2>2. CASE s # {}
    <3>1. PICK x \in s : TRUE
      BY <2>2
    <3>2. PICK r, t : r = s \ {x} /\ t = S \ r
      OBVIOUS
    <3>3. /\ s \in SUBSET D /\ r \in SUBSET D /\ t \in SUBSET D
          /\ x \in t /\ t \ {x} = S \ s
      BY <3>1, <3>2
    <3>4. /\ Total(f, s) = f[x] + Total(f, r)
          /\ Total(f, t) = f[x] + Total(f, S \ s)
      BY <3>1, <3>2, <3>3, TotalOf
    <3>5. Total(f, S) = Total(f, r) + Total(f, t)
      BY <1>1, <3>1, <3>2
    <3>6. PICK m, n : m = Total(f, r) /\ n = Total(f, S \ s)
      OBVIOUS
    <3>7. m \in Nat /\ n \in Nat /\ f[x] \in Nat
      BY <3>1, <3>3, <3>6, TotalOf
    <3>8. m + (f[x] + n) = (f[x] + m) + n
      BY <3>7
    <3> QED BY <3>4, <3>5, <3>6, <3>8
  <2> QED BY <2>1, <2>2
<1>2. \A s \in SUBSET R : (\A x \in s : s \ {x} \in Parts) => s \in Parts
  BY <1>1
<1>3. IsFiniteSet(R)
  BY FS_Subset
<1>4. SUBSET R \subseteq Parts
  <2> HIDE DEF Parts
  <2> QED BY <1>2, <1>3, AllSubsets
<1> QED BY <1>4

\* Fewer and smaller elements sum up to less.
LEMMA TotalExchange ==
  ASSUME NEW D, IsFiniteSet(D), NEW f \in [D -> Nat], NEW A \in SUBSET D,
         NEW B \in SUBSET D, Cardinality(A) <= Cardinality(B),
         \A a \in A, b \in B : f[a] <= f[b]
  PROVE  Total(f, A) <= Total(f, B)
<1>. DEFINE Less == {s \in SUBSET A : \A t \in SUBSET B :
                       Cardinality(s) <= Cardinality(t) =>
                         Total(f, s) <= Total(f, t)}
<1>0. \A S \in SUBSET D : IsFiniteSet(S) /\ Cardinality(S) \in Nat
  BY FS_Subset, FS_CardinalityType
<1>1. ASSUME NEW s \in SUBSET A, \A x \in s : s \ {x} \in Less,
             NEW t \in SUBSET B, Cardinality(s) <= Cardinality(t)
      PROVE  Total(f, s) <= Total(f, t)
  <2>1. CASE s = {}
    <3>1. t \in SUBSET D /\ Total(f, s) = 0
      BY <2>1, TotalOf
    <3>2. Total(f, t) \in Nat
      BY <3>1, TotalOf
    <3> QED BY <3>1, <3>2
  <2>2. CASE s # {}
    <3>1. PICK x \in s : TRUE
      BY <2>2
    <3>2. s \in SUBSET D /\ t \in SUBSET D
      OBVIOUS
    <3>3. Cardinality(s) > 0
      BY <1>0, <2>2, <3>2, FS_EmptySet
    <3>4. t # {}
      BY <1>0, <1>1, <3>2, <3>3, FS_EmptySet
    <3>5. PICK y \in t : TRUE
      BY <3>4
    <3>6. PICK r, u : r = s \ {x} /\ u = t \ {y}
      OBVIOUS
    <3>7. /\ Cardinality(r) = Cardinality(s) - 1
          /\ Cardinality(u) = Cardinality(t) - 1
      BY <1>0, <3>1, <3>2, <3>5, <3>6, FS_RemoveElement
    <3>8. Cardinality(r) <= Cardinality(u)
      BY <1>0, <1>1, <3>2, <3>7
    <3>9. /\ Total(f, s) = f[x] + Total(f, r)
          /\ Total(f, t) = f[y] + Total(f, u)
      BY <3>1, <3>2, <3>5, <3>6, TotalOf
    <3>10. PICK m, n : m = Total(f, r) /\ n = Total(f, u)
      OBVIOUS
    <3>11. m \in Nat /\ n \in Nat /\ f[x] \in Nat /\ f[y] \in Nat
      BY <3>1, <3>2, <3>5, <3>6, <3>10, TotalOf
    <3>12. m <= n /\ f[x] <= f[y]
      BY <1>1, <3>1, <3>5, <3>6, <3>8, <3>10
    <3>13. f[x] + m <= f[y] + n
      BY <3>11, <3>12
    <3> QED BY <3>9, <3>10, <3>13
  <2> QED BY <2>1, <2>2
<1>2. \A s \in SUBSET A : (\A x \in s : s \ {x} \in Less) => s \in Less
  BY <1>1
<1>3. IsFiniteSet(A)
  BY FS_Subset
<1>4. SUBSET A \subseteq Less
  <2> HIDE DEF Less
  <2> QED BY <1>2, <1>3, AllSubsets
<1> QED BY <1>4

-----------------------------------------------------------------------------
(* planAllocations step by step: what the fold over a sequence of chains     *)
(* makes of the amount that is left.                                         *)

\* Where planAllocations starts, and what it has taken and still needs.
Start == [plan |-> NoDraw, left |-> Need]
Sofar == [plan : Balances, left : Nat]
PlanOver(q, s) == FoldLeft(LAMBDA sofar, c : Take(q, sofar, c), Start, s)

\* A set of positions has a highest one.
LEMMA Highest ==
  ASSUME NEW n \in Nat, NEW t \in SUBSET (1..n), t # {}
  PROVE  Max(t) \in t /\ \A i \in t : Max(t) >= i
<1>. DEFINE T == {n - i : i \in t}
<1>1. T \in SUBSET Nat /\ T # {}
  <2>1. \A i \in t : n - i \in Nat
    OBVIOUS
  <2>2. PICK i \in t : n - i \in T
    OBVIOUS
  <2> QED BY <2>1, <2>2
<1>2. PICK d \in T : \A m \in T : ~ (m < d)
  <2> HIDE DEF T
  <2> QED BY <1>1, Least
<1>3. PICK j \in t : d = n - j
  BY <1>2
<1>4. \A i \in t : j >= i
  <2> SUFFICES ASSUME NEW i \in t PROVE j >= i
    OBVIOUS
  <2>1. n - i \in T /\ ~ (n - i < n - j)
    BY <1>2, <1>3
  <2> QED BY <2>1
<1> QED BY <1>4 DEF Max

\* Of the first i positions it is i, and the rest are the first i - 1.
LEMMA HighestOf ==
  ASSUME NEW n \in Nat, NEW i \in 1..n
  PROVE  Max(1..i) = i /\ (1..i) \ {i} = 1..(i-1) /\ 1..i \in SUBSET (1..n)
<1>1. 1..i \in SUBSET (1..n) /\ i \in 1..i
  OBVIOUS
<1>2. Max(1..i) \in 1..i /\ Max(1..i) >= i
  BY <1>1, Highest
<1>3. Max(1..i) = i
  BY <1>2
<1> QED BY <1>1, <1>3

\* What is left never goes below 0.
LEMMA TakeTyped ==
  ASSUME NEW q \in Balances, NEW v \in Sofar, NEW c \in Chains
  PROVE  Take(q, v, c) \in Sofar
<1>1. PICK t : t = IF usable(q, c) < v.left THEN usable(q, c) ELSE v.left
  OBVIOUS
<1>2. q[c] \in Nat /\ Fee \in Nat /\ v.left \in Nat /\ v.plan \in Balances
  BY RailsAssumption DEF Balances, Sofar
<1>3. usable(q, c) \in Nat
  BY <1>2 DEF usable
<1>4. t \in Nat /\ v.left - t \in Nat
  BY <1>1, <1>2, <1>3
<1>5. [v.plan EXCEPT ![c] = t] \in Balances
  BY <1>2, <1>4 DEF Balances
<1> QED BY <1>1, <1>4, <1>5 DEF Take, Sofar

LEMMA StartTyped == Start \in Sofar
BY RailsAssumption DEF Start, Sofar, NoDraw, Balances

\* r[i] is what the first i chains of the sequence s leave.
StepsTo(r, q, s, n) ==
    /\ r \in [0..n -> Sofar]
    /\ r[0] = Start
    /\ \A i \in 1..n : r[i] = Take(q, r[i-1], s[i])
    /\ PlanOver(q, s) = r[n]

\* The fold goes through the sequence from its first chain to its last.
LEMMA PlanSteps ==
  ASSUME NEW q \in Balances, NEW n \in Nat, NEW s \in [1..n -> Chains]
  PROVE  \E r : StepsTo(r, q, s, n)
<1>. DEFINE S == 1..n
            pick == [t \in SUBSET S |-> Max(t)]
            step == [i \in S |-> [v \in Sofar |-> Take(q, v, s[i])]]
            Fold(h) == h = [t \in SUBSET S |->
                             IF t = {} THEN Start
                             ELSE Take(q, h[t \ {Max(t)}], s[Max(t)])]
            iter == CHOOSE h : Fold(h)
<1>1. /\ IsFiniteSet(S)
      /\ step \in [S -> [Sofar -> Sofar]]
      /\ \A t \in SUBSET S : t # {} => Max(t) \in t
      /\ \A t \in SUBSET S : t # {} => pick[t] \in t
  <2>1. IsFiniteSet(S)
    BY FS_Interval
  <2>2. \A t \in SUBSET S : t # {} => Max(t) \in t
    BY Highest
  <2>3. \A i \in S : [v \in Sofar |-> Take(q, v, s[i])] \in [Sofar -> Sofar]
    BY TakeTyped
  <2> QED BY <2>1, <2>2, <2>3
<1>2. PICK g : FoldsTo(g, S, Sofar, Start, step, pick)
  <2>1. Foldable(S, Sofar, Start, step, pick)
    BY <1>1, StartTyped DEF Foldable
  <2> HIDE DEF S, pick, step, Fold, iter
  <2> QED BY <2>1, FoldDefined
<1>3. /\ g \in [SUBSET S -> Sofar]
      /\ g[{}] = Start
  BY <1>2 DEF FoldsTo
<1>4. ASSUME NEW t \in SUBSET S, t # {}
      PROVE  g[t] = Take(q, g[t \ {Max(t)}], s[Max(t)])
  <2>1. g[t] = step[pick[t]][g[t \ {pick[t]}]]
    BY <1>2, <1>4 DEF FoldsTo
  <2>2. /\ pick[t] = Max(t) /\ Max(t) \in S
        /\ g[t \ {Max(t)}] \in Sofar
    BY <1>1, <1>3, <1>4
  <2> QED BY <2>1, <2>2
<1>5. Fold(g)
  BY <1>3, <1>4
<1>6. Fold(iter)
  <2> HIDE DEF Fold
  <2> QED BY <1>5
<1>7. PlanOver(q, s) = iter[S]
  BY DEF PlanOver, FoldLeft, MapThenFoldSet
<1>8. iter[S] = g[S]
  <2>. DEFINE Same == {t \in SUBSET S : iter[t] = g[t]}
  <2>1. ASSUME NEW t \in SUBSET S, \A x \in t : t \ {x} \in Same
        PROVE  t \in Same
    <3>. HIDE DEF iter
    <3>1. CASE t = {}
      BY <1>3, <1>6, <3>1
    <3>2. CASE t # {}
      <4>1. Max(t) \in t
        BY <1>1, <3>2
      <4>2. iter[t \ {Max(t)}] = g[t \ {Max(t)}]
        BY <2>1, <4>1
      <4>3. iter[t] = Take(q, iter[t \ {Max(t)}], s[Max(t)])
        BY <1>6, <3>2
      <4> QED BY <1>4, <3>2, <4>2, <4>3
    <3> QED BY <3>1, <3>2
  <2>2. \A t \in SUBSET S : (\A x \in t : t \ {x} \in Same) => t \in Same
    BY <2>1
  <2>3. SUBSET S \subseteq Same
    <3> HIDE DEF Same, pick, step, Fold, iter, S
    <3> QED BY <1>1, <2>2, AllSubsets
  <2> QED BY <2>3
<1>9. PICK r : r = [i \in 0..n |-> g[1..i]]
  OBVIOUS
<1>10. r \in [0..n -> Sofar]
  BY <1>3, <1>9
<1>11. r[0] = Start
  <2>1. 1..0 = {}
    OBVIOUS
  <2> QED BY <1>3, <1>9, <2>1
<1>12. ASSUME NEW i \in 1..n
       PROVE  r[i] = Take(q, r[i-1], s[i])
  <2>1. Max(1..i) = i /\ (1..i) \ {i} = 1..(i-1) /\ 1..i \in SUBSET S
    BY HighestOf
  <2>2. g[1..i] = Take(q, g[1..(i-1)], s[i])
    <3>1. i \in 1..i
      OBVIOUS
    <3> QED BY <1>4, <2>1, <3>1
  <2>3. r[i] = g[1..i] /\ r[i-1] = g[1..(i-1)]
    BY <1>9
  <2> QED BY <2>2, <2>3
<1>13. PlanOver(q, s) = r[n]
  <2>1. r[n] = g[S]
    BY <1>9
  <2> QED BY <1>7, <1>8, <2>1
<1>14. StepsTo(r, q, s, n)
  <2> HIDE DEF S, pick, step, Fold, iter
  <2> QED BY <1>10, <1>11, <1>12, <1>13 DEF StepsTo
<1> QED BY <1>14

-----------------------------------------------------------------------------
(* More sums.                                                                *)

\* A sum of zeros is zero.
LEMMA TotalZero ==
  ASSUME NEW D, IsFiniteSet(D), NEW f \in [D -> Nat], NEW S \in SUBSET D,
         \A x \in S : f[x] = 0
  PROVE  Total(f, S) = 0
<1>. DEFINE Zero == {s \in SUBSET S : Total(f, s) = 0}
<1>1. ASSUME NEW s \in SUBSET S, \A x \in s : s \ {x} \in Zero
      PROVE  s \in Zero
  <2>1. CASE s = {}
    BY <2>1, TotalOf
  <2>2. CASE s # {}
    <3>1. PICK x \in s : TRUE
      BY <2>2
    <3>2. Total(f, s) = f[x] + Total(f, s \ {x}) /\ f[x] = 0
      BY <3>1, TotalOf
    <3>3. Total(f, s \ {x}) = 0
      BY <1>1, <3>1
    <3> QED BY <3>2, <3>3
  <2> QED BY <2>1, <2>2
<1>2. \A s \in SUBSET S : (\A x \in s : s \ {x} \in Zero) => s \in Zero
  BY <1>1
<1>3. IsFiniteSet(S)
  BY FS_Subset
<1>4. SUBSET S \subseteq Zero
  <2> HIDE DEF Zero
  <2> QED BY <1>2, <1>3, AllSubsets
<1> QED BY <1>4

-----------------------------------------------------------------------------
(* What holds after each chain.                                             *)

\* The first i chains, the chains an allocation draws from, what each chain can
\* give, and the chains that can give something.
Pre(s, i) == {s[j] : j \in 1..i}
Drawing(p) == {c \in Chains : p[c] > 0}
Uses(q) == [c \in Chains |-> usable(q, c)]
Room(q) == Drawing(Uses(q))

\* The chains drawn are the first k, and the ones before the last were short.
Prefix(v, q, s, i, k) ==
    /\ Drawing(v.plan) = Pre(s, k)
    /\ k > 0 => Total(Uses(q), Pre(s, k - 1)) < Need
    /\ v.left > 0 => k = i

\* No chain gives more than it can, what is drawn and what is left is the
\* amount, and as long as something is left every chain gave all it can.
Progress(v, q, s, i) ==
    /\ v \in Sofar
    /\ \A c \in Chains : v.plan[c] <= usable(q, c)
    /\ \A c \in Chains \ Pre(s, i) : v.plan[c] = 0
    /\ Total(v.plan, Chains) + v.left = Need
    /\ v.left > 0 => \A c \in Pre(s, i) : v.plan[c] = usable(q, c)
    /\ \E k \in 0..i : Prefix(v, q, s, i, k)

\* A sequence of different chains with something to give.
Lineup(s, q, n) ==
    /\ n \in Nat
    /\ s \in [1..n -> Chains]
    /\ \A i, j \in 1..n : i # j => s[i] # s[j]
    /\ \A i \in 1..n : usable(q, s[i]) > 0

\* What a chain can give is a natural number.
LEMMA UsesTyped ==
  ASSUME NEW q \in Balances
  PROVE  /\ Uses(q) \in Balances
         /\ \A c \in Chains : usable(q, c) \in Nat /\ Uses(q)[c] = usable(q, c)
<1>1. ASSUME NEW c \in Chains PROVE usable(q, c) \in Nat
  <2>1. q[c] \in Nat /\ Fee \in Nat
    BY RailsAssumption DEF Balances
  <2> QED BY <2>1 DEF usable
<1> QED BY <1>1 DEF Uses, Balances

\* The next chain is a new one.
LEMMA PreOf ==
  ASSUME NEW q, NEW n, NEW s, Lineup(s, q, n), NEW i \in 1..n
  PROVE  /\ Pre(s, i) \in SUBSET Chains /\ Pre(s, i-1) \in SUBSET Chains
         /\ s[i] \in Chains
         /\ s[i] \notin Pre(s, i-1)
         /\ Pre(s, i) = Pre(s, i-1) \cup {s[i]}
<1>1. /\ n \in Nat /\ s \in [1..n -> Chains]
      /\ \A j, k \in 1..n : j # k => s[j] # s[k]
  BY DEF Lineup
<1>2. s[i] \in Chains
  BY <1>1
<1>3. \A j \in 1..(i-1) : j \in 1..i /\ j \in 1..n /\ j # i
  BY <1>1
<1>4. \A j \in 1..i : j \in 1..n /\ (j = i \/ j \in 1..(i-1))
  BY <1>1
<1>5. \A c : c \in Pre(s, i) => c \in Pre(s, i-1) \cup {s[i]}
  BY <1>4 DEF Pre
<1>6. \A c : c \in Pre(s, i-1) \cup {s[i]} => c \in Pre(s, i)
  <2>1. i \in 1..i
    BY <1>1
  <2> QED BY <1>3, <2>1 DEF Pre
<1>7. Pre(s, i) = Pre(s, i-1) \cup {s[i]}
  BY <1>5, <1>6
<1>8. Pre(s, i-1) \in SUBSET Chains
  BY <1>1, <1>3 DEF Pre
<1>9. s[i] \notin Pre(s, i-1)
  BY <1>1, <1>3 DEF Pre
<1> QED BY <1>2, <1>7, <1>8, <1>9

\* Nothing is drawn yet.
LEMMA ProgressStarts ==
  ASSUME NEW q \in Balances, NEW s
  PROVE  Progress(Start, q, s, 0)
<1>1. Start \in Sofar /\ Start.plan = NoDraw /\ Start.left = Need
  BY StartTyped DEF Start
<1>2. \A c \in Chains : NoDraw[c] = 0 /\ NoDraw[c] <= usable(q, c)
  BY UsesTyped DEF NoDraw
<1>3. NoDraw \in [Chains -> Nat] /\ IsFiniteSet(Chains)
  BY RailsAssumption DEF NoDraw
<1>4. Total(NoDraw, Chains) = 0
  BY <1>2, <1>3, TotalZero
<1>5. Pre(s, 0) = {}
  BY DEF Pre
<1>6. Prefix(Start, q, s, 0, 0)
  BY <1>1, <1>2, <1>5 DEF Prefix, Drawing
<1>7. Need \in Nat
  BY RailsAssumption
<1> QED BY <1>1, <1>2, <1>4, <1>5, <1>6, <1>7 DEF Progress

\* What one more draw makes of a total.
LEMMA TotalDraw ==
  ASSUME NEW p \in Balances, NEW c \in Chains, p[c] = 0, NEW t \in Nat
  PROVE  /\ [p EXCEPT ![c] = t] \in Balances
         /\ Total([p EXCEPT ![c] = t], Chains) = t + Total(p, Chains)
<1>1. PICK r : r = [p EXCEPT ![c] = t]
  OBVIOUS
<1>2. r \in [Chains -> Nat] /\ p \in [Chains -> Nat] /\ IsFiniteSet(Chains)
  BY <1>1, RailsAssumption DEF Balances
<1>3. r[c] = t /\ \A d \in Chains \ {c} : r[d] = p[d]
  BY <1>1, <1>2
<1>4. PICK R \in SUBSET Chains : R = Chains \ {c}
  OBVIOUS
<1>5. Total(r, R) = Total(p, R)
  BY <1>2, <1>3, <1>4, TotalAgrees
<1>6. Total(r, Chains) = t + Total(r, R) /\ Total(p, Chains) = 0 + Total(p, R)
  <2>1. Total(r, Chains) = r[c] + Total(r, Chains \ {c})
    BY <1>2, TotalOf
  <2>2. Total(p, Chains) = p[c] + Total(p, Chains \ {c})
    BY <1>2, TotalOf
  <2> QED BY <1>3, <1>4, <2>1, <2>2
<1>7. Total(p, R) \in Nat
  BY <1>2, TotalOf
<1>8. Total(r, Chains) = t + Total(p, Chains)
  BY <1>5, <1>6, <1>7
<1> QED BY <1>1, <1>2, <1>8 DEF Balances

\* The total of chains that gave all they can, if no other chain gave.
LEMMA TotalOutside ==
  ASSUME NEW p \in Balances, NEW q \in Balances, NEW S \in SUBSET Chains,
         \A c \in S : p[c] = usable(q, c), \A c \in Chains \ S : p[c] = 0
  PROVE  Total(p, Chains) = Total(Uses(q), S)
<1>1. /\ p \in [Chains -> Nat] /\ Uses(q) \in [Chains -> Nat]
      /\ IsFiniteSet(Chains)
      /\ \A c \in S : p[c] = Uses(q)[c]
  BY RailsAssumption, UsesTyped DEF Balances
<1>2. PICK R \in SUBSET Chains : R = Chains \ S
  OBVIOUS
<1>3. Total(p, R) = 0
  BY <1>1, <1>2, TotalZero
<1>4. Total(p, S) = Total(Uses(q), S)
  BY <1>1, TotalAgrees
<1>5. Total(p, Chains) = Total(p, S) + Total(p, R)
  BY <1>1, <1>2, TotalParts
<1>6. Total(p, S) \in Nat
  BY <1>1, TotalOf
<1> QED BY <1>3, <1>4, <1>5, <1>6

\* One more chain: it gives all it can, or what is left.
LEMMA ProgressKept ==
  ASSUME NEW q \in Balances, NEW n, NEW s, Lineup(s, q, n), NEW i \in 1..n,
         NEW v, Progress(v, q, s, i-1)
  PROVE  Progress(Take(q, v, s[i]), q, s, i)
<1>1. PICK c \in Chains, w \in Sofar : c = s[i] /\ w = Take(q, v, c)
  BY PreOf, TakeTyped DEF Progress
<1>2. /\ v.plan \in Balances /\ v.left \in Nat /\ usable(q, c) \in Nat
      /\ i \in Nat /\ usable(q, c) > 0 /\ Need \in Nat
  <2>1. v.plan \in Balances /\ v.left \in Nat
    BY DEF Progress, Sofar
  <2>2. i \in Nat /\ usable(q, c) > 0
    BY <1>1 DEF Lineup
  <2> QED BY <2>1, <2>2, UsesTyped, RailsAssumption
<1>3. PICK t : t = IF usable(q, c) < v.left THEN usable(q, c) ELSE v.left
  OBVIOUS
<1>4. /\ t \in Nat /\ t <= usable(q, c) /\ t <= v.left
      /\ v.left - t > 0 => t = usable(q, c)
      /\ v.left > 0 => t > 0
  BY <1>2, <1>3
<1>5. w.plan = [v.plan EXCEPT ![c] = t] /\ w.left = v.left - t
  BY <1>1, <1>3 DEF Take
<1>6. /\ Pre(s, i) \in SUBSET Chains /\ Pre(s, i-1) \in SUBSET Chains
      /\ c \notin Pre(s, i-1) /\ Pre(s, i) = Pre(s, i-1) \cup {c}
  BY <1>1, PreOf
<1>7. v.plan[c] = 0 /\ \A d \in Chains : v.plan[d] <= usable(q, d)
  BY <1>6 DEF Progress
<1>8. /\ w.plan[c] = t
      /\ \A d \in Chains \ {c} : w.plan[d] = v.plan[d]
  BY <1>2, <1>5 DEF Balances
<1>9. \A d \in Chains : w.plan[d] <= usable(q, d)
  BY <1>4, <1>7, <1>8
<1>10. \A d \in Chains \ Pre(s, i) : w.plan[d] = 0
  BY <1>6, <1>8 DEF Progress
<1>11. Total(w.plan, Chains) + w.left = Need
  <2>1. PICK m : m = Total(v.plan, Chains)
    OBVIOUS
  <2>2. m + v.left = Need /\ m \in Nat
    <3>1. v.plan \in [Chains -> Nat] /\ IsFiniteSet(Chains)
      BY <1>2, RailsAssumption DEF Balances
    <3> QED BY <2>1, <3>1, TotalOf DEF Progress
  <2>3. Total(w.plan, Chains) = t + m
    BY <1>2, <1>4, <1>5, <1>7, <2>1, TotalDraw
  <2>4. (t + m) + (v.left - t) = Need
    BY <1>2, <1>4, <2>2
  <2> QED BY <1>5, <2>3, <2>4
<1>12. w.left > 0 => \A d \in Pre(s, i) : w.plan[d] = usable(q, d)
  <2> SUFFICES ASSUME w.left > 0, NEW d \in Pre(s, i)
               PROVE  w.plan[d] = usable(q, d)
    OBVIOUS
  <2>1. v.left > 0 /\ t = usable(q, c)
    BY <1>2, <1>4, <1>5
  <2>2. CASE d = c
    BY <1>8, <2>1, <2>2
  <2>3. CASE d # c
    <3>1. d \in Pre(s, i-1) /\ d \in Chains
      BY <1>6, <2>3
    <3>2. v.plan[d] = usable(q, d)
      BY <2>1, <3>1 DEF Progress
    <3> QED BY <1>8, <2>3, <3>1, <3>2
  <2> QED BY <2>2, <2>3
<1>13. \E k \in 0..i : Prefix(w, q, s, i, k)
  <2>1. CASE v.left = 0
    <3>1. t = 0 /\ w.left = 0
      BY <1>2, <1>4, <1>5, <2>1
    <3>2. Drawing(w.plan) = Drawing(v.plan)
      BY <1>7, <1>8, <3>1 DEF Drawing
    <3>3. PICK k \in 0..(i-1) : Prefix(v, q, s, i-1, k)
      BY DEF Progress
    <3>4. Prefix(w, q, s, i, k)
      BY <3>1, <3>2, <3>3 DEF Prefix
    <3> QED BY <1>2, <3>3, <3>4
  <2>2. CASE v.left # 0
    <3>1. v.left > 0 /\ t > 0
      BY <1>2, <1>4, <2>2
    <3>2. PICK k \in 0..(i-1) : Prefix(v, q, s, i-1, k)
      BY DEF Progress
    <3>3. k = i-1 /\ Drawing(v.plan) = Pre(s, i-1)
      BY <3>1, <3>2 DEF Prefix
    <3>4. Drawing(w.plan) = Pre(s, i)
      BY <1>6, <1>8, <3>1, <3>3 DEF Drawing
    <3>5. PICK m : m = Total(v.plan, Chains)
      OBVIOUS
    <3>6. m + v.left = Need /\ m \in Nat
      <4>1. v.plan \in [Chains -> Nat] /\ IsFiniteSet(Chains)
        BY <1>2, RailsAssumption DEF Balances
      <4> QED BY <3>5, <4>1, TotalOf DEF Progress
    <3>7. m = Total(Uses(q), Pre(s, i-1))
      <4>1. /\ \A d \in Pre(s, i-1) : v.plan[d] = usable(q, d)
            /\ \A d \in Chains \ Pre(s, i-1) : v.plan[d] = 0
        BY <3>1 DEF Progress
      <4> QED BY <1>2, <1>6, <3>5, <4>1, TotalOutside
    <3>8. m < Need
      BY <1>2, <3>1, <3>6
    <3>9. Prefix(w, q, s, i, i)
      BY <3>4, <3>7, <3>8 DEF Prefix
    <3> QED BY <1>2, <3>9
  <2> QED BY <2>1, <2>2
<1>14. Progress(w, q, s, i)
  BY <1>9, <1>10, <1>11, <1>12, <1>13 DEF Progress
<1> QED BY <1>1, <1>14

\* A plan over a lineup ends where the last chain leaves it.
LEMMA PlanProgress ==
  ASSUME NEW q \in Balances, NEW n, NEW s, Lineup(s, q, n)
  PROVE  Progress(PlanOver(q, s), q, s, n)
<1>1. n \in Nat /\ s \in [1..n -> Chains]
  BY DEF Lineup
<1>2. PICK r : StepsTo(r, q, s, n)
  BY <1>1, PlanSteps
<1>. DEFINE N == {i \in Nat : i <= n => Progress(r[i], q, s, i)}
<1>3. 0 \in N
  BY <1>2, ProgressStarts DEF StepsTo
<1>4. ASSUME NEW i \in Nat, i \in N
      PROVE  i + 1 \in N
  <2> SUFFICES ASSUME i + 1 <= n
               PROVE  Progress(r[i+1], q, s, i+1)
    OBVIOUS
  <2>1. PICK j \in 1..n : j = i + 1 /\ i = j - 1
    BY <1>1
  <2>2. Progress(r[i], q, s, i)
    BY <1>1, <1>4
  <2>3. r[j] = Take(q, r[j-1], s[j])
    BY <1>2 DEF StepsTo
  <2>4. Progress(Take(q, r[j-1], s[j]), q, s, j)
    BY <2>1, <2>2, ProgressKept
  <2> QED BY <2>1, <2>3, <2>4
<1>5. n \in N
  <2> HIDE DEF N
  <2> QED BY <1>1, <1>3, <1>4, AllNat
<1> QED BY <1>1, <1>2, <1>5 DEF StepsTo

-----------------------------------------------------------------------------
(* A plan against every other allocation that Gateway accepts: if it takes   *)
(* two intents more, all its chains but the last are at least as many and,   *)
(* the preferred one aside, at least as full as those of the other, so they  *)
(* would have been enough; and they were not.                                *)

\* A sum over a set in two parts.
LEMMA TotalSub ==
  ASSUME NEW f \in Balances, NEW S \in SUBSET Chains, NEW R \in SUBSET S
  PROVE  /\ Total(f, R) \in Nat /\ Total(f, S) \in Nat
         /\ Total(f, S \ R) \in Nat
         /\ Total(f, S) = Total(f, R) + Total(f, S \ R)
         /\ Total(f, R) <= Total(f, S)
<1>1. f \in [Chains -> Nat] /\ IsFiniteSet(Chains) /\ R \in SUBSET Chains
      /\ S \ R \in SUBSET Chains
  BY RailsAssumption DEF Balances
<1>2. Total(f, S) = Total(f, R) + Total(f, S \ R)
  BY <1>1, TotalParts
<1>3. Total(f, S) \in Nat /\ Total(f, R) \in Nat /\ Total(f, S \ R) \in Nat
  BY <1>1, TotalOf
<1> QED BY <1>2, <1>3

\* In order, all chains with something to give.
Ordered(s, q, prefer, n) ==
    /\ Lineup(s, q, n)
    /\ Pre(s, n) = Room(q)
    /\ \A i, j \in 1..n : i < j => drawnBefore(q, prefer, s[i], s[j])

\* Every order planAllocations may go through is one.
LEMMA OrderIsLineup ==
  ASSUME NEW q \in Balances, NEW prefer, NEW s \in Orders(q, prefer)
  PROVE  \E n : Ordered(s, q, prefer, n)
<1>1. PICK U, n :
        /\ U = {c \in Chains : usable(q, c) > 0}
        /\ n = Cardinality(U)
  OBVIOUS
<1>2. IsFiniteSet(U) /\ n \in Nat
  BY <1>1, RailsAssumption, FS_Subset, FS_CardinalityType
<1>3. /\ s \in [1..n -> U]
      /\ \A i, j \in 1..n : i # j => s[i] # s[j]
      /\ \A i, j \in DOMAIN s : i < j => drawnBefore(q, prefer, s[i], s[j])
  BY <1>1 DEF Orders, SetToSeqs
<1>4. IsFiniteSet(1..n) /\ Cardinality(1..n) = n
  BY <1>2, FS_Interval
<1>5. s \in Injection(1..n, U)
  BY <1>3 DEF Injection, IsInjective
<1>6. s \in Surjection(1..n, U)
  BY <1>1, <1>2, <1>4, <1>5, FS_Injection
<1>7. Pre(s, n) = U
  BY <1>3, <1>6 DEF Pre, Surjection
<1>8. U = Room(q)
  BY <1>1 DEF Room, Drawing, Uses
<1>9. Lineup(s, q, n)
  BY <1>1, <1>2, <1>3 DEF Lineup
<1> QED BY <1>3, <1>7, <1>8, <1>9 DEF Ordered

\* An allocation that Gateway accepts takes from each chain what it can give.
LEMMA AcceptedFits ==
  ASSUME NEW q \in Balances, NEW a \in Accepted(q)
  PROVE  /\ a \in Balances
         /\ \A c \in Chains : a[c] <= usable(q, c)
         /\ Drawing(a) \in SUBSET Room(q)
         /\ Need <= Total(Uses(q), Drawing(a))
<1>1. a \in Balances /\ Need \in Nat /\ Fee \in Nat
  BY RailsAssumption DEF Accepted, Balances
<1>2. SumFunction(a) = Total(a, Chains)
  BY <1>1 DEF SumFunction, Total, Balances
<1>3. Total(a, Chains) = Need
  BY <1>2 DEF Accepted
<1>4. ASSUME NEW c \in Chains PROVE a[c] <= usable(q, c)
  <2>1. a[c] \in Nat /\ q[c] \in Nat
    BY <1>1 DEF Balances
  <2>2. a[c] > 0 => q[c] >= a[c] + Fee
    BY DEF Accepted
  <2> QED BY <1>1, <2>1, <2>2 DEF usable
<1>5. \A c \in Chains : /\ a[c] \in Nat /\ usable(q, c) \in Nat
                       /\ Uses(q)[c] = usable(q, c)
  BY <1>1, UsesTyped DEF Balances
<1>6. Drawing(a) \in SUBSET Room(q)
  BY <1>4, <1>5 DEF Drawing, Room
<1>7. PICK T \in SUBSET Chains, R \in SUBSET Chains :
        T = Drawing(a) /\ R = Chains \ T
  BY DEF Drawing
<1>8. \A c \in R : a[c] = 0
  BY <1>5, <1>7 DEF Drawing
<1>9. /\ a \in [Chains -> Nat] /\ Uses(q) \in [Chains -> Nat]
      /\ IsFiniteSet(Chains)
  BY <1>1, UsesTyped, RailsAssumption DEF Balances
<1>10. Total(a, R) = 0
  BY <1>8, <1>9, TotalZero
<1>11. Total(a, Chains) = Total(a, T) + Total(a, R) /\ Total(a, T) \in Nat
  BY <1>7, <1>9, TotalParts, TotalOf
<1>12. \A c \in T : a[c] <= Uses(q)[c]
  BY <1>4, <1>5
<1>13. Total(a, T) <= Total(Uses(q), T)
  BY <1>9, <1>12, TotalMonotone
<1> QED BY <1>1, <1>3, <1>4, <1>6, <1>7, <1>10, <1>11, <1>13

\* A plan is short only if no allocation is accepted: it took all there is.
LEMMA ShortIsRight ==
  ASSUME NEW q \in Balances, NEW n, NEW s, Lineup(s, q, n), Pre(s, n) = Room(q),
         NEW p, Progress(p, q, s, n), p.left > 0
  PROVE  Accepted(q) = {}
<1> SUFFICES ASSUME NEW a \in Accepted(q) PROVE FALSE
  OBVIOUS
<1>1. PICK U \in SUBSET Chains : U = Room(q)
  BY DEF Room, Drawing
<1>2. p.plan \in Balances /\ p.left \in Nat /\ Need \in Nat
  BY RailsAssumption DEF Progress, Sofar
<1>3. Total(p.plan, Chains) = Total(Uses(q), U)
  BY <1>1, <1>2, TotalOutside DEF Progress
<1>4. Uses(q) \in Balances
  BY UsesTyped
<1>5. Drawing(a) \in SUBSET U /\ Need <= Total(Uses(q), Drawing(a))
  BY <1>1, AcceptedFits
<1>6. PICK T, m, k :
        /\ T = Drawing(a) /\ T \in SUBSET U
        /\ m = Total(Uses(q), T) /\ k = Total(Uses(q), U)
  BY <1>5
<1>7. m <= k /\ m \in Nat /\ k \in Nat /\ Need <= m
  BY <1>4, <1>5, <1>6, TotalSub
<1>8. k + p.left = Need
  BY <1>3, <1>6 DEF Progress
<1> QED BY <1>2, <1>7, <1>8

\* A plan that is not short is accepted.
LEMMA WholeIsAccepted ==
  ASSUME NEW q \in Balances, NEW s, NEW n,
         NEW p, Progress(p, q, s, n), p.left = 0
  PROVE  p.plan \in Accepted(q)
<1>1. /\ p.plan \in [Chains -> Nat] /\ IsFiniteSet(Chains)
      /\ Need \in Nat /\ Fee \in Nat
  BY RailsAssumption DEF Progress, Sofar, Balances
<1>2. Total(p.plan, Chains) = Need
  <2>1. Total(p.plan, Chains) \in Nat
    BY <1>1, TotalOf
  <2> QED BY <2>1 DEF Progress
<1>3. SumFunction(p.plan) = Need
  BY <1>1, <1>2 DEF SumFunction, Total
<1>4. ASSUME NEW c \in Chains
      PROVE  /\ p.plan[c] \in 0..Need
             /\ p.plan[c] > 0 => q[c] >= p.plan[c] + Fee
  <2>1. Total(p.plan, Chains) = p.plan[c] + Total(p.plan, Chains \ {c})
    BY <1>1, TotalOf
  <2>2. Total(p.plan, Chains \ {c}) \in Nat /\ p.plan[c] \in Nat /\ q[c] \in Nat
    <3>1. Chains \ {c} \in SUBSET Chains
      OBVIOUS
    <3> QED BY <1>1, <3>1, TotalOf DEF Balances
  <2>3. p.plan[c] <= usable(q, c)
    BY DEF Progress
  <2>4. p.plan[c] <= Need
    BY <1>1, <1>2, <2>1, <2>2
  <2> QED BY <1>1, <2>2, <2>3, <2>4 DEF usable
<1> QED BY <1>1, <1>3, <1>4 DEF Accepted

\* The first k chains are k.
LEMMA PreSize ==
  ASSUME NEW q, NEW n, NEW s, Lineup(s, q, n), NEW k \in 0..n
  PROVE  /\ Pre(s, k) \in SUBSET Chains
         /\ IsFiniteSet(Pre(s, k)) /\ Cardinality(Pre(s, k)) = k
<1>. DEFINE f == [i \in 1..k |-> s[i]]
<1>1. /\ n \in Nat /\ s \in [1..n -> Chains]
      /\ \A i, j \in 1..n : i # j => s[i] # s[j]
  BY DEF Lineup
<1>2. \A i \in 1..k : i \in 1..n
  BY <1>1
<1>3. Pre(s, k) \in SUBSET Chains
  BY <1>1, <1>2 DEF Pre
<1>4. f \in Bijection(1..k, Pre(s, k))
  <2>1. f \in [1..k -> Pre(s, k)]
    BY DEF Pre
  <2>2. \A i, j \in 1..k : f[i] = f[j] => i = j
    BY <1>1, <1>2
  <2>3. \A c \in Pre(s, k) : \E i \in 1..k : f[i] = c
    BY DEF Pre
  <2> HIDE DEF f
  <2> QED BY <2>1, <2>2, <2>3 DEF Bijection, Injection, IsInjective, Surjection
<1>5. IsFiniteSet(1..k) /\ Cardinality(1..k) = k
  BY <1>1, FS_Interval
<1>6. ExistsBijection(1..k, Pre(s, k))
  BY <1>4 DEF ExistsBijection
<1> QED BY <1>3, <1>5, <1>6, FS_Bijection

\* A chain that comes later and is not preferred gives no more.
LEMMA EarlierGivesMore ==
  ASSUME NEW q \in Balances, NEW n, NEW s, NEW prefer, Ordered(s, q, prefer, n),
         NEW k \in 0..n, NEW b \in Pre(s, k) \ {prefer},
         NEW a \in Room(q) \ Pre(s, k)
  PROVE  usable(q, a) <= usable(q, b)
<1>1. n \in Nat /\ s \in [1..n -> Chains]
  BY DEF Ordered, Lineup
<1>2. PICK i \in 1..k : b = s[i]
  BY DEF Pre
<1>3. a \in Pre(s, n)
  BY DEF Ordered
<1>4. PICK j \in 1..n : a = s[j]
  BY <1>3 DEF Pre
<1>5. j \notin 1..k
  BY <1>4 DEF Pre
<1>6. i \in 1..n /\ i < j
  BY <1>1, <1>2, <1>4, <1>5
<1>7. drawnBefore(q, prefer, b, a)
  BY <1>2, <1>4, <1>6 DEF Ordered
<1>8. q[b] >= q[a]
  BY <1>7 DEF drawnBefore
<1>9. a \in Chains /\ b \in Chains /\ Fee \in Nat
  BY <1>1, <1>2, <1>4, <1>6, RailsAssumption
<1>10. q[a] \in Nat /\ q[b] \in Nat
  BY <1>9 DEF Balances
<1> QED BY <1>8, <1>9, <1>10 DEF usable

\* What a smaller set has over a larger one is no more than the larger has over
\* it, even without one element.
LEMMA CutDown ==
  ASSUME NEW T, NEW P, IsFiniteSet(T), IsFiniteSet(P), NEW x,
         Cardinality(T) < Cardinality(P)
  PROVE  Cardinality(T \ P) <= Cardinality((P \ T) \ {x})
<1>1. /\ Cardinality(T \ P) = Cardinality(T) - Cardinality(T \cap P)
      /\ Cardinality(P \ T) = Cardinality(P) - Cardinality(P \cap T)
      /\ IsFiniteSet(P \ T)
  BY FS_Difference
<1>2. P \cap T = T \cap P /\ IsFiniteSet(T \cap P)
  BY FS_Intersection
<1>3. Cardinality((P \ T) \ {x}) >= Cardinality(P \ T) - 1
  <2>1. CASE x \in P \ T
    <3>1. Cardinality((P \ T) \ {x}) = Cardinality(P \ T) - 1
      BY <1>1, <2>1, FS_RemoveElement
    <3>2. Cardinality(P \ T) \in Nat
      BY <1>1, FS_CardinalityType
    <3> QED BY <3>1, <3>2
  <2>2. CASE x \notin P \ T
    <3>1. (P \ T) \ {x} = P \ T
      BY <2>2
    <3>2. Cardinality(P \ T) \in Nat
      BY <1>1, FS_CardinalityType
    <3> QED BY <3>1, <3>2
  <2> QED BY <2>1, <2>2
<1>4. IsFiniteSet(T \ P) /\ IsFiniteSet((P \ T) \ {x})
  BY FS_Difference
<1>5. /\ Cardinality(T) \in Nat /\ Cardinality(P) \in Nat
      /\ Cardinality(T \cap P) \in Nat
      /\ Cardinality((P \ T) \ {x}) \in Nat /\ Cardinality(T \ P) \in Nat
  BY <1>2, <1>4, FS_CardinalityType
<1>6. PICK t, pp, m, d, a, b :
        /\ t = Cardinality(T) /\ pp = Cardinality(P)
        /\ m = Cardinality(T \cap P)
        /\ d = Cardinality(P \ T) /\ a = Cardinality(T \ P)
        /\ b = Cardinality((P \ T) \ {x})
  OBVIOUS
<1>7. a = t - m /\ d = pp - m /\ b >= d - 1 /\ t < pp
  BY <1>1, <1>2, <1>3, <1>6
<1>8. t \in Nat /\ pp \in Nat /\ m \in Nat /\ a \in Nat /\ b \in Nat
  BY <1>5, <1>6
<1>9. a <= b
  BY <1>7, <1>8
<1> QED BY <1>6, <1>9

\* A plan takes at most one intent more than any accepted allocation.
LEMMA PlanIsSmall ==
  ASSUME NEW q \in Balances, NEW n, NEW s, NEW prefer, Ordered(s, q, prefer, n),
         NEW p, Progress(p, q, s, n), NEW a \in Accepted(q)
  PROVE  Intended(p.plan) <= Intended(a) + 1
<1>1. PICK k \in 0..n : Prefix(p, q, s, n, k)
  BY DEF Progress
<1>2. Lineup(s, q, n) /\ n \in Nat /\ k \in Nat
  BY <1>1 DEF Ordered, Lineup
<1>3. PICK T \in SUBSET Chains : T = Drawing(a)
  BY DEF Drawing
<1>4. Intended(p.plan) = k /\ Intended(a) = Cardinality(T)
  <2>1. Cardinality(Pre(s, k)) = k
    BY <1>2, PreSize
  <2>2. Intended(p.plan) = Cardinality(Drawing(p.plan))
    BY DEF Intended, Drawing
  <2>3. Intended(a) = Cardinality(T)
    BY <1>3 DEF Intended, Drawing
  <2> QED BY <1>1, <2>1, <2>2, <2>3 DEF Prefix
<1>5. IsFiniteSet(T) /\ Cardinality(T) \in Nat /\ IsFiniteSet(Chains)
  BY RailsAssumption, FS_Subset, FS_CardinalityType
<1> SUFFICES ASSUME k > Cardinality(T) + 1 PROVE FALSE
  BY <1>2, <1>4, <1>5
<1>6. k - 1 \in 0..n /\ k > 0 /\ Cardinality(T) < k - 1
  BY <1>2, <1>5
<1>7. PICK P \in SUBSET Chains : P = Pre(s, k - 1)
  BY <1>2, <1>6, PreSize
<1>8. IsFiniteSet(P) /\ Cardinality(T) < Cardinality(P)
  BY <1>2, <1>6, <1>7, PreSize
<1>9. PICK A \in SUBSET Chains, B \in SUBSET Chains :
        A = T \ P /\ B = (P \ T) \ {prefer}
  OBVIOUS
<1>10. Cardinality(A) <= Cardinality(B)
  BY <1>5, <1>8, <1>9, CutDown
<1>11. PICK f \in Balances : f = Uses(q)
  BY UsesTyped
<1>12. ASSUME NEW x \in A, NEW y \in B PROVE f[x] <= f[y]
  <2>1. x \in Room(q) \ Pre(s, k - 1) /\ y \in Pre(s, k - 1) \ {prefer}
    BY <1>3, <1>7, <1>9, AcceptedFits
  <2>2. usable(q, x) <= usable(q, y)
    BY <1>6, <2>1, EarlierGivesMore
  <2>3. x \in Chains /\ y \in Chains
    BY <1>9
  <2> QED BY <1>11, <2>2, <2>3, UsesTyped
<1>13. f \in [Chains -> Nat]
  BY DEF Balances
<1>14. Total(f, A) <= Total(f, B)
  BY <1>5, <1>10, <1>12, <1>13, TotalExchange
<1>15. PICK C \in SUBSET Chains, E \in SUBSET Chains : C = T \cap P /\ E = P \ T
  OBVIOUS
<1>16. /\ Total(f, T) = Total(f, C) + Total(f, A)
       /\ Total(f, C) \in Nat /\ Total(f, A) \in Nat
  <2>1. C \in SUBSET T /\ T \ C = A
    BY <1>9, <1>15
  <2> QED BY ZenonT(60), <2>1, TotalSub
<1>17. /\ Total(f, P) = Total(f, C) + Total(f, E)
       /\ Total(f, E) \in Nat
  <2>1. C \in SUBSET P /\ P \ C = E
    BY <1>15
  <2> QED BY ZenonT(60), <2>1, TotalSub
<1>18. Total(f, B) <= Total(f, E) /\ Total(f, B) \in Nat
  <2>1. B \in SUBSET E
    BY <1>9, <1>15
  <2> QED BY <2>1, TotalSub
<1>19. Need <= Total(f, T) /\ Total(f, P) < Need /\ Need \in Nat
  BY <1>1, <1>3, <1>6, <1>7, <1>11, AcceptedFits, RailsAssumption DEF Prefix
<1> QED BY <1>14, <1>16, <1>17, <1>18, <1>19

\* What planAllocations promises of every plan it makes.
LEMMA PlanTaken ==
  ASSUME NEW q \in Balances, NEW prefer, NEW p \in planAllocations(q, prefer)
  PROVE  /\ p \in Sofar
         /\ p.left > 0 => Accepted(q) = {}
         /\ p.left = 0 => p.plan \in Accepted(q)
         /\ \A a \in Accepted(q) : Intended(p.plan) <= Intended(a) + 1
<1>1. PICK s \in Orders(q, prefer) : p = PlanOver(q, s)
  BY DEF planAllocations, PlanOver, Start
<1>2. PICK n : Ordered(s, q, prefer, n)
  BY OrderIsLineup
<1>3. Lineup(s, q, n) /\ Pre(s, n) = Room(q)
  BY <1>2 DEF Ordered
<1>4. Progress(p, q, s, n)
  BY <1>1, <1>3, PlanProgress
<1>5. p \in Sofar
  BY <1>4 DEF Progress
<1>6. p.left > 0 => Accepted(q) = {}
  BY <1>3, <1>4, ShortIsRight
<1>7. p.left = 0 => p.plan \in Accepted(q)
  BY <1>4, WholeIsAccepted
<1>8. \A a \in Accepted(q) : Intended(p.plan) <= Intended(a) + 1
  BY <1>2, <1>4, PlanIsSmall
<1> QED BY <1>5, <1>6, <1>7, <1>8

-----------------------------------------------------------------------------
(* The balances of the wallet and of Gateway.                                *)

\* An allocation d that Gateway would take from the balance q.
Covered(d, q) == \A c \in Chains : d[c] > 0 => q[c] >= d[c] + Fee

\* Balances are natural numbers.
MoneyTyped ==
    /\ held \in Balances /\ credited \in Balances /\ confirmed \in Balances
    /\ draw \in Balances

\* Intents that wait for the signature are covered by what Gateway has
\* confirmed: deposits only add to it, and the one spend is this one.
IntentsInv ==
    /\ ~ refused
    /\ call["deposit"].leg \in {"none", "approve", "credit"}
    /\ call["pay"].leg = "intents" => Covered(draw, confirmed)

\* A top-up that no spend has used is on one chain, whole.
TopUpInv ==
    topped => \E c \in Chains : confirmed[c] + credited[c] >= Need + Fee

MoneyInv == MoneyTyped /\ IntentsInv /\ TopUpInv

\* No draw is a balance of zeros.
LEMMA NoDrawTyped == NoDraw \in Balances
BY DEF NoDraw, Balances

\* A plan that Gateway accepts is covered.
LEMMA PlanCovered ==
  ASSUME NEW q \in Balances, NEW p \in Sofar, p.plan \in Accepted(q)
  PROVE  p.plan \in Balances /\ Covered(p.plan, q)
BY DEF Accepted, Covered, Sofar

\* A call moves, and the money stays.
LEMMA MoneyStays ==
  ASSUME WalletTyped, MoneyInv, UNCHANGED money, NEW w \in Actors,
         NEW c \in Calls, Becomes(w, c), draw' \in Balances,
         w = "deposit" =>
           c.leg \in {"none", "approve", "credit"} /\ draw' = draw,
         w = "pay" /\ c.leg = "intents" => Covered(draw', confirmed)
  PROVE  MoneyInv'
<1>1. /\ call'[w] = c /\ \A v \in Actors : v # w => call'[v] = call[v]
  BY DEF WalletTyped, Becomes
<1>2. MoneyTyped' /\ TopUpInv' /\ ~ refused'
  BY DEF MoneyInv, MoneyTyped, TopUpInv, IntentsInv, money
<1>3. call'["deposit"].leg \in {"none", "approve", "credit"}
  BY <1>1 DEF MoneyInv, IntentsInv, Actors
<1>4. call'["pay"].leg = "intents" => Covered(draw', confirmed)
  <2>1. CASE w = "pay"
    BY <1>1, <2>1
  <2>2. CASE w # "pay"
    <3>1. draw' = draw /\ call'["pay"] = call["pay"]
      BY <1>1, <2>2 DEF Actors
    <3> QED BY <3>1 DEF MoneyInv, IntentsInv
  <2> QED BY <2>1, <2>2
<1>5. Covered(draw', confirmed)  => Covered(draw, confirmed)'
  BY DEF Covered, money
<1> QED BY <1>2, <1>3, <1>4, <1>5 DEF MoneyInv, IntentsInv

\* A call ends, and the money stays.
LEMMA MoneyEnds ==
  ASSUME WalletTyped, MoneyInv, UNCHANGED money, NEW w \in Actors, End(w)
  PROVE  MoneyInv'
<1>1. Idle \in Calls /\ Idle.leg = "none" /\ Becomes(w, Idle)
  BY IdleTyped DEF Idle, End, Becomes
<1>2. draw' \in Balances /\ (w = "deposit" => draw' = draw)
  BY DEF End, MoneyInv, MoneyTyped, Balances
<1> QED BY <1>1, <1>2, MoneyStays

\* A call goes to another label, and the money stays.
LEMMA MoneyGoes ==
  ASSUME WalletTyped, MoneyInv, UNCHANGED money, NEW w \in Actors,
         NEW label \in Labels, Goto(w, label), draw' = draw
  PROVE  MoneyInv'
<1>. DEFINE c == [call[w] EXCEPT !.at = label]
<1>1. c \in Calls /\ Becomes(w, c) /\ c.leg = call[w].leg
  BY GotoIs
<1>2. /\ draw' \in Balances
      /\ w = "deposit" =>
           c.leg \in {"none", "approve", "credit"} /\ draw' = draw
      /\ w = "pay" /\ c.leg = "intents" => Covered(draw', confirmed)
  BY <1>1 DEF MoneyInv, MoneyTyped, IntentsInv
<1> HIDE DEF c
<1> QED BY <1>1, <1>2, MoneyStays

\* A button is pressed, and the money stays.
LEMMA MoneyBegins ==
  ASSUME WalletTyped, MoneyInv, UNCHANGED money, NEW w \in Actors,
         NEW c \in Calls, Begin(w, c), c.leg \in {"none", "approve"},
         draw' = draw
  PROVE  MoneyInv'
<1>1. Becomes(w, c) /\ draw' \in Balances
  BY DEF Begin, Becomes, MoneyInv, MoneyTyped
<1> QED BY <1>1, MoneyStays

\* No button moves money.
LEMMA PressKeepsMoney ==
  ASSUME WalletTyped, MoneyInv, PressPay \/ PressFinish \/ PressDeposit
  PROVE  MoneyInv'
<1>0. /\ "pay" \in Actors /\ "deposit" \in Actors
      /\ network \in Networks /\ Enabled \subseteq Chains
  BY RailsAssumption DEF Actors, WalletTyped
<1>1. CASE PressPay
  <2>1. PICK rail \in PaySources, from \in Enabled : PressPay!(rail, from)
    BY <1>1 DEF PressPay
  <2> DEFINE c == [rail |-> rail, from |-> from, seen |-> network,
                   leg |-> IF rail = "bridge" THEN "approve" ELSE "none",
                   at |-> CASE rail = "arc"     -> "auth"
                            [] rail = "unified" -> "quote"
                            [] rail = "bridge"  -> "check"]
  <2>2. Begin("pay", c) /\ UNCHANGED money /\ draw' = draw
    BY <2>1
  <2>3. c.at \in {"auth", "quote", "check"} /\ c.leg \in {"approve", "none"}
    BY DEF PaySources
  <2>4. c \in Calls
    BY <1>0, <2>3 DEF Calls, Labels, Legs
  <2> HIDE DEF c
  <2> QED BY <1>0, <2>2, <2>3, <2>4, MoneyBegins
<1>2. CASE PressFinish
  <2> DEFINE c == [Idle EXCEPT !.at = "auth", !.seen = network]
  <2>1. Begin("pay", c) /\ UNCHANGED money /\ draw' = draw
    BY <1>2 DEF PressFinish
  <2>2. c \in Calls /\ c.leg = "none"
    BY <1>0, IdleTyped DEF Idle, Calls, Labels
  <2> HIDE DEF c
  <2> QED BY <1>0, <2>1, <2>2, MoneyBegins
<1>3. CASE PressDeposit
  <2>1. PICK from \in Enabled : PressDeposit!(from)
    BY <1>3 DEF PressDeposit
  <2> DEFINE c == [rail |-> "unified", from |-> from, at |-> "check",
                   leg |-> "approve", seen |-> network]
  <2>2. Begin("deposit", c) /\ UNCHANGED money /\ draw' = draw
    BY <2>1
  <2>3. c \in Calls /\ c.leg = "approve"
    BY <1>0 DEF Calls, Labels, Legs, PaySources
  <2> HIDE DEF c
  <2> QED BY <1>0, <2>2, <2>3, MoneyBegins
<1> QED BY <1>1, <1>2, <1>3

\* The plan is covered by the balance it was made of.
LEMMA QuoteKeepsMoney ==
  ASSUME WalletTyped, MoneyInv, Quote
  PROVE  MoneyInv'
<1>0. "pay" \in Actors /\ UNCHANGED money /\ confirmed \in Balances
  BY DEF Quote, Actors, MoneyInv, MoneyTyped
<1>1. CASE End("pay")
  BY <1>0, <1>1, MoneyEnds
<1>2. ASSUME NEW p \in planAllocations(confirmed, call["pay"].from),
             ~ (p.left > 0), Onward("pay", "check", "intents"), draw' = p.plan
      PROVE  MoneyInv'
  <2>1. p \in Sofar /\ p.left = 0 /\ p.plan \in Accepted(confirmed)
    <3>1. p \in Sofar
      BY <1>0, PlanTaken
    <3>2. p.left \in Nat
      BY <3>1 DEF Sofar
    <3>3. p.left = 0
      BY <1>2, <3>2
    <3> QED BY <1>0, <3>1, <3>3, PlanTaken
  <2>2. draw' \in Balances /\ Covered(draw', confirmed)
    BY <1>0, <1>2, <2>1, PlanCovered
  <2>3. PICK c \in Calls :
          c = Further("pay", "check", "intents") /\ Becomes("pay", c)
    BY <1>0, <1>2, OnwardIs DEF Labels, Legs
  <2> QED BY <1>0, <2>2, <2>3, MoneyStays
<1> QED BY <1>1, <1>2 DEF Quote, Fail, Onward

\* A request that was forwarded: the money of one chain changes, or the intents
\* are taken, as they are covered.
LEMMA ForwardKeepsMoney ==
  ASSUME WalletTyped, MoneyInv, NEW w \in Actors, Forward(w)
  PROVE  MoneyInv'
<1>0. /\ held \in Balances /\ credited \in Balances /\ confirmed \in Balances
      /\ draw \in Balances /\ Need \in Nat /\ Fee \in Nat
      /\ call[w].from \in Chains
  BY RailsAssumption DEF MoneyInv, MoneyTyped, WalletTyped, Calls
<1>1. ASSUME UNCHANGED money, End(w) PROVE MoneyInv'
  BY <1>1, MoneyEnds
<1>2. ASSUME NEW label \in {"check", "refresh"}, NEW leg \in Legs,
             Onward(w, label, leg)
      PROVE  /\ call'[w].leg = leg
             /\ \A v \in Actors : v # w => call'[v] = call[v]
  BY <1>2 DEF Onward, WalletTyped, Calls
<1>3. CASE Approve(w)
  <2>1. PICK leg \in {"burn", "credit"} :
          /\ Onward(w, "check", leg)
          /\ w = "deposit" => leg = "credit"
    BY <1>3 DEF Approve
  <2>2. "check" \in Labels /\ leg \in Legs
    BY DEF Labels, Legs
  <2>3. PICK c : c = Further(w, "check", leg)
    OBVIOUS
  <2>4. c \in Calls /\ c.leg = leg /\ Becomes(w, c)
    BY <2>1, <2>2, <2>3, OnwardIs
  <2>5. UNCHANGED money /\ draw' \in Balances /\ draw' = draw
    BY <1>0, <1>3 DEF Approve
  <2>6. /\ c.leg # "intents"
        /\ w = "deposit" => c.leg \in {"none", "approve", "credit"}
    BY <2>1, <2>4
  <2> QED BY <2>4, <2>5, <2>6, MoneyStays
<1>4. CASE Credit(w)
  <2>1. PICK f, h, k :
          /\ f \in Chains /\ f = call[w].from /\ h = held[f] /\ k = credited[f]
          /\ h \in Nat /\ k \in Nat /\ h >= Need + Fee
          /\ held' = [held EXCEPT ![f] = h - (Need + Fee)]
          /\ credited' = [credited EXCEPT ![f] = k + (Need + Fee)]
    BY <1>0, <1>4 DEF Credit, topUp, Balances
  <2>2. h - (Need + Fee) \in Nat /\ k + (Need + Fee) \in Nat
    BY <1>0, <2>1
  <2>3. held' \in Balances /\ credited' \in Balances
    BY <1>0, <2>1, <2>2 DEF Balances
  <2>4. confirmed'[f] + credited'[f] >= Need + Fee
    <3>1. /\ credited'[f] = k + (Need + Fee)
          /\ confirmed'[f] = confirmed[f] /\ confirmed[f] \in Nat
      BY <1>0, <1>4, <2>1 DEF Credit, Balances
    <3> QED BY <1>0, <2>1, <3>1
  <2>5. Onward(w, "refresh", "none") /\ UNCHANGED <<confirmed, refused, draw>>
    BY <1>4 DEF Credit
  <2>6. call'[w].leg = "none" /\ \A v \in Actors : v # w => call'[v] = call[v]
    BY <1>2, <2>5 DEF Legs
  <2>7. MoneyTyped' /\ TopUpInv'
    BY <1>0, <2>1, <2>3, <2>4, <2>5 DEF MoneyTyped, TopUpInv
  <2>8. IntentsInv'
    BY <2>5, <2>6 DEF MoneyInv, IntentsInv, Actors, Covered
  <2> QED BY <2>7, <2>8 DEF MoneyInv
<1>5. CASE Burn(w)
  <2>1. PICK f, h :
          /\ f \in Chains /\ f = call[w].from /\ h = held[f] /\ h \in Nat /\ h >= Need
          /\ held' = [held EXCEPT ![f] = h - Need]
    BY <1>0, <1>5 DEF Burn, Balances
  <2>2. held' \in Balances
    <3>1. h - Need \in Nat
      BY <1>0, <2>1
    <3> QED BY <1>0, <2>1, <3>1 DEF Balances
  <2>3. /\ Onward(w, "check", "mint") /\ call[w].leg = "burn"
        /\ UNCHANGED <<credited, confirmed, topped, refused, draw>>
    BY <1>5 DEF Burn
  <2>4. call'[w].leg = "mint" /\ \A v \in Actors : v # w => call'[v] = call[v]
    BY <1>2, <2>3 DEF Legs
  <2>5. w = "pay"
    BY <2>3 DEF MoneyInv, IntentsInv, Actors
  <2>6. MoneyTyped' /\ TopUpInv'
    BY <1>0, <2>2, <2>3 DEF MoneyInv, MoneyTyped, TopUpInv
  <2>7. IntentsInv'
    BY <2>3, <2>4, <2>5 DEF MoneyInv, IntentsInv, Actors
  <2> QED BY <2>6, <2>7 DEF MoneyInv
<1>6. CASE Revert(w)
  BY <1>1, <1>6 DEF Revert, Fail
<1>7. CASE Intents(w)
  <2>1. w = "pay" /\ call["pay"].leg = "intents"
    BY <1>7 DEF Intents, MoneyInv, IntentsInv, Actors
  <2>2. \A c \in Chains : draw[c] > 0 => confirmed[c] >= draw[c] + Fee
    BY <2>1 DEF MoneyInv, IntentsInv, Covered
  <2>3. /\ confirmed' = [c \in Chains |-> IF c \in Drawn
                                            THEN confirmed[c] - draw[c] - Fee
                                            ELSE confirmed[c]]
        /\ topped' = FALSE
        /\ Onward(w, "check", "mint")
        /\ UNCHANGED <<refused, draw, held, credited>>
    BY <1>7, <2>2 DEF Intents, Drawn
  <2>4. confirmed' \in Balances
    <3>1. ASSUME NEW c \in Chains, c \in Drawn
          PROVE  confirmed[c] - draw[c] - Fee \in Nat
      <4>1. /\ confirmed[c] \in Nat /\ draw[c] \in Nat
            /\ confirmed[c] >= draw[c] + Fee
        BY <1>0, <2>2, <3>1 DEF Drawn, Balances
      <4> QED BY <1>0, <4>1
    <3>2. \A c \in Chains : confirmed[c] \in Nat
      BY <1>0 DEF Balances
    <3> QED BY <2>3, <3>1, <3>2 DEF Balances
  <2>5. call'[w].leg = "mint" /\ \A v \in Actors : v # w => call'[v] = call[v]
    BY <1>2, <2>3 DEF Legs
  <2>6. MoneyTyped' /\ TopUpInv'
    BY <1>0, <2>3, <2>4 DEF MoneyTyped, TopUpInv
  <2>7. IntentsInv'
    BY <2>1, <2>3, <2>5 DEF MoneyInv, IntentsInv, Actors
  <2> QED BY <2>6, <2>7 DEF MoneyInv
<1>8. CASE Mint(w)
  <2>1. /\ Onward(w, "refresh", "none")
        /\ UNCHANGED <<held, credited, confirmed, topped, refused, draw>>
    BY <1>8 DEF Mint
  <2>2. call'[w].leg = "none" /\ \A v \in Actors : v # w => call'[v] = call[v]
    BY <1>2, <2>1 DEF Legs
  <2>3. MoneyTyped' /\ TopUpInv'
    BY <2>1 DEF MoneyInv, MoneyTyped, TopUpInv
  <2>4. IntentsInv'
    BY <2>1, <2>2 DEF MoneyInv, IntentsInv, Actors, Covered
  <2> QED BY <2>3, <2>4 DEF MoneyInv
<1>9. CASE Declined(w)
  BY <1>1, <1>9 DEF Declined, Fail
<1>10. CASE Fail(w) /\ UNCHANGED <<money, wallet, shown, short, overlapped>>
  BY <1>1, <1>10 DEF Fail
<1> QED BY <1>3, <1>4, <1>5, <1>6, <1>7, <1>8, <1>9, <1>10 DEF Forward

\* ensureChain and the reads after a transfer move no money.
LEMMA RequestKeepsMoney ==
  ASSUME WalletTyped, MoneyInv, NEW w \in Actors, Request(w)
  PROVE  MoneyInv'
<1> USE DEF Labels
<1>1. ASSUME NEW label \in Labels, Pinning(w, label) PROVE MoneyInv'
  BY <1>1, MoneyGoes DEF Pinning
<1>2. ASSUME Declined(w) PROVE MoneyInv'
  BY <1>2, MoneyEnds DEF Declined, Fail
<1>3. CASE Check(w)
  BY <1>1, <1>3 DEF Check
<1>4. CASE Switch(w)
  BY <1>1, <1>2, <1>4 DEF Switch
<1>5. CASE Add(w)
  BY <1>1, <1>2, <1>5 DEF Add, Added
<1>6. CASE Recheck(w)
  BY <1>1, <1>6 DEF Recheck
<1>7. CASE Reswitch(w)
  BY <1>1, <1>2, <1>7 DEF Reswitch
<1>8. CASE Refresh(w)
  <2>1. CASE w = "pay"
    BY <1>8, <2>1, MoneyGoes DEF Refresh
  <2>2. CASE w # "pay"
    BY <1>8, <2>2, MoneyEnds DEF Refresh
  <2> QED BY <2>1, <2>2
<1> QED BY <1>3, <1>4, <1>5, <1>6, <1>7, <1>8, ForwardKeepsMoney DEF Request

\* What Gateway confirms it had on its way to that chain.
LEMMA ConfirmKeepsMoney ==
  ASSUME MoneyInv, NEW c \in Chains, Confirm(c)
  PROVE  MoneyInv'
<1>0. /\ held \in Balances /\ credited \in Balances /\ confirmed \in Balances
      /\ draw \in Balances /\ Need \in Nat /\ Fee \in Nat
  BY RailsAssumption DEF MoneyInv, MoneyTyped
<1>1. PICK q, k : /\ q = confirmed[c] /\ k = credited[c]
                  /\ q \in Nat /\ k \in Nat
                  /\ confirmed' = [confirmed EXCEPT ![c] = q + k]
                  /\ credited' = [credited EXCEPT ![c] = 0]
                  /\ UNCHANGED <<held, topped, refused, call, draw>>
  BY <1>0 DEF Confirm, Balances
<1>2. confirmed' \in Balances /\ credited' \in Balances
  <2>1. q + k \in Nat
    BY <1>1
  <2> QED BY <1>0, <1>1, <2>1 DEF Balances
<1>3. ASSUME NEW d \in Chains
      PROVE  /\ confirmed'[d] >= confirmed[d]
             /\ confirmed'[d] + credited'[d] = confirmed[d] + credited[d]
             /\ confirmed[d] \in Nat /\ confirmed'[d] \in Nat /\ draw[d] \in Nat
  <2>1. confirmed[d] \in Nat /\ credited[d] \in Nat /\ draw[d] \in Nat
    BY <1>0 DEF Balances
  <2>2. CASE d = c
    <3>1. /\ confirmed'[d] = q + k /\ credited'[d] = 0
          /\ confirmed[d] = q /\ credited[d] = k
      BY <1>0, <1>1, <2>2 DEF Balances
    <3> QED BY <1>1, <2>1, <3>1
  <2>3. CASE d # c
    <3>1. confirmed'[d] = confirmed[d] /\ credited'[d] = credited[d]
      BY <1>0, <1>1, <2>3 DEF Balances
    <3> QED BY <2>1, <3>1
  <2> QED BY <2>2, <2>3
<1>4. MoneyTyped'
  BY <1>0, <1>1, <1>2 DEF MoneyTyped
<1>5. TopUpInv'
  BY <1>1, <1>3 DEF MoneyInv, TopUpInv
<1>6. Covered(draw, confirmed) => Covered(draw, confirmed)'
  <2> SUFFICES ASSUME Covered(draw, confirmed), NEW d \in Chains, draw[d] > 0
               PROVE  confirmed'[d] >= draw[d] + Fee
    BY <1>1 DEF Covered
  <2>1. confirmed[d] >= draw[d] + Fee
    BY DEF Covered
  <2> QED BY <1>0, <1>3, <2>1
<1>7. IntentsInv'
  BY <1>1, <1>6 DEF MoneyInv, IntentsInv
<1> QED BY <1>4, <1>5, <1>7 DEF MoneyInv

\* Every scene begins so.
LEMMA MoneyStarts == Init => MoneyInv
<1> SUFFICES ASSUME Init PROVE MoneyInv
  OBVIOUS
<1>1. MoneyTyped
  BY RailsAssumption, NoDrawTyped DEF Init, Wallet, MoneyTyped
<1>2. Idle.leg = "none"
  BY DEF Idle
<1> QED BY <1>1, <1>2 DEF Init, MoneyInv, IntentsInv, TopUpInv, Actors

\* And every step keeps it.
LEMMA MoneyKept == WalletTyped /\ MoneyInv /\ [Next]_vars => MoneyInv'
<1> SUFFICES ASSUME WalletTyped, MoneyInv, [Next]_vars PROVE MoneyInv'
  OBVIOUS
<1>1. ASSUME UNCHANGED <<money, call, draw>> PROVE MoneyInv'
  BY <1>1 DEF MoneyInv, MoneyTyped, IntentsInv, TopUpInv, Covered, money
<1>2. CASE PressPay \/ PressFinish \/ PressDeposit
  BY <1>2, PressKeepsMoney
<1>3. CASE Quote
  BY <1>3, QuoteKeepsMoney
<1>4. CASE Auth
  <2>1. "pay" \in Actors /\ "sign" \in Labels
    BY DEF Actors, Labels
  <2>2. CASE Pinning("pay", "sign")
    BY <2>1, <2>2, MoneyGoes DEF Pinning
  <2>3. CASE Declined("pay")
    BY <2>1, <2>3, MoneyEnds DEF Declined, Fail
  <2> QED BY <1>4, <2>2, <2>3 DEF Auth
<1>5. CASE Sign
  <2>1. "pay" \in Actors /\ End("pay") /\ UNCHANGED money
    BY <1>5 DEF Sign, Fail, Actors
  <2> QED BY <2>1, MoneyEnds
<1>6. CASE Reopen
  BY <1>1, <1>6 DEF Reopen
<1>7. ASSUME NEW w \in Actors, Request(w) PROVE MoneyInv'
  BY <1>7, RequestKeepsMoney
<1>8. ASSUME NEW c \in Chains, Confirm(c) PROVE MoneyInv'
  BY <1>8, ConfirmKeepsMoney
<1>9. ASSUME NEW n \in Networks, UserSwitches(n) PROVE MoneyInv'
  BY <1>1, <1>9 DEF UserSwitches
<1>10. CASE UNCHANGED vars
  BY <1>1, <1>10 DEF vars
<1> QED BY <1>2, <1>3, <1>4, <1>5, <1>6, <1>7, <1>8, <1>9, <1>10 DEF Next

\* The inductive invariant of the balances: no step that is not the spend itself
\* takes from what its intents were planned over.
THEOREM MoneyIsCovered == Spec => []MoneyInv
<1>1. MoneyInv /\ WalletInv /\ [Next]_vars => MoneyInv'
  BY MoneyKept DEF WalletInv
<1> QED BY <1>1, MoneyStarts, AloneIsPlaced, PTL DEF Spec

\* planAllocations and walletSpendToArc: Gateway refuses no intent of a plan,
\* whatever runs between the read of the balance and the spend.
THEOREM IntentsAreAccepted == Spec => []SpendIsAccepted
<1>1. MoneyInv => SpendIsAccepted
  BY DEF MoneyInv, IntentsInv, SpendIsAccepted
<1> QED BY <1>1, MoneyIsCovered, PTL

\* The whole order from one chain.
LEMMA OneChainSuffices ==
  ASSUME NEW q \in Balances, NEW c \in Chains, q[c] >= Need + Fee
  PROVE  Accepted(q) # {}
<1>1. Need \in Nat /\ Fee \in Nat
  BY RailsAssumption
<1>2. PICK p : p = [NoDraw EXCEPT ![c] = Need]
  OBVIOUS
<1>3. NoDraw \in Balances /\ \A d \in Chains : NoDraw[d] = 0
  BY NoDrawTyped DEF NoDraw
<1>4. p \in Balances /\ Total(p, Chains) = Need + Total(NoDraw, Chains)
  BY <1>1, <1>2, <1>3, TotalDraw
<1>5. Total(NoDraw, Chains) = 0
  <2>1. NoDraw \in [Chains -> Nat] /\ IsFiniteSet(Chains)
    BY <1>3, RailsAssumption DEF Balances
  <2> QED BY <1>3, <2>1, TotalZero
<1>6. SumFunction(p) = Need
  <2>1. SumFunction(p) = Total(p, Chains)
    BY <1>4 DEF SumFunction, Total, Balances
  <2> QED BY <1>1, <1>4, <1>5, <2>1
<1>7. \A d \in Chains : p[d] = IF d = c THEN Need ELSE 0
  BY <1>2, <1>3 DEF NoDraw
<1>8. p \in [Chains -> 0..Need]
  BY <1>1, <1>4, <1>7 DEF Balances
<1>9. \A d \in Chains : p[d] > 0 => q[d] >= p[d] + Fee
  BY <1>7
<1>10. p \in Accepted(q)
  BY <1>6, <1>8, <1>9 DEF Accepted
<1> QED BY <1>10

\* The top-up button: what is deposited pays for the order once it is confirmed,
\* until a spend has used it.
THEOREM TopUpPays == Spec => []TopUpSuffices
<1>1. MoneyInv => TopUpSuffices
  <2> SUFFICES ASSUME MoneyInv, topped
               PROVE  Accepted([c \in Chains |->
                                  confirmed[c] + credited[c]]) # {}
    BY DEF TopUpSuffices
  <2>1. PICK c \in Chains : confirmed[c] + credited[c] >= Need + Fee
    BY DEF MoneyInv, TopUpInv
  <2>2. PICK q : q = [d \in Chains |-> confirmed[d] + credited[d]]
    OBVIOUS
  <2>3. ASSUME NEW d \in Chains PROVE confirmed[d] + credited[d] \in Nat
    <3>1. confirmed[d] \in Nat /\ credited[d] \in Nat
      BY DEF MoneyInv, MoneyTyped, Balances
    <3> QED BY <3>1
  <2>4. q \in Balances /\ q[c] >= Need + Fee
    BY <2>1, <2>2, <2>3 DEF Balances
  <2> QED BY <2>2, <2>4, OneChainSuffices
<1> QED BY <1>1, MoneyIsCovered, PTL

-----------------------------------------------------------------------------
\* No other step makes a plan or refuses one.
LEMMA OnlyQuotePlans ==
  ASSUME [Next]_vars, ~ Quote
  PROVE  draw' \in {draw, NoDraw} /\ short' \in {short, FALSE}
<1>1. ASSUME NEW w, End(w) PROVE draw' \in {draw, NoDraw}
  BY <1>1 DEF End, NoDraw
<1>2. CASE PressPay \/ PressFinish \/ PressDeposit
  BY <1>2 DEF PressPay, PressFinish, PressDeposit
<1>3. CASE Auth
  BY <1>1, <1>3 DEF Auth, Pinning, Declined, Fail
<1>4. CASE Sign
  BY <1>1, <1>4 DEF Sign, Fail
<1>5. CASE Reopen
  BY <1>5 DEF Reopen
<1>6. ASSUME NEW w \in Actors, Request(w)
      PROVE  draw' \in {draw, NoDraw} /\ short' \in {short, FALSE}
  <2>1. ASSUME NEW label, Pinning(w, label)
        PROVE  draw' = draw /\ short' = short
    BY <2>1 DEF Pinning
  <2>2. ASSUME Declined(w)
        PROVE  draw' \in {draw, NoDraw} /\ short' = short
    BY <1>1, <2>2 DEF Declined, Fail
  <2>3. CASE Check(w) \/ Switch(w) \/ Add(w) \/ Recheck(w) \/ Reswitch(w)
    BY <2>1, <2>2, <2>3 DEF Check, Switch, Add, Added, Recheck, Reswitch
  <2>4. CASE Refresh(w)
    BY <1>1, <2>4 DEF Refresh
  <2>5. CASE Forward(w)
    <3>1. CASE Approve(w) \/ Credit(w) \/ Burn(w) \/ Mint(w)
      <4>1. draw' = draw
        BY <3>1 DEF Approve, Credit, Burn, Mint
      <4>2. call[w].leg \in {"approve", "credit", "burn", "mint"}
        BY <3>1 DEF Approve, Credit, Burn, Mint
      <4>3. short' = short
        BY <2>2, <2>5 DEF Forward
      <4> QED BY <4>1, <4>3
    <3>2. CASE Revert(w) \/ Intents(w)
      <4>1. draw' \in {draw, NoDraw}
        BY <1>1, <3>2 DEF Revert, Intents, Fail
      <4>2. short' = short
        BY <2>2, <2>5 DEF Forward
      <4> QED BY <4>1, <4>2
    <3>3. CASE Declined(w)
      BY <2>2, <3>3
    <3>4. CASE Fail(w) /\ UNCHANGED <<money, wallet, shown, short, overlapped>>
      BY <1>1, <3>4 DEF Fail
    <3> QED BY <2>5, <3>1, <3>2, <3>3, <3>4 DEF Forward
  <2> QED BY <1>6, <2>3, <2>4, <2>5 DEF Request
<1>7. ASSUME NEW c \in Chains, Confirm(c) PROVE draw' = draw /\ short' = short
  BY <1>7 DEF Confirm
<1>8. ASSUME NEW n \in Networks, UserSwitches(n)
      PROVE  draw' = draw /\ short' = short
  BY <1>8 DEF UserSwitches
<1>9. CASE UNCHANGED vars
  BY <1>9 DEF vars
<1> QED BY <1>2, <1>3, <1>4, <1>5, <1>6, <1>7, <1>8, <1>9 DEF Next

\* What PlanIsRight says of one step.
PlanStep ==
    /\ draw = NoDraw /\ draw' # NoDraw =>
             /\ draw' \in Accepted(confirmed)
             /\ \A p \in Accepted(confirmed) :
                  Intended(draw') <= Intended(p) + 1
    /\ ~ short /\ short' => Accepted(confirmed) = {}

\* A quote makes a right plan.
LEMMA QuotePlans ==
  ASSUME MoneyInv, Quote
  PROVE  PlanStep
<1>1. confirmed \in Balances
  BY DEF MoneyInv, MoneyTyped
<1>2. ASSUME NEW p \in planAllocations(confirmed, call["pay"].from),
             p.left > 0, End("pay"), short' = TRUE
      PROVE  PlanStep
  <2>1. draw' = NoDraw
    BY <1>2 DEF End, NoDraw
  <2>2. Accepted(confirmed) = {}
    BY <1>1, <1>2, PlanTaken
  <2> QED BY <2>1, <2>2 DEF PlanStep
<1>3. ASSUME NEW p \in planAllocations(confirmed, call["pay"].from),
             ~ (p.left > 0), draw' = p.plan, short' = short
      PROVE  PlanStep
  <2>1. p \in Sofar
    BY <1>1, PlanTaken
  <2>2. p.left \in Nat
    BY <2>1 DEF Sofar
  <2>3. p.left = 0
    BY <1>3, <2>2
  <2>4. /\ p.plan \in Accepted(confirmed)
        /\ \A a \in Accepted(confirmed) : Intended(p.plan) <= Intended(a) + 1
    BY <1>1, <2>3, PlanTaken
  <2> QED BY <1>3, <2>4 DEF PlanStep
<1>4. CASE End("pay") /\ short' = short
  <2>1. draw' = NoDraw
    BY <1>4 DEF End, NoDraw
  <2> QED BY <1>4, <2>1 DEF PlanStep
<1> QED BY <1>2, <1>3, <1>4 DEF Quote, Fail

\* planAllocations: a plan is the whole amount, takes at most one intent more
\* than the cheapest accepted allocation, and is refused only if there is none.
THEOREM PlansAreRight == Spec => PlanIsRight
<1>1. MoneyInv /\ [Next]_vars => [PlanStep]_vars
  <2> SUFFICES ASSUME MoneyInv, [Next]_vars PROVE PlanStep
    OBVIOUS
  <2>1. CASE Quote
    BY <2>1, QuotePlans
  <2>2. CASE ~ Quote
    <3>1. draw' \in {draw, NoDraw} /\ short' \in {short, FALSE}
      BY <2>2, OnlyQuotePlans
    <3>2. ~ (draw = NoDraw /\ draw' # NoDraw)
      BY <3>1
    <3>3. ~ (~ short /\ short')
      BY <3>1, Zenon
    <3> QED BY <3>2, <3>3 DEF PlanStep
  <2> QED BY <2>1, <2>2
<1>2. PlanIsRight <=> [][PlanStep]_vars
  BY PTL DEF PlanIsRight, PlanStep
<1> QED BY <1>1, <1>2, MoneyIsCovered, PTL DEF Spec
=============================================================================
