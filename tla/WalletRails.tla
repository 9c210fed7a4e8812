---------------------------- MODULE WalletRails ----------------------------
(***************************************************************************)
(* A browser wallet that pays for one order: demo/app/wallet-rails.ts, the  *)
(* buyer's panel that calls it, and src/funding/unified-balance.ts, which   *)
(* decides which chains a Gateway spend draws from.                         *)
(*                                                                         *)
(* The wallet is one object on one network.  A call is a sequence of        *)
(* requests to it, each pinned to a chain: pinnedTo asks where the wallet   *)
(* is, has it moved if need be, and forwards the request.  Every question   *)
(* and every prompt is an await, so each is an action.  The panel runs at   *)
(* most one payment and one deposit at a time, but both at once.            *)
(*                                                                         *)
(* What the payment's rows and the order's state go through is Checkout's;  *)
(* here are the networks and the balances.                                  *)
(***************************************************************************)
EXTENDS Naturals, FiniteSets, Functions, SequencesExt

CONSTANTS
    Chains,     \* source chains that may hold USDC
    Enabled,    \* those the picker lets the payer choose
    Arc,        \* the chain orders are paid on
    Need,       \* what the order takes
    Fee,        \* what Gateway charges on top of every burn intent
    Scenes      \* where a wallet may begin: held, confirmed, arc, known,
                \* network

Networks == Chains \cup {Arc}
Balances == [Chains -> Nat]

ASSUME RailsAssumption ==
    /\ Enabled \subseteq Chains
    /\ Enabled # {}
    /\ Arc \notin Chains
    /\ IsFiniteSet(Chains)
    /\ Need \in Nat \ {0}
    /\ Fee \in Nat
    /\ \A s \in Scenes : /\ s.held \in Balances
                         /\ s.confirmed \in Balances
                         /\ s.arc \in Nat
                         /\ s.known \in SUBSET Networks
                         /\ s.network \in s.known

VARIABLES
    held,       \* the wallet's USDC on each source chain
    credited,   \* deposits that Gateway has not confirmed yet
    confirmed,  \* Gateway's confirmed balance by chain
    arc,        \* the wallet's USDC on Arc
    network,    \* the chain the wallet is on
    known,      \* the chains the wallet has been told of
    shown,      \* the balances the panel last read
    order,      \* what the panel offers to do about the order
    call,       \* the payment and the deposit in flight
    draw,       \* the burn intents of the payment's plan
    short,      \* the last plan was refused as short
    topped,     \* a deposit has landed that no spend has used yet
    refused,    \* Gateway refused an intent
    misplaced,  \* a request met the wallet on another chain than its own
    overlapped  \* a call was not alone with the wallet

money  == <<held, credited, confirmed, arc, topped, refused>>
wallet == <<network, known>>
ghosts == <<misplaced, overlapped>>
vars   == <<money, wallet, shown, order, call, draw, short, ghosts>>

-----------------------------------------------------------------------------

Actors == {"pay", "deposit"}
PaySources == {"arc", "unified", "bridge"}
Legs == {"none", "approve", "credit", "burn", "intents", "mint"}
Labels == {"idle", "quote", "check", "switch", "add", "recheck", "reswitch",
           "forward", "refresh", "auth", "sign"}

\* seen: the chain the wallet was on when the button was rendered.
Calls == [at : Labels, rail : PaySources, from : Chains, leg : Legs,
          seen : Networks]

Idle == [at |-> "idle", rail |-> "arc", from |-> CHOOSE c \in Chains : TRUE,
         leg |-> "none", seen |-> Arc]

At(w, label) == call[w].at = label
Busy(w) == ~ At(w, "idle")
Other(w) == CHOOSE v \in Actors : v # w
Goto(w, label) == call' = [call EXCEPT ![w].at = label]
Begin(w, c) ==
    /\ call' = [call EXCEPT ![w] = c]
    /\ overlapped' = (overlapped \/ Busy(Other(w)))
    /\ UNCHANGED misplaced

\* The catch of the panel.  A failure after the burn marks the order as being
\* funded, unless its code is that of a prompt declined, which is taken for a
\* transfer that never began; any other leaves it payable.
End(w) ==
    /\ call' = [call EXCEPT ![w] = Idle]
    /\ draw' = IF w = "pay" THEN [c \in Chains |-> 0] ELSE draw
Fail(w) ==
    /\ End(w)
    /\ order' \in {order} \cup (IF call[w].leg = "mint" THEN {"in flight"} ELSE {})

\* Both sides of a transfer are views of the one wallet: the mint's is pinned
\* to Arc, every other one to the chain the payer picked.
pinOf(w) == IF call[w].leg = "mint" THEN Arc ELSE call[w].from
OnPin(w) == network = pinOf(w)

-----------------------------------------------------------------------------
(* planAllocations.                                                        *)

NoDraw == [c \in Chains |-> 0]

\* What a chain can give: each keeps the fee of its own intent back.
\* Mutant: the fee comes out of the burn.
usable_NoFee(q, c) == q[c]
usable(q, c) == IF q[c] > Fee THEN q[c] - Fee ELSE 0

\* Preferred first, then the largest; equal balances in any order.
\* Mutant: the smallest first.
drawnBefore_Smallest(q, prefer, c, d) ==
    c = prefer \/ (d # prefer /\ q[c] <= q[d])
drawnBefore(q, prefer, c, d) ==
    c = prefer \/ (d # prefer /\ q[c] >= q[d])

Orders(q, prefer) ==
    {s \in SetToSeqs({c \in Chains : usable(q, c) > 0}) :
       \A i, j \in DOMAIN s : i < j => drawnBefore(q, prefer, s[i], s[j])}

Take(q, sofar, c) ==
    LET take == IF usable(q, c) < sofar.left THEN usable(q, c) ELSE sofar.left
    IN  [plan |-> [sofar.plan EXCEPT ![c] = take], left |-> sofar.left - take]

planAllocations(q, prefer) ==
    {FoldLeft(LAMBDA sofar, c : Take(q, sofar, c),
              [plan |-> NoDraw, left |-> Need], s) : s \in Orders(q, prefer)}

-----------------------------------------------------------------------------
(* The panel.                                                              *)

\* loadWalletRails: a balance that cannot be read is shown as none.
Read == [gw : {SumFunction(confirmed), 0}, src : {held, NoDraw}]

\* railEnough.  The panel follows the balance on Arc by itself.
enough(rail, from) ==
    CASE rail = "arc"     -> arc >= Need
      [] rail = "unified" -> shown.gw >= Need + Fee
      [] rail = "bridge"  -> shown.src[from] >= Need

PressPay ==
    \E rail \in PaySources, from \in Enabled :
        /\ ~ Busy("pay") /\ order = "payable" /\ enough(rail, from)
        /\ Begin("pay", [rail |-> rail, from |-> from, seen |-> network,
                         leg |-> IF rail = "bridge" THEN "approve" ELSE "none",
                         at |-> CASE rail = "arc"     -> "auth"
                                  [] rail = "unified" -> "quote"
                                  [] rail = "bridge"  -> "check"])
        /\ short' = FALSE
        /\ UNCHANGED <<money, wallet, shown, order, draw>>

\* "Finish payment": the transfer is on record, the signature is missing.
PressFinish ==
    /\ ~ Busy("pay") /\ order = "landed"
    /\ Begin("pay", [Idle EXCEPT !.at = "auth", !.seen = network])
    /\ UNCHANGED <<money, wallet, shown, order, draw, short>>

\* Mutant: the top-up is what the order takes.
topUp_NoFee == Need
topUp == Need + Fee

PressDeposit ==
    \E from \in Enabled :
        /\ ~ Busy("pay") /\ ~ Busy("deposit") /\ order = "payable"
        /\ shown.gw < Need + Fee
        /\ shown.src[from] >= Need + Fee
        /\ Begin("deposit", [rail |-> "unified", from |-> from, at |-> "check",
                             leg |-> "approve", seen |-> network])
        /\ UNCHANGED <<money, wallet, shown, order, draw, short>>

\* walletSpendToArc: the balance is read, planned over, and its intents made,
\* unless the read fails or the plan is short.
Quote ==
    /\ At("pay", "quote")
    /\ \/ \E p \in planAllocations(confirmed, call["pay"].from) :
             IF p.left > 0
               THEN Fail("pay") /\ short' = TRUE
               ELSE /\ call' = [call EXCEPT !["pay"].at = "check",
                                            !["pay"].leg = "intents"]
                    /\ draw' = p.plan
                    /\ UNCHANGED <<order, short>>
       \/ Fail("pay") /\ UNCHANGED short
    /\ UNCHANGED <<money, wallet, shown, ghosts>>

\* The reads after a transfer; the deposit ends with them.
Refresh(w) ==
    /\ At(w, "refresh")
    /\ shown' \in Read
    /\ IF w = "pay" THEN Goto(w, "auth") /\ UNCHANGED draw ELSE End(w)
    /\ UNCHANGED <<money, wallet, order, short, ghosts>>

\* The panel is opened again, or the wallet connected again.
Reopen ==
    /\ ~ Busy("pay") /\ ~ Busy("deposit")
    /\ shown' \in Read
    /\ UNCHANGED <<money, wallet, order, call, draw, short, ghosts>>

-----------------------------------------------------------------------------
(* ensureChain.                                                            *)

Move(chain) == network' = chain /\ UNCHANGED known

\* Any prompt may be declined, or fail.
Declined(w) == Fail(w) /\ UNCHANGED <<money, wallet, shown, short, ghosts>>

Pinning(w, label) ==
    Goto(w, label) /\ UNCHANGED <<money, shown, order, draw, short, ghosts>>

Check(w) ==
    /\ At(w, "check")
    /\ Pinning(w, IF OnPin(w) THEN "forward" ELSE "switch")
    /\ UNCHANGED wallet

\* A wallet cannot move to a chain it was never told of (4902).
Switch(w) ==
    /\ At(w, "switch")
    /\ \/ pinOf(w) \in known /\ Move(pinOf(w)) /\ Pinning(w, "forward")
       \/ pinOf(w) \notin known /\ UNCHANGED wallet /\ Pinning(w, "add")
       \/ Declined(w)

\* Adding a chain usually switches to it, and need not.
\* Mutant: the wallet is taken to have switched.
Added_Forward(w) == Pinning(w, "forward")
Added(w) == Pinning(w, "recheck")
Add(w) ==
    /\ At(w, "add")
    /\ \/ /\ known' = known \cup {pinOf(w)}
          /\ network' \in {network, pinOf(w)}
          /\ Added(w)
       \/ Declined(w)

Recheck(w) ==
    /\ At(w, "recheck")
    /\ Pinning(w, IF OnPin(w) THEN "forward" ELSE "reswitch")
    /\ UNCHANGED wallet

Reswitch(w) ==
    /\ At(w, "reswitch")
    /\ \/ Move(pinOf(w)) /\ Pinning(w, "forward")
       \/ Declined(w)

-----------------------------------------------------------------------------
(* The requests, one leg of a call each.                                   *)

\* The next leg of the call, or what follows its last one.
Onward(w, label, leg) ==
    call' = [call EXCEPT ![w].at = label, ![w].leg = leg]

Approve(w) ==
    /\ call[w].leg = "approve"
    /\ Onward(w, "check", IF w = "pay" THEN "burn" ELSE "credit")
    /\ UNCHANGED <<money, order, draw>>

\* The deposit is mined; Gateway credits it only after finality.
Credit(w) ==
    /\ call[w].leg = "credit" /\ held[call[w].from] >= topUp
    /\ held' = [held EXCEPT ![call[w].from] = @ - topUp]
    /\ credited' = [credited EXCEPT ![call[w].from] = @ + topUp]
    /\ topped' = TRUE
    /\ Onward(w, "refresh", "none")
    /\ UNCHANGED <<confirmed, arc, refused, order, draw>>

Burn(w) ==
    /\ call[w].leg = "burn" /\ held[call[w].from] >= Need
    /\ held' = [held EXCEPT ![call[w].from] = @ - Need]
    /\ Onward(w, "check", "mint")
    /\ UNCHANGED <<credited, confirmed, arc, topped, refused, order, draw>>

\* A chain's balance went below what the transfer takes: it reverts.
Revert(w) ==
    /\ \/ call[w].leg = "credit" /\ held[call[w].from] < topUp
       \/ call[w].leg = "burn" /\ held[call[w].from] < Need
    /\ Fail(w)
    /\ UNCHANGED money

\* One signature for all intents.  Gateway takes from each chain what is drawn
\* and its fee on top, or refuses them all.
Drawn == {c \in Chains : draw[c] > 0}
Intents(w) ==
    /\ call[w].leg = "intents"
    /\ IF \A c \in Drawn : confirmed[c] >= draw[c] + Fee
         THEN /\ confirmed' = [c \in Chains |-> IF c \in Drawn
                                                  THEN confirmed[c] - draw[c] - Fee
                                                  ELSE confirmed[c]]
              /\ topped' = FALSE
              /\ Onward(w, "check", "mint")
              /\ UNCHANGED <<refused, order, draw>>
         ELSE /\ refused' = TRUE
              /\ Fail(w)
              /\ UNCHANGED <<confirmed, topped>>
    /\ UNCHANGED <<held, credited, arc>>

\* The mint returned: the order is marked and the transfer recorded.
Mint(w) ==
    /\ call[w].leg = "mint"
    /\ arc' = arc + Need
    /\ order' = "landed"
    /\ Onward(w, "refresh", "none")
    /\ UNCHANGED <<held, credited, confirmed, topped, refused, draw>>

\* A wallet rejects what is not meant for the chain it is on.
Forward(w) ==
    /\ At(w, "forward")
    /\ \/ /\ OnPin(w)
          /\ \/ Approve(w) \/ Credit(w) \/ Burn(w) \/ Revert(w)
             \/ Intents(w) \/ Mint(w)
          /\ UNCHANGED <<wallet, shown, short, ghosts>>
       \/ Declined(w)
       \/ /\ ~ OnPin(w)
          /\ misplaced' = TRUE
          /\ Fail(w)
          /\ UNCHANGED <<money, wallet, shown, short, overlapped>>

-----------------------------------------------------------------------------
(* signAndAuthorize.                                                       *)

\* The wallet is asked to move only if it was elsewhere when the button was
\* rendered; wagmi adds a chain the wallet does not know.
Auth ==
    /\ At("pay", "auth")
    /\ \/ /\ call["pay"].seen = Arc
          /\ Pinning("pay", "sign")
          /\ UNCHANGED wallet
       \/ /\ call["pay"].seen # Arc
          /\ network' = Arc
          /\ known' = known \cup {Arc}
          /\ Pinning("pay", "sign")
       \/ /\ call["pay"].seen # Arc
          /\ Declined("pay")

\* Signed, the payment is the operator's to relay.
Sign ==
    /\ At("pay", "sign")
    /\ \/ network = Arc /\ order' = "signed" /\ End("pay") /\ UNCHANGED ghosts
       \/ Fail("pay") /\ UNCHANGED ghosts
       \/ network # Arc /\ misplaced' = TRUE /\ Fail("pay") /\ UNCHANGED overlapped
    /\ UNCHANGED <<money, wallet, shown, short>>

-----------------------------------------------------------------------------
(* The world.                                                              *)

\* A deposit reaches the depth Gateway waits for.
Confirm(c) ==
    /\ credited[c] > 0
    /\ confirmed' = [confirmed EXCEPT ![c] = @ + credited[c]]
    /\ credited' = [credited EXCEPT ![c] = 0]
    /\ UNCHANGED <<held, arc, topped, refused>>
    /\ UNCHANGED <<wallet, shown, order, call, draw, short, ghosts>>

\* The payer picks a network in the wallet.
UserSwitches(chain) ==
    /\ chain \in known \ {network}
    /\ Move(chain)
    /\ overlapped' = (overlapped \/ \E w \in Actors : Busy(w))
    /\ UNCHANGED <<money, shown, order, call, draw, short, misplaced>>

-----------------------------------------------------------------------------

Wallet(s) ==
    /\ held = s.held
    /\ confirmed = s.confirmed
    /\ arc = s.arc
    /\ known = s.known
    /\ network = s.network

Init ==
    /\ \E s \in Scenes : Wallet(s)
    /\ credited = NoDraw
    /\ shown = [gw |-> 0, src |-> NoDraw]
    /\ order = "payable"
    /\ call = [w \in Actors |-> Idle]
    /\ draw = NoDraw
    /\ short = FALSE /\ topped = FALSE /\ refused = FALSE
    /\ misplaced = FALSE /\ overlapped = FALSE

Request(w) == Check(w) \/ Switch(w) \/ Add(w) \/ Recheck(w) \/ Reswitch(w)
                \/ Forward(w) \/ Refresh(w)

Next ==
    \/ PressPay \/ PressFinish \/ PressDeposit
    \/ Quote \/ Auth \/ Sign \/ Reopen
    \/ \E w \in Actors : Request(w)
    \/ \E c \in Chains : Confirm(c)
    \/ \E n \in Networks : UserSwitches(n)

Spec == Init /\ [][Next]_vars
=============================================================================
