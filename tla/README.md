# RivoKit in TLA+

RivoKit takes a stablecoin payment into an escrow contract, holds it until the
host application says the goods were delivered, and then pays the seller a
guaranteed amount of euros: by a swap into EURC on the seller's wallet, or by a
payout to a bank over Circle's payments network (CPN). No step of this can be
rolled back, the database and the chain cannot be updated together, and every
call of the SDK is a sequence of awaits that other calls interleave with and
that a dying process cuts off anywhere. That is what these modules are about:
what the record of an order may be trusted to say about its money, and what the
screens of the demo marketplace may be trusted to offer on the strength of it.

Paths below are relative to the repository's root. `rivokit.ts` is
`src/sdk/rivokit.ts`.

## 1. The system

| Component | State it keeps | Operations | Talks to | What makes it correct |
|---|---|---|---|---|
| Order lifecycle, `src/orchestrator/state-machine.ts` | none: the table of legal moves | `canTransition`, `isCaptured`, `isOffRamped`, ... | used by everything below | terminal states are left by no edge; a moved order took an edge |
| Order facade, `rivokit.ts` | none of its own; remembers what it read across awaits | `createOrder`, `fund`, `release`, `retrySettlement`, `refreshPayout`, `refund`, reconciliation | store, escrow, FX, rail, bridge; announces to the host | the record never claims money that has not moved; roads to wallet and bank do not cross; nothing is announced early |
| Order store, `src/orchestrator/order-store.ts` | tables `orders`, `payments`, `cpn_payments`, `events` | `transition` (read, check, update by id), idempotent inserts by nonce, `savePayout`, `advanceCpnPayment` | Postgres and its constraints | a confirmed row is evidence |
| Release, refund, reconcile, `src/orchestrator/` | none | capture and swap; void or refund and bridge; promote what the escrow collected | escrow, FX, bridge | a failed swap is not a lost capture; a collected order is found |
| Escrow, `src/escrow/` | the contract's payment | authorize, capture, void, reclaim, refund, with three expiries | chain | outside the repository; modelled from its use |
| Settlement FX and fee, `src/settlement-fx/`, `src/sdk/fee.ts` | none | quote, floored swap, gross-up | swap service | every rounding falls on the payer's side, and no further than it must |
| Payout rail, `src/payout/` | the payout instruction of an order | limits, estimate, quote, submit, status | CPN | the order follows its last payout |
| CPN states and sync, `src/ramp/cpn-state.ts`, `cpn-sync.ts`, `cpn-reconcile.ts` | rows of `cpn_payments` | reducers for webhooks and for polls, sweep | store, CPN | a row is never ahead of its payment, and catches up |
| CPN cash-out of the demo, `demo/lib/cpn.server.ts` and the webhook route | intents, in memory per process and in the row | prepare, broadcast (server's or seller's signature), record a release | CPN, store | a process broadcasts an intent once |
| Funding, `src/funding/`, `demo/app/wallet-errors.ts` | none; the kit and the chains are asked again | bridge, spend, deposit, and the judgement of what the kit said of each | CCTP, Gateway | a transfer that burned is taken for one that moved nothing only when the kit says so |
| Browser wallet, `demo/app/wallet-rails.ts` | the network the wallet is on | pinned requests, plan of a Gateway spend | the wallet, Gateway | every request meets the wallet on its own chain; no plan is refused |
| Checkout, the buyer's panel of `demo/app/Marketplace.tsx` over `demo/app/marketplace.actions.ts` | what each browser shows | pay by one of three rails, finish, close | funding, wallet, facade, store | a burn is shown as a payment under way; no unpaid order is out of reach |
| Marketplace host, the other panels over the same actions | recorded events; what each screen shows | ship, confirm, dispute, settle and forward, retry, refund, sweep | facade, store | the buyer has their say; the floor is forwarded once |
| Board, `demo/lib/board.server.ts`, `demo/app/live.ts` | the views of a browser, caches | build a view, poll, blank | store | a screen catches up with the record |
| Events and webhooks, `src/events/` | handlers in memory | emit, verify, interpret | host, Circle | see the facade |
| Seller's desk, SDK panel, guards, mint, CPN client, scripts | see section 6 | HTTP, rendering, encryption | | not modelled |

How they interact: the host calls the facade; the facade calls the escrow, the
swap service, the rail and the bridge in a fixed order per operation, and
writes to the store between those calls; hosts act on the events. CPN calls
back by webhook, and the host polls and sweeps to make up for webhooks that
do not come. A screen shows a view that was read some time ago, offers the
buttons that view calls for, and each button is a server action that reads the
order again, or does not. Nothing holds a lock or a transaction across an
await.

The hard behaviours, each listed with its line under `hazards` in
`PROJECT.json`: two requests about one order; a check on a row that is stale
when the row is written; an update by id alone; a process that dies between a
transfer and its record; retries of steps that may have happened; an answer
that must be classified by the wording of an error; notifications late,
doubled, reordered or lost; expiries that pass meanwhile; buttons pressed on
screens that are out of date; one wallet shared by calls that need it on
different networks; and integer rounding at several boundaries of one price.

## 2. The modules

    OrderState -- RivoKit -- RivoKitProperties -- RivoKit_Proofs -- RivoKitPromise_Proofs,
        |            |          |        |            |             RivoKitAlone_Proofs
        |            |     FundsPromise  MCRivoKit    |                 |
        |            |                                |                 |
    OrderView -- Marketplace -- MarketplaceProperties -- Marketplace_Proofs
        |                              |
        |                         MCMarketplace
    Rails + OrderView -- Checkout -- CheckoutProperties -- Checkout_Proofs, MCCheckout
    WalletRails -- WalletRailsProperties -- WalletRails_Proofs, MCWalletRails
    CpnCashout --- CpnCashoutProperties --- CpnCashout_Proofs, MCCpnCashout
    Pricing ------ PricingProperties ------ Pricing_Proofs

**`OrderState`** is the lifecycle table and the questions the code asks of it.

**`RivoKit`** is the facade over the store, and the outside services as they
appear from it. A worker is a request in flight; `call[w]` is its program
counter and what it remembers (the order's state when it was first read, the
payout instruction it holds, the move it is about to make). One action is what
happens between two awaits: one database statement or one outside call. So
`store.transition` is two actions, a read with the check of the edge
(`TransitionRead`) and an update by id with the constraints of the schema
(`TransitionWrite`), and another request may come between them, as it may in
the code. `Fund`, `Release`, `RetrySettlement`, `RefreshPayout`, `Refund`,
`Reconcile`, `MarkFunding`, `Ship` and `Expire` begin a call; `Continue(w)` is
the next step of one; `Outside` is time, the payer's reclaim and the rail.
`Interrupt` ends any call anywhere: an await rejects, or the process dies, and
what was done stays done, since the code has no compensation.

| Variable | In the code |
|---|---|
| `state`, `fundedAt`, `payout` | columns of `orders` |
| `ledger` | `payments`, one row per kind, because the nonce is derived from the order and the kind |
| `emitted` | what the emitter has announced |
| `escrow`, `clock` | the contract's payment and which expiries have passed |
| `swaps`, `rebates`, `rail`, `bridge` | what the outside services have executed; of a rebate, whether it was paid and whether it threw |
| `call`, `faults` | requests in flight; how many have been cut off |

**`FundsPromise`** is the abstract specification: money makes facts in a fixed
order, facts stay, and a record is a claim that may be made only after the fact
it rests on. `RivoKitProperties` maps the facade onto it (`FactsOf`, `Claim`)
and states `RecordNeverAhead`, that `RivoKit` implements it.

**`OrderView`** is what a screen is shown of an order (`buildView`), the status
the interface derives of it, and which controls of the three panels that status
offers. `Checkout` and `Marketplace` share it, so the buttons of both are
guarded by the code's own conditions, applied to a view that may be old.

**`Rails`** is how a cross-chain movement of USDC is judged: everything the kit
may say at each stage of a transfer (`MayAnswer`), and what `interpret`,
`classifyThrow`, `runRail` and `fundsMayBeInFlight` make of it.

**`Checkout`** is paying for one order. A tab is a browser with the board open;
its call is burn, mint, the kit's answer, the mark (`mpMarkFunding`), the
funding row, the signature and the collection, one await at a time, in the
wallet's order or the demo buyer's. Beside it the board is polled (`Ask`,
`Show`), the page is opened again, reads fail, statements are rejected and tabs
die. `expired` is the authorization window; `away`, `transit` and `arc` are the
payer's USDC, counted in orders.

**`Marketplace`** is what happens to the order then. It extends `RivoKit`: the
screens are workers of the facade, `task[w]` is what a server action will do
around the facade's call (the event after a shipment, the four steps of the
forward), and a sweep is the call the board's effect makes for a payout. So the
whole facade runs under the marketplace, with its interleavings.

**`WalletRails`** is the browser wallet below `Checkout`: the network it is on,
the chains it has been told of, `pinnedTo` prompt by prompt, the legs of a
payment and of a deposit, and `planAllocations` over the balances.

**`CpnCashout`** is a payment at CPN and its row in `cpn_payments`: the
two-request cash-out, the payout of a release, polls, webhooks and the sweep,
each read and write a step. `sent` holds notifications CPN has signed; any of
them may be delivered at any time, again, or never. `hot[i]` is the memory of
server process `i`. `words[p]` are the words CPN has answered a payout's
submission with: words of its transaction, of which `CREATED`, `COMPLETED` and
`FAILED` are words of a payment too, and `initialPaymentState` writes those
into the row as they come (`cpn.server.ts:509`). `PENDING` and `BROADCASTED`
become `CREATED`, so one of the three stands for all of them in the runs.

**`Pricing`** follows the amounts of one order: the two-pass quote of
`lockQuote` or the estimate of the payout rail, the corridor check, the search
of `grossUpForFee` one iteration per step, the capture less the fee, and the
attempts to settle, at whatever the market answers each time. A quote that
fails or expires stalls an order for no reason of amounts (`NoQuote`); what the
rail submits is what it quoted, as `createCpnPayoutRail` does.

Some variables are history that the code does not keep, so that a property
can say what it is conditional on: `overtaken` (`Checkout`, `Marketplace`: a
button was pressed on what was no longer so), `denied` (`Checkout`: a transfer
that had burned was told as one that had not begun), `overlapped`
(`CpnCashout`: a request began beside another; `WalletRails`: a call was not
alone with the wallet).
`topped`, `refused` and `misplaced` of `WalletRails` record what a deposit, the
Gateway and the wallet met.

### What is abstracted, and why it may be

- Amounts are left out of `RivoKit`; a payment is authorized, captured and
  refunded whole, which is how the facade uses the contract. They are the
  subject of `Pricing`, and of `WalletRails` where the plan of a spend is.
- A call that is refused before it changed anything is no step: a proof that
  does not fit the wedge, an illegal move, a corridor that cannot be read
  (`rail.limits()` at the beginning of a release to a bank), a compliance
  refusal.
- A refusal that is part of an operation (a capture that reverts, a swap below
  its floor, a rail that throws, a bridge that fails) is an outcome of its
  action and always possible. `faults` counts only what is nobody's answer:
  rejected database calls, lost answers and deaths.
- A call that timed out and whose transaction lands later is a call still in
  flight that is interrupted after its transfer.
- Events are those a host acts on (`funded`, `released`, `payout_pending`,
  `paid_out`, `refunded`) and, in `Marketplace`, those a view is built from;
  the informational ones are left out.
- `captureTxHash` is always there once a capture has succeeded, because the
  escrow's operations resolve with a hash or throw (`operations.ts:17`): the
  guards of `rivokit.ts:470` and `1002` never skip the row of a capture.
- CPN accepting a transaction a second time is allowed: the code does not rely
  on its refusing.
- Quotes that are refused outright, and prices as decimal strings, are not in
  `Pricing`. The loop in `grossUpForFee` that raises the ceiling until it is
  enough has no step: theorem `CeilingSuffices` shows it never runs, although
  the comment above it says a ceiling is not sufficient.
- `Checkout` takes the facade's `fund` without the row of the authorization and
  the announcements, which are `RivoKit`'s, and the network part of a payment
  from `WalletRails`. `Marketplace` begins with an order that is funded, and no
  expiry passes in its runs: what expiries do to the facade is in the runs of
  `RivoKit`.

### What is assumed of the outside

- *What the kit may say* (`KitMaySay`). It lists a burn, names a mint and
  reports success only of what happened, and refuses to start (a short balance,
  bad input) only before the burn. Nothing else is assumed of it: after a burn
  it may leave the burn out of its list, fail to reach Circle, or hand on a
  prompt that was declined, as `pinnedTo` does at the mint leg when the network
  is not switched. `Denies` names these answers, and `BurnIsShown` is the only
  property that leaves them out. A Gateway spend resolves with the hash of its
  mint or throws, and the server, which signs for the demo buyer, declines
  nothing (`MayAnswer`).
- The payer's USDC on Arc is used for this order only. The buyer may press any
  control that is offered, the rails beside the warning of a payment under way
  included.
- App Kit's requests per leg of a transfer (approve, deposit, burn, one
  signature per burn intent, mint) are external, taken from how
  `wallet-rails.ts` provides the wallet. Gateway judges all the intents of a
  spend together, and lists chains of equal balance in any order. The three
  reads of `loadWalletRails` are of one moment, and the panel's balance on Arc
  is taken as current.
- The escrow collects, captures, and lets go of a payment once, and not after
  its expiries.

## 3. What is checked

| Run | Asks | Bounds, and why they are enough |
|---|---|---|
| `MCRivoKit_race_wallet` | `TypeOK`, `LedgerIsEvidence`, `AnnouncementsAreBacked`, `RecordNeverAhead` | two requests over a wallet order with a bridged refund, all expiries, two swaps. No step reads what more than one other request holds; a second swap is the first that a retry can double. |
| `MCRivoKit_alone` | `RoadsStayApart`, `AnnouncedOnce`, `PayoutIsTracked`, the inductive `EvidenceInv` and `AloneInv`; while nothing was cut off, `PaidOrRefundedOnce`, `RecordAgreesWithMoney`; under fairness, `PayoutIsSettled`, `FundingIsReconciled` | one request at a time over an order of either road, one call cut off anywhere, two swaps, two payments at the rail (one that failed and its retry), a rebate on either road, which may throw. |
| `MCCpnCashout` | `CashoutInv`, `RowNeverAhead`, `SubmittedOnce`, `ForwardOnly`; under fairness, `RowCatchesUp` | two requests in two processes over one payment, three broadcasts, two polls each, one fault; webhooks may all be lost, and a submission is answered with a word of each kind. `SubmittedOnce` allows two processes two broadcasts; the third is what it forbids. |
| `MCWalletRails` | `OnItsChain`, `SpendIsAccepted`, `PlanIsRight`, `TopUpSuffices` | three source chains of which two can be picked, an order of 3 and a fee of 1, 31 wallets: balances just enough, one short, spread, or to be topped up. |
| `Pricing_all` | `TypeOK`, `SmallestGross`, `SellerNeverShort`, `BufferIsEnough`, `SearchEnds`, the inductive `PricingInv` | prices 1 and 3 in units of which the corridor takes 2, fees of 0, 33.33 and 90 %, buffers of 0 and 50 %: small amounts and odd rates make every rounding bite. |
| `MCCheckout` | `TypeOK`, `BurnIsShown`, `LandedIsOnArc`, `ClosedHoldsNothing`, `WayForward`; under fairness, `ScreenCatchesUp` | one tab, as the wallet or as the demo buyer, with funds for a second transfer, a window that may lapse and a fault; or two tabs of the demo buyer without faults. |
| `MCMarketplace` | `MarketTypeOK`, `WindowRespected`, `ForwardedOnce`, `OffersMatchEscrow`, `DisputeIsJudged`; under fairness, `PayoutIsFollowed` | four scenes: one screen over a wallet order with a fault, a seller's address and a rebate that may throw; two screens that settle such an order at once; a bank order with a rebate and one sweep; and one without a surplus and with two sweeps that overlap. |
| `Found_*` | see section 5 | the smallest that show it. |

Two requests that race over a bank order have no run of their own: what could
go wrong there that does not on the wallet road (`AnnouncementsAreBacked`,
`RoadsStayApart`, `RecordNeverAhead` over two payments) is proved for any
number of requests, and the sweeps scene of `MCMarketplace` races a release and
two refreshes over one.

Orders share nothing but the requests that serve them (the sweep's list of
`CpnCashout` excepted), so every run follows one. `MCRivoKit_alone` starts with
an order of each road of which one was closed before the run
(`OneOrderInit`); the behaviours of several orders are interleavings of those
of one. `MCCpnCashout` has one payment and a sweep limit of one; a sweep over
two rows, whose second was read before the first was written, is covered only
by the proofs, which are for any number of rows. `MCRivoKit_race_wallet` uses
the symmetry of requests; no property of it names one.

The settled, stalled or refused end of a price is an end, so `Pricing_all`
does not check for deadlock. In every other run there is always a call to make,
or a page to open again.

**Fairness.** A call whose awaits answer goes on: `Continue` (`RivoKit`,
`CpnCashout`, `Checkout`), `Serve` and `KitStep` (`Marketplace`) are weakly
fair. `RailSettles` is weakly fair: CPN ends every payment, by its own expiry
if need be. `Board` and the marketplace's `Sweep` are weakly fair: they are
timers and effects of a page that is in view (a hidden tab does not poll,
`live.ts:76`). `RefreshPayout`, `Reconcile` and the `Sweep` of
`CpnCashout` are strongly fair, because the host repeats them (a cron, or a
page that polls) and they can begin only when a worker is free. Nothing is
assumed of the buttons anybody presses, of the kit's burns and mints, of
webhooks, of the payer or of time.

**Conditions that are part of the claims.**
- `PayoutIsSettled` and `PayoutIsFollowed` stop promising when a call has been
  cut off, for the reason `Found_refresh` shows.
- `RowCatchesUp` holds when the sweep's limit covers the rows, because the
  sweep reads the newest rows, ended ones included, up to that limit
  (`order-store.ts:770`).
- A rebate that throws after the swap of a wallet order leaves that order
  converted and its state where it was, which is `Found_swap_twice`. This host
  wires `payRebate` for every order when it can send
  (`demo/lib/rivokit.server.ts:132`), so rebates of both roads are in the runs,
  and may throw: `RecordAgreesWithMoney` then promises less of that order
  (`NothingAfterSwap`), and `OffersMatchEscrow` nothing.
- `CashoutInv`, `RowNeverAhead` and `RowCatchesUp` leave out a payout whose
  submission was answered `COMPLETED` or `FAILED` (`EndedEarly`): its row begins
  at an end the payment has not reached, and nothing takes it from there.
  Whether CPN ever answers so is not the repository's to say.
- `SubmittedOnce` bounds the broadcasts of an intent by the number of server
  processes: one that prepared it may broadcast it after another has.
- `ForwardOnly` and `SubmittedOnce` are for requests that do not overlap;
  `Found_cashout_regress` shows why.
- `BurnIsShown` is for transfers whose burn the kit has not denied, without
  faults; it holds for any races of screens.
- `ScreenCatchesUp` counts an empty board as caught up: a failed query is
  answered with one, nothing on it moves, and it stays until the page is opened
  again.
- `AnnouncedOnce`, `PayoutIsTracked` and the other properties of
  `MCRivoKit_alone` are for hosts that make one call at a time. Of two that race
  over a payout, or over `fund`, only what `EvidenceInv` says is left.
- `OffersMatchEscrow` is for buttons pressed one at a time on
  screens that are current, `ClosedHoldsNothing` for a close that nothing
  overlaps, and `DisputeIsJudged` for a current screen. `WindowRespected`,
  `ForwardedOnce` and `LandedIsOnArc` hold for stale screens and overlapping
  buttons too. `OnItsChain` is for calls that are alone with the wallet: a deposit
  and a payment may run at once, and then a prompt of one moves the wallet under
  the other.

## 4. What is proved

TLC covers the instances above; the theorems hold for any orders, requests,
processes, screens, chains, bounds, prices and answers. They assume only the
`ASSUME`s of the modules, which TLC evaluates on its runs: a bank order is an
order, bounds are natural numbers, prices positive, fees below 100 %, scenes
name workers there are, chains and server processes are finitely many.

Every safety and action property of a passing run is stated by a theorem; what
TLC alone has checked is liveness. The theorems about calls that are made one
at a time say so: they are of the form `Spec /\ []OneCall => []P`, where
`OneCall` is the host's part (`Spec` lets requests overlap, and
`MCRivoKit_race_wallet` does).

`RivoKit_Proofs`
- `TypeCorrect`: `Spec => []TypeOK`. `TypeOK` alone is not inductive, because
  `RefreshStatus` looks up the payment an instruction points at; `TypeInv` adds
  that live instructions point at payments and calls in flight hold an order.
- `EvidenceHolds`: `Spec => []EvidenceInv`. What must be carried is what each
  call in flight *knows*: at every program counter, the facts of the money the
  steps before it have made (`CallKnows`). Facts stay facts, so another request
  cannot spoil what one knows, even though it can make its check of the state
  stale. `BridgedAlone` is there because a fact made by the bridge must not be
  unmade by a second one: the escrow lets go of a payment once.
- `LedgerCorrect`, `AnnouncementsCorrect`, `RoadsApart`: `LedgerIsEvidence`,
  `AnnouncementsAreBacked`, `RoadsStayApart` from that invariant.

`RivoKitPromise_Proofs`
- `FacadeKeepsPromise`: `Spec => RecordNeverAhead`, the refinement. Every step
  of the facade makes one fact whose causes are there (`Happens`), changes one
  claim to one whose facts are there (`Tell`), or is a stutter of
  `FundsPromise`; which, follows from `EvidenceInv` before and after it and from
  the lemma that no step takes a fact away.

`RivoKitAlone_Proofs`
- `AloneHolds`: `Spec /\ []OneCall => []AloneInv`. `EvidenceInv` says that what
  the record claims has happened; for one call at a time the converse is needed
  too, that what has happened is on the record. It is not, between a transfer
  and the move it stands for, and not ever after a call died there. So
  `AloneInv` has two halves. `StateTells` holds whatever has died: an order in
  `settlement_pending` holds its capture, an off-ramped order points at its last
  payment, an announced order is in a state that comes after the announcement;
  `CallTells` is what the call in flight knows of that state, so that its
  check, and its move, fit. `Accounted` holds while nothing has died: the order
  is `Settled`, its state names the place of its money, or the call in flight is
  `Ahead` of it and knows. One step per action, each about the one order the
  action touches.
- `AnnouncementsOnce`, `PayoutTracked`: `AnnouncedOnce` and `PayoutIsTracked`,
  for calls that may die; `MoneyLeavesOnce`, `RecordAgrees`:
  `PaidOrRefundedOnce` and `RecordAgreesWithMoney`, from the second half.

`Marketplace_Proofs`
- `MarketplaceKeepsEvidence`: `EvidenceInv` inside the marketplace. Every step
  of `MarketNext` is a step of the facade's `Next` or a fault of the host that
  leaves the facade alone, so the facade's invariant carries over without being
  proved again.
- `MarketplaceKeepsPromise`: `MarketSpec => PromiseKept`: every step of the
  marketplace is one of `FundsPromise` or a stutter of it. (The marketplace
  begins with an order that is funded, so it is the steps of the promise that
  it implements, not its initial state.)
- `MarketTypesHold`: `MarketTypeOK`, from the same split.
- `WindowsAreRespected`: `WindowRespected`. `HeardInv` adds what makes it
  inductive: events are never unrecorded and a view shows only recorded ones,
  so a release pressed on a view however old is one the buyer was heard for,
  and stays so while its call is in flight.
- `FloorIsForwardedOnce`: `ForwardedOnce`. Nothing in the code excludes a second
  forward but that `kit.release` returns to one caller: `ForwardInv` calls that
  server action the *winner*, from its capture to its last event. There is one
  winner at most, because becoming one takes an escrow that still holds the
  payment, and leaves one that does not.
- `DisputesAreJudged`: `DisputeIsJudged`, from what a current view of a disputed
  order offers.
- `OffersAreRight`: `OffersMatchEscrow`. `InTurnInv` says that buttons pressed
  in turn are calls of the facade in turn: a screen that waits for an action
  is the only one that does, and a wallet order has no sweep. `AloneInv` then
  holds in the marketplace as it does in the facade, and what a current view
  offers is what the order's state tells. The proof corrected the claim: it
  used to say that the escrow holds what is offered for release, but a payer
  may take an expired authorization back unseen, and a rebate that throws leaves
  an order converted. No run of the marketplace
  lets an expiry pass, so TLC could not tell.

`Checkout_Proofs`
- `CheckoutTypesHold`, `OrdersKeepAWay`: `TypeOK`, and `WayForward` from the
  states an order may be in while it is paid for.
- `RowsAreMoney`: `LandedIsOnArc`, for stale screens, overlaps and faults too.
  `LandedInv` adds that a call which calls its transfer delivered saw it minted
  (`RailEndsHonestly`, from what the kit may say), and that what is on Arc
  leaves it only into the escrow.
- `BurnsAreShown`: `BurnIsShown`, for any races. It is not inductive, because a
  call knows of a burn before it marks it. `ShownInv` says that a burn the
  order's state does not show is one some call in flight is about to mark, or
  one the kit denied.
- `ClosedOrdersHoldNothing`: `ClosedHoldsNothing`. `AccountedInv` says that while
  buttons are pressed in order and nothing fails, one call at most is in flight,
  and the order's state together with that call accounts for a collection.

`WalletRails_Proofs`
- `AloneIsPlaced`: `Spec => []WalletInv`. A call that is alone with the wallet
  can be at each of its labels only with the wallet where the label's last
  question or prompt left it: forwarding comes after a check or a switch that
  ended on the request's chain, and a signature after a mint that left the
  wallet on Arc or a page rendered there.
- `RequestsArePinned`: `OnItsChain` from it.
- `PlansAreRight`: `PlanIsRight`. `planAllocations` is a fold over the chains
  from the fullest down, and `Progress` is what holds of it after each chain: as
  long as something is left, every chain so far gave all it can. So a plan that
  is short took all there is; and the chains before the last did not suffice,
  so no allocation does with two intents fewer.
- `MoneyIsCovered`: `Spec => []MoneyInv`; `IntentsAreAccepted` and `TopUpPays`,
  `SpendIsAccepted` and `TopUpSuffices`, from it: between a plan and its spend,
  and between a deposit and its spend, balances only grow.
- The induction over chains that these need is done without an induction
  theorem that takes a predicate: `Least` (from the library's
  `NatLessThanWellFounded`), `AllNat` and `AllSubsets` are about *sets* that
  contain a first element and are closed under the next, so a statement becomes
  the set of the values it holds for. Sums, folds and the order of the chains
  rest on these three.

`CpnCashout_Proofs`
- `CashoutCorrect`: `Spec => []CashoutInv`: a row, a notification and the
  status a request holds each name a place the payment has been, except for a
  payout whose submission was answered with an end (`RowIsTrue`). CPN only goes
  forward, so writes in any order keep it.
- `CashoutTypes`, `RowsAreNeverAhead` from it.
- `SequentialCorrect`: `Spec => []SequentialInv`, and from it `RowsGoForward`,
  which is `ForwardOnly`. As long as requests have not overlapped, the row that
  the one request in flight is about to write is the row it read; for a sweep,
  that is every row left on its list, each listed once.
- `IntentsAccounted`: `Spec => []IntentInv`, and from it `IntentsSubmittedOnce`,
  which is `SubmittedOnce`. Each transaction accepted is set against a process
  that no longer remembers the intent, or the one that is about to forget it,
  and while the row holds the intent none has been accepted.

`Pricing_Proofs`
- Lemmas on floors, ceilings, the fee and the net of a gross, all of them
  reduced to `netOfFee(a) >= n <=> a * (10000 - fee) > (n - 1) * 10000`.
- `CeilingSuffices`; `PricingCorrect` (the loop invariant of the search, and a
  net that covers price and buffer carried to the settlement);
  `GrossIsSmallest`, `SellerIsNeverShort`, `BuffersSuffice`, `PricesAreTyped`.
- `SearchIsShort`: every round of the search leaves less than there was, and at
  most half (`SearchHalves`): the part of `SearchEnds` that is about the
  arithmetic, and not about a loop that goes on.

Only model-checked, and out of the prover's reach, is liveness
(`PayoutIsSettled`, `FundingIsReconciled`, `RowCatchesUp`, `SearchEnds`,
`ScreenCatchesUp`, `PayoutIsFollowed`): under fairness it needs `ENABLED`.

## 5. Where code and text disagree

Five runs show the code doing what a comment says it does not.

- `Found_swap_twice` (`SwappedOnce`). The swap has no key of its own; its row is
  written after it, so a replay does not collide until money has moved again.
- `Found_refusal` (`RefusalsStall`). A rail that cannot be made ready throws past
  the refusals that stall: the escrow is captured, the order stays `funded`, no
  retry accepts it and every later release reverts. `submit` throws the same
  way, further down.
- `Found_refresh` (`PayoutIsAdvanced`). A refresh cut off after `savePayout` makes
  all later ones return early, and the order stays `payout_pending`.
- `Found_cashout_regress` (`RowsOnlyAdvance`). `advanceCpnPayment` writes by id,
  so an overlapping sweep moves a row backwards.
- `Found_not_forwarded` (`ReleasedIsForwarded`). A settlement that stalls is
  finished by `mpRetrySettlement`, which forwards nothing, and a released order
  has no control left, while the panel tells the seller their euros were
  forwarded.

Seen while modelling, and not runs of their own.

*Facade and store.* `refund` moves the order to `refund_pending` before the
escrow returns anything, and a revert leaves it there (`rivokit.ts:1095`,
`reconcile.ts:19`); the comment of `refund` calls that recoverable by the
sweep, which only reports it; a stalled refund bridge is continued by nothing
(`rivokit.ts:1116`); two racing requests can overwrite `paid_out`
(`order-store.ts:420`, `state-machine.ts:71`) or announce `funded` twice
(`rivokit.ts:953`); the payout row of a failed payment answers for its retry
(`rivokit.ts:652`).

*Cash-out.* A second process keeps an intent the first has broadcast
(`cpn.server.ts:203`); a broadcast that CPN accepted can still throw
(`cpn.server.ts:401`); `preparePayment` may throw after CPN has created the
payment; a store that rejects is answered as a bad signature (`route.ts:73`);
a payout whose submission is answered `COMPLETED` or `FAILED`, of its
transaction, is recorded as a payment that has ended (`cpn.server.ts:509`), and
no poll, webhook or sweep takes a row from an end.

*Paying.* A bridge or a spend that breaks off after its burn is taken for one
that moved nothing, and its order stays payable without a warning, when the kit
fails to reach Circle (`bridge.ts:191`), leaves the burn out of its steps
(`bridge.ts:132`), or hands on a declined prompt: `pinnedTo` raises
`WALLET_CHAIN_REJECTED` for a network of the mint leg as of any other
(`wallet-rails.ts:150`), and `wallet-errors.ts:45` reads it as nothing signed.
`bridge.ts:244` asks callers to record the order as pending before
`execute`, and `mpPay` and the panel mark it after; the panel charges Gateway's
fee once (`Marketplace.tsx:806`) while `planAllocations` keeps it back on every
chain; a payment and a deposit may run at once on one wallet;
`signAndAuthorize` asks the network of the last render; `adapterFor` keeps a
rejected promise until the wallet disconnects (`wallet-rails.ts:193`). An
overlapping `mpExpireOrder` closes an order while its collection lands.

*Screens.* A refresh is dropped while a read is in flight (`live.ts:49`), so an
order that burned may look payable until the next poll; a failed query is
answered as an empty board (`board.server.ts:334`); orders in `created` are not
polled, so a rail may be started from a screen whose window has lapsed; a
shipment recorded from a stale screen is recorded of a refunded order too, and
its update by id can overwrite `released`; an expired view stops polling while
a call in flight can still fund the order; a `settlement_pending` order has no
control for a refund; a sweep that dies between `savePayout` and the move
strands the order, as in `Found_refresh`.

*Seller's desk, SDK panel, caches and mint*, read and not modelled: the `confirmed` tick of
`SellerCashout.tsx` survives a new `prepare`, so terms nobody confirmed can be
broadcast; a switch of the wallet or the corridor during a `prepare` leaves an
intent made for one address to be signed by another; `DemoPanels.tsx` offers
`fund` only in `created`, so an order whose collection failed is polled for
ever without a button; `cachedBalances` can drop a newer entry when an older
read fails (`board.server.ts:268`); every cold caller of `priceHints` computes,
where its comment says only the first waits; `mintRedeem` draws a new
idempotency key per attempt, so a retry after a lost answer redeems twice
(`mint.server.ts:215`).

## 6. What comes next

In this order, the most important first. New questions should join a run that
is there where its instance answers them.

1. The seller's desk (`SellerCashout.tsx`) over `CpnCashout`: which terms are
   signed by whom. The panel's state lives in React transitions whose
   intermediate values are not shown, so its steps need more than the awaits of
   the source.
2. The composition of `CpnCashout` with the rail of `RivoKit`: a payment of
   `CpnCashout` implements `RailSettles`. The handler of the other Circle
   webhooks.
3. The caches of the board.

Not modelled: HTTP clients, JWE encryption and EIP-712 normalisation
(stateless); the password guard, and calls of Circle Mint that keep no state
here; the SDK panel of the demo, which calls the facade with buttons of its own
and adds no state to it; estimates and price hints, which are only shown; the
landing and documentation pages and the layout of every screen; scripts and
contract artifacts (no logic of the program). Together these, the storefront's
markup and the static data of corridors are most of the repository's lines.
