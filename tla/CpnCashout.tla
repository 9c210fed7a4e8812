----------------------------- MODULE CpnCashout -----------------------------
(***************************************************************************)
(* Payments of Circle's payments network (CPN), and the rows of the table  *)
(* cpn_payments that follow them: src/ramp/cpn-state.ts, cpn-sync.ts and   *)
(* cpn-reconcile.ts, driven by demo/lib/cpn.server.ts.                     *)
(*                                                                         *)
(* A payment begins as a cash-out the seller prepares and broadcasts in    *)
(* two requests, or as the payout of an order, which release() quotes and  *)
(* submits in one.  From then on CPN moves it, and three things write its  *)
(* row: webhooks, which come late, twice, out of order or never; polls; and *)
(* a sweep.  Each reads a status, asks the reducer, and writes by the      *)
(* payment's id alone.                                                     *)
(*                                                                         *)
(* Handlers are requests in flight; each action is what happens between    *)
(* two awaits.  A request that would change nothing is no step.            *)
(***************************************************************************)
EXTENDS Naturals, Sequences, FiniteSets

CONSTANTS
    Handlers,       \* requests that may be in flight at one time
    Instances,      \* server processes, each with a memory of its own
    Operations,     \* the operations that are called
    SweepLimit,     \* rows a sweep reads
    Answers,        \* the words a payout's submission is answered with
    MaxPayments,    \* bound: payments created
    MaxSubmits,     \* bound: times CPN accepts a transaction of one payment
    MaxPolls,       \* how often a broadcast asks CPN before it gives up
    MaxFaults       \* bound: awaits that reject, or processes that die

\* The words of a transaction, three of which are words of a payment too.
TransactionState == {"CREATED", "PENDING", "BROADCASTED", "COMPLETED", "FAILED"}

ASSUME CashoutAssumption ==
    /\ Instances # {} /\ IsFiniteSet(Instances)
    /\ SweepLimit \in Nat
    /\ Answers \subseteq TransactionState
    /\ MaxPayments \in Nat
    /\ MaxSubmits \in Nat
    /\ MaxPolls \in Nat \ {0}
    /\ MaxFaults \in Nat

VARIABLES
    rail,       \* the state of each payment at CPN
    sent,       \* the notifications CPN has signed for it, and may deliver
    submits,    \* how often CPN has accepted its transaction
    words,      \* the words it has answered a payout's submission with
    row,        \* cpn_payments.status
    prepared,   \* cpn_payments.prepared is set
    inserted,   \* the rows in the order of created_at
    hot,        \* preparedTx, the intents each process holds in memory
    job,        \* what each handler is doing, and what it remembers
    overlapped, \* a request took a step while another was in flight
    faults

cpn   == <<rail, sent, submits, words>>
table == <<row, prepared, inserted>>
vars  == <<cpn, table, hot, job, overlapped, faults>>

-----------------------------------------------------------------------------
(* cpn-state.ts: the graph of a payment and the reducers.                  *)

Payments == 1..MaxPayments

PaymentState == {"CREATED", "CRYPTO_FUNDS_PENDING", "FIAT_PAYMENT_INITIATED",
                 "COMPLETED", "FAILED"}

PAYMENT_NEXT ==
    [CREATED |-> {"CRYPTO_FUNDS_PENDING", "FAILED"},
     CRYPTO_FUNDS_PENDING |-> {"FIAT_PAYMENT_INITIATED", "FAILED"},
     FIAT_PAYMENT_INITIATED |-> {"COMPLETED", "FAILED"},
     COMPLETED |-> {},
     FAILED |-> {}]

isPaymentTerminal(s) == s \in {"COMPLETED", "FAILED"}

\* Mutant: every edge is legal.
canTransitionPayment_Any(from, to) == TRUE
canTransitionPayment(from, to) == to \in PAYMENT_NEXT[from]

\* Downstream at any distance; no path of the graph has more than three edges.
isReachable(from, to) ==
    LET further(S) == S \cup UNION {PAYMENT_NEXT[s] : s \in S}
    IN  to \in further(further(PAYMENT_NEXT[from]))

\* The payment state a notification drives, and "null" for metadata.
PAYMENT_EVENT_STATE ==
    [cryptoFundsPending |-> "CRYPTO_FUNDS_PENDING",
     fiatPaymentInitiated |-> "FIAT_PAYMENT_INITIATED",
     completed |-> "COMPLETED",
     failed |-> "FAILED",
     delayed |-> "null"]
PaymentEvents == DOMAIN PAYMENT_EVENT_STATE
RfiEvents == {"informationRequired", "rejected"}
Notifications == PaymentEvents \cup RfiEvents

\* Mutant: an open request for information fails the payment.
failsPayment_Open(n) == n \in RfiEvents
failsPayment(n) == n = "rejected"

\* A webhook is one event: it may cross one edge.  The rejection of a request
\* for information fails any payment that has not ended.
AppliesEvent(current, n, to) ==
    \/ /\ failsPayment(n)
       /\ ~ isPaymentTerminal(current)
       /\ to = "FAILED"
    \/ /\ n \in PaymentEvents
       /\ to = PAYMENT_EVENT_STATE[n]
       /\ to \notin {"null", current}
       /\ ~ isPaymentTerminal(current)
       /\ canTransitionPayment(current, to)

\* Mutant: a poll is folded in like the webhook it would have arrived as.
reconcilePaymentStatus_OneHop(current, polled) ==
    /\ polled # current
    /\ canTransitionPayment(current, polled)
\* A poll says where the payment is now: it may skip steps.
reconcilePaymentStatus(current, polled) ==
    /\ polled # current
    /\ ~ isPaymentTerminal(current)
    /\ isReachable(current, polled)

-----------------------------------------------------------------------------
(* Control of one request.                                                 *)

\* A row of a sweep's list: the payment and the status it was listed with.
ListedRows == [p : Payments, status : PaymentState]

Labels == {"idle", "prepare.record", "broadcast.submit", "broadcast.forget",
           "release.submit", "release.record", "poll.rail", "poll.row",
           "poll.write", "webhook.write", "sweep.rail", "sweep.write"}

\* What a handler remembers across awaits: the process it runs in, the status
\* last seen, the polls left, and the rows of a sweep still to do.
Jobs == [at : Labels, p : 0..MaxPayments, inst : Instances,
         seen : PaymentState \cup {"none"}, polls : 0..MaxPolls,
         todo : Seq(ListedRows)]
Idle == [at |-> "idle", p |-> 0, inst |-> CHOOSE i \in Instances : TRUE,
         seen |-> "none", polls |-> 0, todo |-> <<>>]

At(h, label) == job[h].at = label
Become(h, j) ==
    /\ job' = [job EXCEPT ![h] = j]
    /\ overlapped' = (overlapped \/ \E g \in Handlers \ {h} : ~At(g, "idle"))
Goto(h, label) == Become(h, [job[h] EXCEPT !.at = label])
Saw(h, s, label) == Become(h, [job[h] EXCEPT !.at = label, !.seen = s])
End(h) == Become(h, Idle)

\* CPN creates payment p.  A delay or a request for information may be
\* reported of it at any time.
CreatePayment(p, s) ==
    /\ \A q \in Payments : rail[q] = "none" <=> q >= p
    /\ rail' = [rail EXCEPT ![p] = s]
    /\ sent' = [sent EXCEPT ![p] = {"delayed", "informationRequired"}]

\* CPN accepts the signed transaction of a payment that waits for funds.  That
\* it would refuse the same transaction a second time is not relied on.
Accepts(p) ==
    /\ rail[p] \in {"CREATED", "CRYPTO_FUNDS_PENDING"}
    /\ submits[p] < MaxSubmits
    /\ submits' = [submits EXCEPT ![p] = @ + 1]

Insert(p, s, intent) ==
    /\ row' = [row EXCEPT ![p] = s]
    /\ prepared' = [prepared EXCEPT ![p] = intent]
    /\ inserted' = Append(inserted, p)

\* An await rejects where the code expects it.
Rejects == faults < MaxFaults /\ faults' = faults + 1

-----------------------------------------------------------------------------
(* A cash-out in two requests.                                             *)

\* preparePayment: quote, create, remember the intent in this process...
Prepare(h, i) ==
    /\ "prepare" \in Operations
    /\ At(h, "idle")
    /\ \E p \in Payments, s \in {"CREATED", "CRYPTO_FUNDS_PENDING"} :
         /\ CreatePayment(p, s)
         /\ hot' = [hot EXCEPT ![i] = @ \cup {p}]
         /\ Become(h, [Idle EXCEPT !.at = "prepare.record", !.p = p,
                                   !.inst = i, !.seen = s])
    /\ UNCHANGED <<submits, words, table, faults>>

\* ...and store the row with the state CPN answered, and the intent.
PrepareRecord(h) ==
    /\ At(h, "prepare.record")
    /\ Insert(job[h].p, job[h].seen, TRUE)
    /\ End(h)
    /\ UNCHANGED <<cpn, hot, faults>>

\* broadcastPayment, broadcastSignedPayment: loadPrepared takes the intent
\* from memory, or from the row.  A host has the id of a stored cash-out.
Broadcast(h, i, p) ==
    /\ "broadcast" \in Operations
    /\ At(h, "idle")
    /\ row[p] # "absent"
    /\ p \in hot[i] \/ prepared[p]
    /\ hot' = [hot EXCEPT ![i] = @ \cup {p}]
    /\ Become(h, [Idle EXCEPT !.at = "broadcast.submit", !.p = p, !.inst = i,
                              !.polls = MaxPolls])
    /\ UNCHANGED <<cpn, table, faults>>

BroadcastSubmit(h) ==
    /\ At(h, "broadcast.submit")
    /\ \/ Accepts(job[h].p) /\ Goto(h, "broadcast.forget")
       \/ UNCHANGED submits /\ End(h)
    /\ UNCHANGED <<rail, sent, words, table, hot, faults>>

\* Mutant: only the row is cleared.
Forgotten_RowOnly(i, p) == hot
Forgotten(i, p) == [hot EXCEPT ![i] = @ \ {p}]

\* forgetPrepared: from memory and from the row.  A row that cannot be cleared
\* is a warning.
BroadcastForget(h) ==
    LET p == job[h].p
    IN  /\ At(h, "broadcast.forget")
        /\ hot' = Forgotten(job[h].inst, p)
        /\ \/ prepared' = [prepared EXCEPT ![p] = FALSE] /\ UNCHANGED faults
           \/ UNCHANGED prepared /\ Rejects
        /\ Goto(h, "poll.rail")
        /\ UNCHANGED <<cpn, row, inserted>>

-----------------------------------------------------------------------------
(* The payout of an order: createCpnPayoutRail in the recording rail.      *)

ReleaseQuote(h) ==
    /\ "release" \in Operations
    /\ At(h, "idle")
    /\ \E p \in Payments, s \in {"CREATED", "CRYPTO_FUNDS_PENDING"} :
         /\ CreatePayment(p, s)
         /\ Become(h, [Idle EXCEPT !.at = "release.submit", !.p = p])
    /\ UNCHANGED <<submits, words, table, hot, faults>>

\* The order's floor is not met, the quote has expired, or CPN refuses: the
\* payment is left to expire.  An accepted submission is answered with a word
\* of the transaction, whatever the payment's own state is by then.
ReleaseSubmit(h) ==
    LET p == job[h].p
    IN  /\ At(h, "release.submit")
        /\ \/ /\ Accepts(p)
              /\ \E w \in Answers : words' = [words EXCEPT ![p] = @ \cup {w}]
              /\ Goto(h, "release.record")
           \/ UNCHANGED <<submits, words>> /\ End(h)
        /\ UNCHANGED <<rail, sent, table, hot, faults>>

\* Mutant: the word CPN answers a submission with is written as it comes.
initialPaymentState_Word(w) == w

\* The word is kept if it is a payment's too, and CREATED is written for others.
initialPaymentState(w) == IF w \in PaymentState THEN w ELSE "CREATED"

\* A row that cannot be written is logged and forgotten.
ReleaseRecord(h) ==
    /\ At(h, "release.record")
    /\ \/ /\ \E w \in words[job[h].p] :
               Insert(job[h].p, initialPaymentState(w), FALSE)
          /\ UNCHANGED faults
       \/ UNCHANGED table /\ Rejects
    /\ End(h)
    /\ UNCHANGED <<cpn, hot>>

-----------------------------------------------------------------------------
(* Polls.                                                                  *)

\* The recording rail's status(): one poll, on behalf of refreshPayout.
Status(h, p) ==
    /\ "status" \in Operations
    /\ At(h, "idle")
    /\ rail[p] # "none"
    /\ Become(h, [Idle EXCEPT !.at = "poll.rail", !.p = p, !.polls = 1])
    /\ UNCHANGED <<cpn, table, hot, faults>>

\* After a poll: stop at a terminal status, or when the polls are used up.
NextPoll(h) ==
    IF isPaymentTerminal(job[h].seen) \/ job[h].polls = 0
      THEN End(h)
      ELSE Goto(h, "poll.rail")

\* Only a status that differs from the last one is written down.
PollRail(h) ==
    LET s == rail[job[h].p]
        left == job[h].polls - 1
    IN  /\ At(h, "poll.rail")
        /\ IF s # job[h].seen
             THEN Become(h, [job[h] EXCEPT !.at = "poll.row", !.seen = s,
                                           !.polls = left])
             ELSE IF left = 0
                    THEN End(h)
                    ELSE Become(h, [job[h] EXCEPT !.polls = left])
        /\ UNCHANGED <<cpn, table, hot, faults>>

\* persistStatus reads the row...
PollRow(h) ==
    LET current == row[job[h].p]
    IN  /\ At(h, "poll.row")
        /\ IF current # "absent" /\ reconcilePaymentStatus(current, job[h].seen)
             THEN Goto(h, "poll.write")
             ELSE NextPoll(h)
        /\ UNCHANGED <<cpn, table, hot, faults>>

\* ...and writes it.
PollWrite(h) ==
    /\ At(h, "poll.write")
    /\ row' = [row EXCEPT ![job[h].p] = job[h].seen]
    /\ NextPoll(h)
    /\ UNCHANGED <<cpn, prepared, inserted, hot, faults>>

-----------------------------------------------------------------------------
(* Webhooks: the route, verifyAndInterpretCpn and applyCpnEventToStore.    *)

\* CPN delivers a notification it has signed, for the first time or again.
\* One about a payment without a row, or one the reducer ignores, is
\* acknowledged and changes nothing.
Webhook(h, p, n) ==
    /\ "webhook" \in Operations
    /\ At(h, "idle")
    /\ n \in sent[p]
    /\ row[p] # "absent"
    /\ \E to \in PaymentState :
         /\ AppliesEvent(row[p], n, to)
         /\ Become(h, [Idle EXCEPT !.at = "webhook.write", !.p = p,
                                   !.seen = to])
    /\ UNCHANGED <<cpn, table, hot, faults>>

WebhookWrite(h) ==
    /\ At(h, "webhook.write")
    /\ row' = [row EXCEPT ![job[h].p] = job[h].seen]
    /\ End(h)
    /\ UNCHANGED <<cpn, prepared, inserted, hot, faults>>

-----------------------------------------------------------------------------
(* reconcileCpnPayments: the sweep.                                        *)

\* The newest rows first, at most SweepLimit of them.
Newest ==
    LET k == Len(inserted)
        n == IF k < SweepLimit THEN k ELSE SweepLimit
    IN  [j \in 1..n |-> [p |-> inserted[k + 1 - j],
                         status |-> row[inserted[k + 1 - j]]]]

Sweep(h) ==
    /\ "sweep" \in Operations
    /\ At(h, "idle")
    /\ Newest # <<>>
    /\ Become(h, [Idle EXCEPT !.at = "sweep.rail", !.todo = Newest])
    /\ UNCHANGED <<cpn, table, hot, faults>>

NextRow(h) ==
    LET rest == Tail(job[h].todo)
    IN  IF rest = <<>>
          THEN End(h)
          ELSE Become(h, [job[h] EXCEPT !.at = "sweep.rail", !.todo = rest])

\* The status polled is folded into the one the row was listed with; a row
\* that had ended then is passed over.
SweepRail(h) ==
    LET r == Head(job[h].todo)
    IN  /\ At(h, "sweep.rail")
        /\ \/ /\ reconcilePaymentStatus(r.status, rail[r.p])
              /\ Saw(h, rail[r.p], "sweep.write")
              /\ UNCHANGED faults
           \/ /\ ~ reconcilePaymentStatus(r.status, rail[r.p])
              /\ NextRow(h)
              /\ UNCHANGED faults
           \/ Rejects /\ NextRow(h)
        /\ UNCHANGED <<cpn, table, hot>>

SweepWrite(h) ==
    /\ At(h, "sweep.write")
    /\ row' = [row EXCEPT ![Head(job[h].todo).p] = job[h].seen]
    /\ NextRow(h)
    /\ UNCHANGED <<cpn, prepared, inserted, hot, faults>>

-----------------------------------------------------------------------------
(* Outside.                                                                *)

\* CPN moves a payment along its graph, once it is funded; an unfunded one
\* expires.  A rejected request for information fails it.
RailAdvances(p, n) ==
    LET to == IF n = "rejected" THEN "FAILED" ELSE PAYMENT_EVENT_STATE[n]
    IN  /\ rail[p] # "none"
        /\ to \in PAYMENT_NEXT[rail[p]]
        /\ to = "FIAT_PAYMENT_INITIATED" => submits[p] > 0
        /\ rail' = [rail EXCEPT ![p] = to]
        /\ sent' = [sent EXCEPT ![p] = @ \cup {n}]
        /\ UNCHANGED <<submits, words, table, hot, job, overlapped, faults>>

\* The process dies, or an await rejects and nothing catches it: a broadcast
\* whose poll fails throws although CPN has accepted its transaction, and a
\* webhook whose write fails is answered as if its signature were bad.
Interrupt(h) ==
    /\ ~ At(h, "idle")
    /\ Rejects
    /\ End(h)
    /\ UNCHANGED <<cpn, table, hot>>

-----------------------------------------------------------------------------
Init ==
    /\ rail = [p \in Payments |-> "none"]
    /\ sent = [p \in Payments |-> {}]
    /\ submits = [p \in Payments |-> 0]
    /\ words = [p \in Payments |-> {}]
    /\ row = [p \in Payments |-> "absent"]
    /\ prepared = [p \in Payments |-> FALSE]
    /\ inserted = <<>>
    /\ hot = [i \in Instances |-> {}]
    /\ job = [h \in Handlers |-> Idle]
    /\ overlapped = FALSE
    /\ faults = 0

Begin(h) ==
    \/ \E i \in Instances : Prepare(h, i)
    \/ \E i \in Instances, p \in Payments : Broadcast(h, i, p)
    \/ ReleaseQuote(h)
    \/ \E p \in Payments : Status(h, p)
    \/ \E p \in Payments, n \in Notifications : Webhook(h, p, n)
    \/ Sweep(h)

Continue(h) ==
    \/ PrepareRecord(h)
    \/ BroadcastSubmit(h) \/ BroadcastForget(h)
    \/ ReleaseSubmit(h) \/ ReleaseRecord(h)
    \/ PollRail(h) \/ PollRow(h) \/ PollWrite(h)
    \/ WebhookWrite(h)
    \/ SweepRail(h) \/ SweepWrite(h)

Next ==
    \/ \E h \in Handlers : Begin(h) \/ Continue(h) \/ Interrupt(h)
    \/ \E p \in Payments, n \in Notifications \ {"delayed",
                                                  "informationRequired"} :
         RailAdvances(p, n)

Spec == Init /\ [][Next]_vars

TypeOK ==
    /\ rail \in [Payments -> PaymentState \cup {"none"}]
    /\ sent \in [Payments -> SUBSET Notifications]
    /\ submits \in [Payments -> Nat]
    /\ words \in [Payments -> SUBSET Answers]
    /\ row \in [Payments -> PaymentState \cup {"absent"}]
    /\ prepared \in [Payments -> BOOLEAN]
    /\ inserted \in Seq(Payments)
    /\ hot \in [Instances -> SUBSET Payments]
    /\ job \in [Handlers -> Jobs]
    /\ overlapped \in BOOLEAN
    /\ faults \in 0..MaxFaults
=============================================================================
