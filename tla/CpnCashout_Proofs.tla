-------------------------- MODULE CpnCashout_Proofs --------------------------
(***************************************************************************)
(* A row of cpn_payments is never ahead of its payment, for any number of  *)
(* handlers, processes and payments, any limit of the sweep and any faults. *)
(*                                                                         *)
(* The argument: CPN only moves a payment along its graph, so whatever has *)
(* been true of a payment is at or before the place where it is.  A        *)
(* notification, a status a request holds, and a row are all such truths.  *)
(***************************************************************************)
EXTENDS CpnCashoutProperties, FiniteSetTheorems, TLAPS

-----------------------------------------------------------------------------
(* The graph of a payment.                                                 *)

\* What lies downstream of each state.
LEMMA Downstream ==
  ASSUME NEW t
  PROVE  /\ isReachable("CREATED", t) <=>
              t \in {"CRYPTO_FUNDS_PENDING", "FIAT_PAYMENT_INITIATED",
                     "COMPLETED", "FAILED"}
         /\ isReachable("CRYPTO_FUNDS_PENDING", t) <=>
              t \in {"FIAT_PAYMENT_INITIATED", "COMPLETED", "FAILED"}
         /\ isReachable("FIAT_PAYMENT_INITIATED", t) <=>
              t \in {"COMPLETED", "FAILED"}
         /\ ~ isReachable("COMPLETED", t)
         /\ ~ isReachable("FAILED", t)
BY DEF isReachable, PAYMENT_NEXT

\* A step of CPN leaves what was at or before the payment at or before it.
LEMMA StepKeeps ==
  ASSUME NEW s \in PaymentState, NEW t \in PaymentState,
         NEW u \in PAYMENT_NEXT[t], AtOrBefore(s, t)
  PROVE  u \in PaymentState /\ AtOrBefore(s, u)
BY Downstream DEF AtOrBefore, PaymentState, PAYMENT_NEXT

\* Nothing lies after a terminal state.
LEMMA TerminalIsLast ==
  ASSUME NEW s \in PaymentState, NEW t \in PaymentState, AtOrBefore(s, t),
         isPaymentTerminal(s)
  PROVE  s = t
BY Downstream DEF AtOrBefore, PaymentState, isPaymentTerminal

-----------------------------------------------------------------------------
(* Types.                                                                  *)

\* An idle handler's memory is well formed.
LEMMA IdleTyped ==
  Idle \in Jobs /\ Idle.at = "idle"
<1>1. (CHOOSE i \in Instances : TRUE) \in Instances
  BY CashoutAssumption
<1>2. <<>> \in Seq(ListedRows) /\ 0 \in 0..MaxPayments /\ 0 \in 0..MaxPolls
  BY CashoutAssumption
<1> QED BY <1>1, <1>2 DEF Idle, Jobs, Labels

\* A handler that becomes a well-formed job is one, and leaves the others.
LEMMA BecomeTyped ==
  ASSUME TypeOK, NEW h \in Handlers, NEW j \in Jobs, Become(h, j)
  PROVE  /\ job' \in [Handlers -> Jobs] /\ overlapped' \in BOOLEAN
         /\ job'[h] = j
         /\ \A g \in Handlers : g # h => job'[g] = job[g]
BY DEF TypeOK, Become

\* The parts of a well-formed job.
LEMMA JobFields ==
  ASSUME NEW j \in Jobs
  PROVE  /\ j.at \in Labels /\ j.p \in 0..MaxPayments
         /\ j.inst \in Instances
         /\ j.seen \in PaymentState \cup {"none"}
         /\ j.polls \in 0..MaxPolls
         /\ j.todo \in Seq(ListedRows)
BY DEF Jobs

-----------------------------------------------------------------------------
(* What a step keeps.                                                      *)

\* CPN creates a payment, moves it one edge, or leaves it.
Advances ==
    \A p \in Payments :
      \/ rail[p] = "none"
      \/ rail'[p] = rail[p]
      \/ rail[p] # "none" /\ rail'[p] \in PAYMENT_NEXT[rail[p]]

\* What has been true of a payment stays so.
LEMMA HasBeenStays ==
  ASSUME TypeOK, Advances, NEW p \in Payments, NEW s, HasBeen(rail[p], s)
  PROVE  HasBeen(rail'[p], s)
<1>1. s \in PaymentState /\ rail[p] \in PaymentState /\ AtOrBefore(s, rail[p])
  BY DEF HasBeen, TypeOK
<1>2. CASE rail'[p] = rail[p]
  BY <1>1, <1>2 DEF HasBeen, PaymentState
<1>3. CASE rail'[p] \in PAYMENT_NEXT[rail[p]]
  <2>1. rail'[p] \in PaymentState /\ AtOrBefore(s, rail'[p])
    BY <1>1, <1>3, StepKeeps
  <2>2. rail'[p] # "none"
    BY <2>1 DEF PaymentState
  <2> QED BY <1>1, <2>1, <2>2 DEF HasBeen
<1>4. rail[p] # "none"
  BY <1>1 DEF PaymentState
<1> QED BY <1>2, <1>3, <1>4 DEF Advances

\* A request that does not take the step goes on knowing what it knew.
LEMMA OthersKnow ==
  ASSUME CashoutInv, Advances, NEW g \in Handlers, job'[g] = job[g]
  PROVE  JobKnows(job[g])'
<1>1. TypeOK /\ JobKnows(job[g]) /\ job[g] \in Jobs
  BY DEF CashoutInv, TypeOK
<1>2. \A p \in Payments : rail[p] # "none" => rail'[p] # "none"
  <2>1. \A t \in PaymentState : \A u \in PAYMENT_NEXT[t] : u # "none"
    BY DEF PaymentState, PAYMENT_NEXT
  <2> QED BY <1>1, <2>1 DEF Advances, TypeOK
<1>3. \A p \in Payments : \A s : HasBeen(rail[p], s) => HasBeen(rail'[p], s)
  BY <1>1, HasBeenStays
<1>4. ASSUME job[g].at = "sweep.write"
      PROVE  Head(job[g].todo).p \in Payments
  <2>1. job[g].todo \in Seq(ListedRows)
    BY <1>1, JobFields
  <2>2. job[g].todo # <<>>
    BY <1>1, <1>4 DEF JobKnows
  <2>3. Head(job[g].todo) \in ListedRows
    BY <2>1, <2>2
  <2> QED BY <2>3 DEF ListedRows
<1> QED BY <1>1, <1>2, <1>3, <1>4 DEF JobKnows

\* The list of rows is left alone, or a row that is there is added to it.
KeepsList ==
    \/ inserted' = inserted
    \/ \E p \in Payments :
         inserted' = Append(inserted, p) /\ row'[p] # "absent"

\* What a payout's submission was answered with is not forgotten.
KeepsWords == \A p \in Payments : words[p] \subseteq words'[p]

\* So a payout that ended early has done so for good.
LEMMA EarlyStays ==
  ASSUME KeepsWords, NEW p \in Payments, EndedEarly(p)
  PROVE  EndedEarly(p)'
BY DEF KeepsWords, EndedEarly

\* What a row says goes on being true.
LEMMA RowStaysTrue ==
  ASSUME TypeOK, Advances, KeepsWords, NEW p \in Payments, RowIsTrue(p),
         row'[p] = row[p]
  PROVE  RowIsTrue(p)'
<1>1. \A t \in PaymentState : \A u \in PAYMENT_NEXT[t] : u # "none"
  BY DEF PaymentState, PAYMENT_NEXT
<1>2. rail[p] # "none" => rail'[p] # "none"
  BY <1>1 DEF Advances, TypeOK
<1>3. CASE HasBeen(rail[p], row[p])
  BY <1>3, HasBeenStays DEF RowIsTrue
<1>4. CASE rail[p] # "none" /\ EndedEarly(p)
  BY <1>2, <1>4, EarlyStays DEF RowIsTrue
<1> QED BY <1>3, <1>4 DEF RowIsTrue

\* A step of one request, or of none, that keeps the types, adds only rows and
\* notifications that tell the truth, and leaves the request that took it with
\* what it ought to know, keeps the invariant.
LEMMA StepKeepsInv ==
  ASSUME CashoutInv, TypeOK', Advances, KeepsWords,
         \A g \in Handlers : job'[g] = job[g] \/ JobKnows(job[g])',
         \A p \in Payments :
           row'[p] = row[p] \/ (row'[p] # "absent" /\ RowIsTrue(p)'),
         KeepsList,
         \A p \in Payments : \A n \in sent'[p] :
           n \in sent[p] \/ Tells(n) = "null" \/ HasBeen(rail'[p], Tells(n))
  PROVE  CashoutInv'
<1>1. \A g \in Handlers : JobKnows(job[g])'
  BY OthersKnow
<1>2. \A p \in Payments : \A s : HasBeen(rail[p], s) => HasBeen(rail'[p], s)
  BY HasBeenStays DEF CashoutInv
<1>3. \A p \in Payments : row'[p] # "absent" => RowIsTrue(p)'
  BY RowStaysTrue DEF CashoutInv
<1>4. \A p \in Payments : \A n \in sent'[p] :
        Tells(n) # "null" => HasBeen(rail'[p], Tells(n))
  BY <1>2 DEF CashoutInv
<1>5. \A k \in 1..Len(inserted') : row'[inserted'[k]] # "absent"
  <2>1. inserted \in Seq(Payments)
    BY DEF CashoutInv, TypeOK
  <2>2. \A p \in Payments : row[p] # "absent" => row'[p] # "absent"
    OBVIOUS
  <2>3. \A k \in 1..Len(inserted) : row'[inserted[k]] # "absent"
    BY <2>1, <2>2 DEF CashoutInv
  <2>4. CASE \E p \in Payments :
               inserted' = Append(inserted, p) /\ row'[p] # "absent"
    BY <2>1, <2>3, <2>4
  <2> QED BY <2>3, <2>4 DEF KeepsList
<1> QED BY <1>1, <1>3, <1>4, <1>5 DEF CashoutInv

-----------------------------------------------------------------------------
(* The actions.                                                            *)

\* End keeps the type of job, and ends the request.
LEMMA EndTyped ==
  ASSUME TypeOK, NEW h \in Handlers, End(h)
  PROVE  /\ job' \in [Handlers -> Jobs] /\ overlapped' \in BOOLEAN
         /\ \A g \in Handlers : g # h => job'[g] = job[g]
         /\ JobKnows(job[h])'
<1>1. job'[h] = Idle /\ \A g \in Handlers : g # h => job'[g] = job[g]
  BY IdleTyped, BecomeTyped DEF End
<1>2. JobKnows(job[h])'
  BY <1>1 DEF JobKnows, Idle
<1> QED BY <1>1, <1>2, IdleTyped, BecomeTyped DEF End

\* Goto keeps the type of job, and changes only the place.
LEMMA GotoTyped ==
  ASSUME TypeOK, NEW h \in Handlers, NEW l \in Labels, Goto(h, l)
  PROVE  /\ job' \in [Handlers -> Jobs] /\ overlapped' \in BOOLEAN
         /\ \A g \in Handlers : g # h => job'[g] = job[g]
         /\ job'[h] = [job[h] EXCEPT !.at = l]
<1>1. [job[h] EXCEPT !.at = l] \in Jobs
  BY DEF TypeOK, Jobs
<1> QED BY <1>1, BecomeTyped DEF Goto

LEMMA PrepareSteps ==
  ASSUME CashoutInv, NEW h \in Handlers, NEW i \in Instances, Prepare(h, i)
  PROVE  CashoutInv'
<1>1. PICK p \in Payments, s \in {"CREATED", "CRYPTO_FUNDS_PENDING"} :
        /\ CreatePayment(p, s)
        /\ hot' = [hot EXCEPT ![i] = @ \cup {p}]
        /\ Become(h, [Idle EXCEPT !.at = "prepare.record", !.p = p,
                                  !.inst = i, !.seen = s])
        /\ UNCHANGED <<submits, words, table, faults>>
  BY DEF Prepare
<1> DEFINE j == [Idle EXCEPT !.at = "prepare.record", !.p = p,
                             !.inst = i, !.seen = s]
<1>2. j \in Jobs /\ j.at = "prepare.record" /\ j.p = p /\ j.seen = s
  <2>1. /\ "prepare.record" \in Labels /\ p \in 0..MaxPayments
        /\ s \in PaymentState \cup {"none"}
    BY CashoutAssumption DEF Labels, Payments, PaymentState
  <2>2. j \in Jobs
    BY <2>1, IdleTyped DEF Jobs
  <2> QED BY <2>2 DEF Idle
<1>3. TypeOK
  BY DEF CashoutInv
<1>4. /\ job' \in [Handlers -> Jobs] /\ overlapped' \in BOOLEAN /\ job'[h] = j
      /\ \A g \in Handlers : g # h => job'[g] = job[g]
  BY <1>1, <1>2, <1>3, BecomeTyped
<1>5. /\ rail[p] = "none" /\ rail'[p] = s
      /\ rail' = [rail EXCEPT ![p] = s]
      /\ sent' = [sent EXCEPT ![p] = {"delayed", "informationRequired"}]
  BY <1>1, <1>3 DEF CreatePayment, TypeOK, Payments
<1>6. TypeOK'
  BY <1>1, <1>3, <1>4, <1>5
     DEF TypeOK, table, PaymentState, Notifications, PaymentEvents,
         PAYMENT_EVENT_STATE, RfiEvents
<1>7. Advances /\ KeepsWords
  BY <1>1, <1>3, <1>5 DEF Advances, KeepsWords, TypeOK
<1>8. JobKnows(job[h])'
  <2>1. HasBeen(rail'[p], s)
    BY <1>5 DEF HasBeen, AtOrBefore, PaymentState
  <2> QED BY <1>2, <1>4, <2>1 DEF JobKnows
<1>9. \A q \in Payments : \A n \in sent'[q] :
        n \in sent[q] \/ Tells(n) = "null"
  BY <1>3, <1>5
     DEF TypeOK, Tells, PaymentEvents, PAYMENT_EVENT_STATE
<1> QED
  BY <1>1, <1>4, <1>6, <1>7, <1>8, <1>9, StepKeepsInv DEF KeepsList, table

LEMMA ReleaseQuoteSteps ==
  ASSUME CashoutInv, NEW h \in Handlers, ReleaseQuote(h)
  PROVE  CashoutInv'
<1>1. PICK p \in Payments, s \in {"CREATED", "CRYPTO_FUNDS_PENDING"} :
        /\ CreatePayment(p, s)
        /\ Become(h, [Idle EXCEPT !.at = "release.submit", !.p = p])
        /\ UNCHANGED <<submits, words, table, hot, faults>>
  BY DEF ReleaseQuote
<1> DEFINE j == [Idle EXCEPT !.at = "release.submit", !.p = p]
<1>2. j \in Jobs /\ j.at = "release.submit" /\ j.p = p
  <2>1. "release.submit" \in Labels /\ p \in 0..MaxPayments
    BY CashoutAssumption DEF Labels, Payments
  <2>2. j \in Jobs
    BY <2>1, IdleTyped DEF Jobs
  <2> QED BY <2>2 DEF Idle
<1>3. TypeOK
  BY DEF CashoutInv
<1>4. /\ job' \in [Handlers -> Jobs] /\ overlapped' \in BOOLEAN /\ job'[h] = j
      /\ \A g \in Handlers : g # h => job'[g] = job[g]
  BY <1>1, <1>2, <1>3, BecomeTyped
<1>5. /\ rail[p] = "none" /\ rail'[p] = s
      /\ rail' = [rail EXCEPT ![p] = s]
      /\ sent' = [sent EXCEPT ![p] = {"delayed", "informationRequired"}]
  BY <1>1, <1>3 DEF CreatePayment, TypeOK, Payments
<1>6. TypeOK'
  BY <1>1, <1>3, <1>4, <1>5
     DEF TypeOK, table, PaymentState, Notifications, PaymentEvents,
         PAYMENT_EVENT_STATE, RfiEvents
<1>7. Advances /\ KeepsWords
  BY <1>1, <1>3, <1>5 DEF Advances, KeepsWords, TypeOK
<1>8. JobKnows(job[h])'
  BY <1>2, <1>4, <1>5 DEF JobKnows
<1>9. \A q \in Payments : \A n \in sent'[q] :
        n \in sent[q] \/ Tells(n) = "null"
  BY <1>3, <1>5
     DEF TypeOK, Tells, PaymentEvents, PAYMENT_EVENT_STATE
<1> QED
  BY <1>1, <1>4, <1>6, <1>7, <1>8, <1>9, StepKeepsInv DEF KeepsList, table

LEMMA RailAdvancesSteps ==
  ASSUME CashoutInv, NEW p \in Payments, NEW n \in Notifications,
         n \notin {"delayed", "informationRequired"}, RailAdvances(p, n)
  PROVE  CashoutInv'
<1> DEFINE to == IF n = "rejected" THEN "FAILED" ELSE PAYMENT_EVENT_STATE[n]
<1>1. /\ rail[p] # "none" /\ to \in PAYMENT_NEXT[rail[p]]
      /\ rail' = [rail EXCEPT ![p] = to]
      /\ sent' = [sent EXCEPT ![p] = @ \cup {n}]
      /\ UNCHANGED <<submits, words, table, hot, job, overlapped, faults>>
  BY DEF RailAdvances
<1>2. TypeOK /\ rail[p] \in PaymentState
  BY <1>1 DEF CashoutInv, TypeOK
<1>3. to \in PaymentState /\ Tells(n) = to
  <2>1. n \in PaymentEvents \cup RfiEvents
    BY DEF Notifications
  <2> QED
    BY <2>1 DEF Tells, PaymentEvents, PAYMENT_EVENT_STATE, RfiEvents,
                PaymentState
<1> HIDE DEF to
<1>4. rail'[p] = to /\ \A q \in Payments : q # p => rail'[q] = rail[q]
  BY <1>1, <1>2 DEF TypeOK
<1>5. TypeOK'
  BY <1>1, <1>2, <1>3 DEF TypeOK, table
<1>6. Advances /\ KeepsWords
  BY <1>1, <1>4 DEF Advances, KeepsWords
<1>7. HasBeen(rail'[p], Tells(n))
  BY <1>3, <1>4 DEF HasBeen, AtOrBefore, PaymentState
<1>8. \A q \in Payments : \A m \in sent'[q] :
        m \in sent[q] \/ Tells(m) = "null" \/ HasBeen(rail'[q], Tells(m))
  BY <1>1, <1>2, <1>7 DEF TypeOK
<1> QED BY <1>1, <1>5, <1>6, <1>8, StepKeepsInv DEF KeepsList, table

\* The other steps leave CPN's payments where they are.
LEMMA SteadySteps ==
  ASSUME CashoutInv, TypeOK', UNCHANGED <<rail, sent, words>>,
         NEW h \in Handlers,
         \A g \in Handlers : g # h => job'[g] = job[g],
         JobKnows(job[h])',
         \A p \in Payments : row'[p] = row[p] \/ HasBeen(rail[p], row'[p]),
         KeepsList
  PROVE  CashoutInv'
<1>1. Advances /\ KeepsWords
  BY DEF Advances, KeepsWords
<1>2. \A p \in Payments : HasBeen(rail[p], row'[p]) =>
        row'[p] # "absent" /\ RowIsTrue(p)'
  BY DEF HasBeen, RowIsTrue, PaymentState
<1> QED BY <1>1, <1>2, StepKeepsInv

\* What a request in flight holds is well formed, and what it knows holds.
LEMMA InFlight ==
  ASSUME CashoutInv, NEW h \in Handlers
  PROVE  /\ TypeOK /\ job[h] \in Jobs /\ JobKnows(job[h])
         /\ job[h].p \in 0..MaxPayments /\ job[h].inst \in Instances
         /\ job[h].seen \in PaymentState \cup {"none"}
         /\ job[h].polls \in 0..MaxPolls
         /\ job[h].todo \in Seq(ListedRows)
BY JobFields DEF CashoutInv, TypeOK

LEMMA PrepareRecordSteps ==
  ASSUME CashoutInv, NEW h \in Handlers, PrepareRecord(h)
  PROVE  CashoutInv'
<1>1. job[h].p \in Payments /\ HasBeen(rail[job[h].p], job[h].seen)
  BY InFlight DEF PrepareRecord, At, JobKnows
<1>2. TypeOK'
  BY <1>1, InFlight, EndTyped
     DEF PrepareRecord, Insert, TypeOK, cpn, HasBeen
<1>3. \A p \in Payments : row'[p] = row[p] \/ HasBeen(rail[p], row'[p])
  BY <1>1, InFlight DEF PrepareRecord, Insert, TypeOK
<1>4. KeepsList
  BY <1>1, InFlight DEF PrepareRecord, Insert, KeepsList, TypeOK, HasBeen,
                        PaymentState
<1> QED
  BY <1>2, <1>3, <1>4, InFlight, EndTyped, SteadySteps DEF PrepareRecord, cpn

LEMMA BroadcastSteps ==
  ASSUME CashoutInv, NEW h \in Handlers, NEW i \in Instances,
         NEW p \in Payments, Broadcast(h, i, p)
  PROVE  CashoutInv'
<1> DEFINE j == [Idle EXCEPT !.at = "broadcast.submit", !.p = p, !.inst = i,
                             !.polls = MaxPolls]
<1>1. /\ j \in Jobs /\ j.at = "broadcast.submit" /\ j.p = p
      /\ j.polls > 0
  <2>1. /\ "broadcast.submit" \in Labels /\ p \in 0..MaxPayments
        /\ MaxPolls \in 0..MaxPolls
    BY CashoutAssumption DEF Labels, Payments
  <2>2. j \in Jobs
    BY <2>1, IdleTyped DEF Jobs
  <2>3. j.polls = MaxPolls /\ j.at = "broadcast.submit" /\ j.p = p
    BY <2>2 DEF Idle
  <2> QED BY <2>2, <2>3, CashoutAssumption
<1>2. rail[p] # "none"
  BY DEF Broadcast, CashoutInv, RowIsTrue, HasBeen
<1>3. /\ job' \in [Handlers -> Jobs] /\ overlapped' \in BOOLEAN /\ job'[h] = j
      /\ \A g \in Handlers : g # h => job'[g] = job[g]
  BY <1>1, InFlight, BecomeTyped DEF Broadcast
<1>4. TypeOK'
  BY <1>3, InFlight DEF Broadcast, TypeOK, cpn, table
<1>5. JobKnows(job[h])'
  BY <1>1, <1>2, <1>3 DEF JobKnows, Broadcast, cpn
<1> QED BY <1>3, <1>4, <1>5, SteadySteps DEF KeepsList, Broadcast, cpn, table

\* A submission is accepted or not, and nothing else moves.
LEMMA SubmitSteps ==
  ASSUME CashoutInv, NEW h \in Handlers,
         BroadcastSubmit(h) \/ ReleaseSubmit(h)
  PROVE  CashoutInv'
<1>0. At(h, "broadcast.submit") => job[h].polls > 0
  BY InFlight DEF At, JobKnows
<1> DEFINE next == IF At(h, "broadcast.submit") THEN "broadcast.forget"
                                                ELSE "release.record"
<1>1. job[h].p \in Payments /\ rail[job[h].p] # "none"
  BY InFlight DEF BroadcastSubmit, ReleaseSubmit, At, JobKnows
<1>2. /\ next \in Labels /\ next \in {"broadcast.forget", "release.record"}
      /\ next = "broadcast.forget" => job[h].polls > 0
  BY <1>0 DEF Labels
<1>3. \/ Goto(h, next) /\ submits' = [submits EXCEPT ![job[h].p] = @ + 1]
      \/ End(h) /\ UNCHANGED submits
  BY DEF BroadcastSubmit, ReleaseSubmit, Accepts, At
<1>4. UNCHANGED <<rail, sent, table, hot, faults>>
  BY DEF BroadcastSubmit, ReleaseSubmit
<1>8. \/ UNCHANGED words
      \/ \E w \in Answers :
           words' = [words EXCEPT ![job[h].p] = @ \cup {w}]
  BY DEF BroadcastSubmit, ReleaseSubmit
<1>9. words' \in [Payments -> SUBSET Answers] /\ KeepsWords
  <2>1. words \in [Payments -> SUBSET Answers]
    BY InFlight DEF TypeOK
  <2>2. CASE UNCHANGED words
    BY <2>1, <2>2 DEF KeepsWords
  <2>3. ASSUME NEW w \in Answers,
               words' = [words EXCEPT ![job[h].p] = @ \cup {w}]
        PROVE  words' \in [Payments -> SUBSET Answers] /\ KeepsWords
    BY <2>1, <2>3 DEF KeepsWords
  <2> QED BY <1>8, <2>2, <2>3
<1> HIDE DEF next
<1>5. /\ job' \in [Handlers -> Jobs] /\ overlapped' \in BOOLEAN
      /\ \A g \in Handlers : g # h => job'[g] = job[g]
      /\ JobKnows(job[h])'
  <2>1. CASE Goto(h, next)
    <3>0. job'[h] = [job[h] EXCEPT !.at = next] /\ job[h] \in Jobs
      BY <1>2, <2>1, InFlight, GotoTyped
    <3>1. /\ job'[h].at = next /\ job'[h].p = job[h].p
          /\ job'[h].polls = job[h].polls
      BY <3>0 DEF Jobs
    <3>2. rail' = rail
      BY <1>4
    <3>3. JobKnows(job[h])'
      <4>1. CASE next = "broadcast.forget"
        BY <1>1, <1>2, <3>1, <3>2, <4>1 DEF JobKnows
      <4>2. CASE next = "release.record"
        BY <1>1, <3>1, <3>2, <4>2 DEF JobKnows
      <4> QED BY <1>2, <4>1, <4>2
    <3> QED BY <1>2, <2>1, <3>3, InFlight, GotoTyped
  <2> QED BY <1>3, <2>1, InFlight, EndTyped
<1>6. submits' \in [Payments -> Nat]
  BY <1>1, <1>3, InFlight DEF TypeOK
<1>7. TypeOK'
  BY <1>4, <1>5, <1>6, <1>9, InFlight DEF TypeOK, table
<1>10. Advances
  BY <1>4 DEF Advances
<1> QED BY <1>4, <1>5, <1>7, <1>9, <1>10, StepKeepsInv DEF KeepsList, table

\* Rejects counts a fault within the bound.
LEMMA FaultCounted ==
  ASSUME TypeOK, Rejects \/ UNCHANGED faults
  PROVE  faults' \in 0..MaxFaults
BY CashoutAssumption DEF TypeOK, Rejects

LEMMA BroadcastForgetSteps ==
  ASSUME CashoutInv, NEW h \in Handlers, BroadcastForget(h)
  PROVE  CashoutInv'
<1>1. job[h].p \in Payments /\ rail[job[h].p] # "none" /\ job[h].polls > 0
  BY InFlight DEF BroadcastForget, At, JobKnows
<1>2. /\ job' \in [Handlers -> Jobs] /\ overlapped' \in BOOLEAN
      /\ \A g \in Handlers : g # h => job'[g] = job[g]
      /\ job'[h] = [job[h] EXCEPT !.at = "poll.rail"]
  BY InFlight, GotoTyped DEF BroadcastForget, Labels
<1>3. /\ job'[h].at = "poll.rail" /\ job'[h].p = job[h].p
      /\ job'[h].polls = job[h].polls
  BY <1>2, InFlight DEF Jobs
<1>4. JobKnows(job[h])'
  BY <1>1, <1>3 DEF JobKnows, BroadcastForget, cpn
<1>5. hot' \in [Instances -> SUBSET Payments]
  BY <1>1, InFlight DEF BroadcastForget, Forgotten, TypeOK
<1>6. prepared' \in [Payments -> BOOLEAN] /\ faults' \in 0..MaxFaults
  BY <1>1, InFlight, FaultCounted DEF BroadcastForget, TypeOK
<1>7. TypeOK'
  BY <1>2, <1>5, <1>6, InFlight DEF BroadcastForget, TypeOK, cpn
<1> QED
  BY <1>2, <1>4, <1>7, SteadySteps DEF KeepsList, BroadcastForget, cpn

LEMMA ReleaseRecordSteps ==
  ASSUME CashoutInv, NEW h \in Handlers, ReleaseRecord(h)
  PROVE  CashoutInv'
<1>0. PICK p : p = job[h].p
  OBVIOUS
<1>1. p \in Payments /\ rail[p] # "none" /\ rail[p] \in PaymentState
  <2>1. p \in Payments /\ rail[p] # "none"
    BY <1>0, InFlight DEF ReleaseRecord, At, JobKnows
  <2> QED BY <2>1, InFlight DEF TypeOK
<1>2. HasBeen(rail[p], "CREATED")
  BY <1>1, Downstream DEF HasBeen, AtOrBefore, PaymentState
<1>3. faults' \in 0..MaxFaults
  BY InFlight, FaultCounted DEF ReleaseRecord
<1>4. CASE UNCHANGED table
  <2>1. TypeOK'
    BY <1>3, <1>4, InFlight, EndTyped DEF ReleaseRecord, TypeOK, cpn, table
  <2> QED
    BY <1>4, <2>1, InFlight, EndTyped, SteadySteps
       DEF KeepsList, ReleaseRecord, cpn, table
<1>5. ASSUME NEW w \in words[p], Insert(p, initialPaymentState(w), FALSE)
      PROVE  CashoutInv'
  <2> DEFINE s == initialPaymentState(w)
  <2>1. s \in PaymentState /\ s # "absent"
    BY DEF initialPaymentState, PaymentState
  <2>2. s = "CREATED" \/ EndedEarly(p)
    <3>1. w \in TransactionState
      BY <1>1, InFlight, CashoutAssumption DEF TypeOK
    <3> QED
      BY <3>1 DEF TransactionState, initialPaymentState, PaymentState,
                  EndedEarly, isPaymentTerminal
  <2> HIDE DEF s
  <2>3. row' = [row EXCEPT ![p] = s] /\ inserted' = Append(inserted, p)
    BY <1>5 DEF Insert, s
  <2>4. UNCHANGED <<rail, sent, submits, words, hot>>
    BY DEF ReleaseRecord, cpn
  <2>5. Advances /\ KeepsWords
    BY <2>4 DEF Advances, KeepsWords
  <2>6. TypeOK'
    <3>1. row' \in [Payments -> PaymentState \cup {"absent"}]
      BY <1>1, <2>1, <2>3, InFlight DEF TypeOK
    <3>2. inserted' \in Seq(Payments)
      BY <1>1, <2>3, InFlight DEF TypeOK
    <3>3. prepared' \in [Payments -> BOOLEAN]
      BY <1>1, <1>5, InFlight DEF Insert, TypeOK
    <3> QED
      BY <1>3, <2>4, <3>1, <3>2, <3>3, InFlight, EndTyped
         DEF ReleaseRecord, TypeOK
  <2>7. row'[p] = s /\ \A q \in Payments : q # p => row'[q] = row[q]
    BY <1>1, <2>3, InFlight DEF TypeOK
  <2>8. RowIsTrue(p)'
    <3>1. EndedEarly(p) => EndedEarly(p)'
      BY <1>1, <2>5, EarlyStays
    <3> QED BY <1>1, <1>2, <2>2, <2>4, <2>7, <3>1 DEF RowIsTrue
  <2>9. KeepsList
    BY <1>1, <2>1, <2>3, <2>7 DEF KeepsList
  <2> QED
    BY <1>1, <2>1, <2>4, <2>5, <2>6, <2>7, <2>8, <2>9, InFlight, EndTyped,
       StepKeepsInv DEF ReleaseRecord
<1> QED BY <1>0, <1>4, <1>5 DEF ReleaseRecord

LEMMA StatusSteps ==
  ASSUME CashoutInv, NEW h \in Handlers, NEW p \in Payments, Status(h, p)
  PROVE  CashoutInv'
<1> DEFINE j == [Idle EXCEPT !.at = "poll.rail", !.p = p, !.polls = 1]
<1>1. j \in Jobs /\ j.at = "poll.rail" /\ j.p = p /\ j.polls = 1
  <2>1. /\ "poll.rail" \in Labels /\ p \in 0..MaxPayments
        /\ 1 \in 0..MaxPolls
    BY CashoutAssumption DEF Labels, Payments
  <2>2. j \in Jobs
    BY <2>1, IdleTyped DEF Jobs
  <2> QED BY <2>2 DEF Idle
<1>2. /\ job' \in [Handlers -> Jobs] /\ overlapped' \in BOOLEAN /\ job'[h] = j
      /\ \A g \in Handlers : g # h => job'[g] = job[g]
  BY <1>1, InFlight, BecomeTyped DEF Status
<1>3. TypeOK'
  BY <1>2, InFlight DEF Status, TypeOK, cpn, table
<1>4. JobKnows(job[h])'
  BY <1>1, <1>2 DEF JobKnows, Status, cpn
<1> QED BY <1>2, <1>3, <1>4, SteadySteps DEF KeepsList, Status, cpn, table

\* After a poll: the request ends, or polls a payment that exists.
LEMMA NextPollTyped ==
  ASSUME CashoutInv, NEW h \in Handlers, NextPoll(h), UNCHANGED rail,
         job[h].p \in Payments, rail[job[h].p] # "none"
  PROVE  /\ job' \in [Handlers -> Jobs] /\ overlapped' \in BOOLEAN
         /\ \A g \in Handlers : g # h => job'[g] = job[g]
         /\ JobKnows(job[h])'
<1>1. CASE End(h)
  BY <1>1, InFlight, EndTyped
<1>2. CASE Goto(h, "poll.rail") /\ job[h].polls # 0
  <2>1. /\ job' \in [Handlers -> Jobs] /\ overlapped' \in BOOLEAN
        /\ \A g \in Handlers : g # h => job'[g] = job[g]
        /\ job'[h] = [job[h] EXCEPT !.at = "poll.rail"]
    BY <1>2, InFlight, GotoTyped DEF Labels
  <2>2. /\ job'[h].at = "poll.rail" /\ job'[h].p = job[h].p
        /\ job'[h].polls = job[h].polls
    BY <2>1, InFlight DEF Jobs
  <2>3. job[h].polls > 0
    BY <1>2, InFlight, CashoutAssumption
  <2>4. JobKnows(job[h])'
    BY <2>2, <2>3 DEF JobKnows
  <2> QED BY <1>2, <2>1, <2>4, InFlight DEF TypeOK
<1> QED BY <1>1, <1>2 DEF NextPoll

\* A poll sees the state the payment is in.
LEMMA PollRailSteps ==
  ASSUME CashoutInv, NEW h \in Handlers, PollRail(h)
  PROVE  CashoutInv'
<1> DEFINE s == rail[job[h].p]
<1> DEFINE left == job[h].polls - 1
<1>1. /\ job[h].p \in Payments /\ s # "none" /\ s \in PaymentState
      /\ left \in 0..MaxPolls
  <2>1. /\ job[h].p \in Payments /\ s # "none" /\ job[h].polls > 0
    BY InFlight DEF PollRail, At, JobKnows
  <2>2. s \in PaymentState
    BY <2>1, InFlight DEF TypeOK
  <2> QED BY <2>1, <2>2, InFlight, CashoutAssumption
<1>2. UNCHANGED <<cpn, table, hot, faults>>
  BY DEF PollRail
<1>3. /\ job' \in [Handlers -> Jobs] /\ overlapped' \in BOOLEAN
      /\ \A g \in Handlers : g # h => job'[g] = job[g]
      /\ JobKnows(job[h])'
  <2>1. CASE Become(h, [job[h] EXCEPT !.at = "poll.row", !.seen = s,
                                     !.polls = left])
    <3> DEFINE j == [job[h] EXCEPT !.at = "poll.row", !.seen = s,
                                   !.polls = left]
    <3>1. "poll.row" \in Labels
      BY DEF Labels
    <3>2. j \in Jobs /\ j.at = "poll.row" /\ j.seen = s /\ j.p = job[h].p
      BY <1>1, <3>1, InFlight DEF Jobs
    <3>3. /\ job' \in [Handlers -> Jobs] /\ overlapped' \in BOOLEAN
          /\ job'[h] = j
          /\ \A g \in Handlers : g # h => job'[g] = job[g]
      BY <2>1, <3>2, InFlight, BecomeTyped
    <3>4. HasBeen(rail'[job[h].p], s)
      BY <1>1, <1>2 DEF HasBeen, AtOrBefore, cpn
    <3>5. JobKnows(job[h])'
      BY <1>1, <3>2, <3>3, <3>4 DEF JobKnows
    <3> QED BY <2>1, <3>3, <3>5, InFlight DEF TypeOK
  <2>2. CASE End(h)
    BY <2>2, InFlight, EndTyped
  <2>3. CASE /\ Become(h, [job[h] EXCEPT !.polls = left]) /\ left # 0
    <3> DEFINE j == [job[h] EXCEPT !.polls = left]
    <3>1. j \in Jobs /\ j.at = "poll.rail" /\ j.p = job[h].p /\ j.polls = left
      BY <1>1, InFlight DEF Jobs, PollRail, At
    <3>2. /\ job' \in [Handlers -> Jobs] /\ overlapped' \in BOOLEAN
          /\ job'[h] = j
          /\ \A g \in Handlers : g # h => job'[g] = job[g]
      BY <2>3, <3>1, InFlight, BecomeTyped
    <3>3. left > 0 /\ rail' = rail
      <4> HIDE DEF left
      <4>1. left > 0
        BY <1>1, <2>3, CashoutAssumption
      <4> QED BY <1>2, <4>1 DEF cpn
    <3>4. JobKnows(job[h])'
      BY <1>1, <3>1, <3>2, <3>3 DEF JobKnows
    <3> QED BY <2>3, <3>2, <3>4, InFlight DEF TypeOK
  <2> QED BY <2>1, <2>2, <2>3 DEF PollRail
<1>4. TypeOK'
  BY <1>2, <1>3, InFlight DEF TypeOK, cpn, table
<1> QED BY <1>2, <1>3, <1>4, SteadySteps DEF KeepsList, cpn, table

LEMMA PollRowSteps ==
  ASSUME CashoutInv, NEW h \in Handlers, PollRow(h)
  PROVE  CashoutInv'
<1>1. /\ job[h].p \in Payments /\ HasBeen(rail[job[h].p], job[h].seen)
      /\ UNCHANGED <<cpn, table, hot, faults>>
  BY InFlight DEF PollRow, At, JobKnows
<1>2. /\ job' \in [Handlers -> Jobs] /\ overlapped' \in BOOLEAN
      /\ \A g \in Handlers : g # h => job'[g] = job[g]
      /\ JobKnows(job[h])'
  <2>1. CASE Goto(h, "poll.write")
    <3>1. /\ job' \in [Handlers -> Jobs] /\ overlapped' \in BOOLEAN
          /\ job[h] \in Jobs
          /\ \A g \in Handlers : g # h => job'[g] = job[g]
          /\ job'[h] = [job[h] EXCEPT !.at = "poll.write"]
      BY <2>1, InFlight, GotoTyped DEF Labels
    <3>2. /\ job'[h].at = "poll.write" /\ job'[h].p = job[h].p
          /\ job'[h].seen = job[h].seen
      BY <3>1 DEF Jobs
    <3>3. JobKnows(job[h])'
      BY <1>1, <3>2 DEF JobKnows, cpn
    <3> QED BY <2>1, <3>1, <3>3, InFlight DEF TypeOK
  <2>2. CASE NextPoll(h)
    BY <1>1, <2>2, NextPollTyped DEF cpn, HasBeen
  <2> QED BY <2>1, <2>2 DEF PollRow
<1>3. TypeOK'
  BY <1>1, <1>2, InFlight DEF TypeOK, cpn, table
<1> QED BY <1>1, <1>2, <1>3, SteadySteps DEF KeepsList, cpn, table

\* A row written with a state its payment has been in tells the truth.
LEMMA RowWritten ==
  ASSUME CashoutInv, NEW p \in Payments, NEW s, HasBeen(rail[p], s),
         row' = [row EXCEPT ![p] = s]
  PROVE  /\ row' \in [Payments -> PaymentState \cup {"absent"}]
         /\ \A q \in Payments : row'[q] = row[q] \/ HasBeen(rail[q], row'[q])
BY DEF CashoutInv, TypeOK, HasBeen

LEMMA PollWriteSteps ==
  ASSUME CashoutInv, NEW h \in Handlers, PollWrite(h)
  PROVE  CashoutInv'
<1>1. /\ job[h].p \in Payments /\ HasBeen(rail[job[h].p], job[h].seen)
      /\ row' = [row EXCEPT ![job[h].p] = job[h].seen]
      /\ UNCHANGED <<cpn, prepared, inserted, hot, faults>>
  BY InFlight DEF PollWrite, At, JobKnows
<1>2. /\ job' \in [Handlers -> Jobs] /\ overlapped' \in BOOLEAN
      /\ \A g \in Handlers : g # h => job'[g] = job[g]
      /\ JobKnows(job[h])'
  BY <1>1, NextPollTyped DEF PollWrite, cpn, HasBeen
<1>3. /\ row' \in [Payments -> PaymentState \cup {"absent"}]
      /\ \A q \in Payments : row'[q] = row[q] \/ HasBeen(rail[q], row'[q])
  BY <1>1, RowWritten
<1>4. TypeOK'
  BY <1>1, <1>2, <1>3, InFlight DEF TypeOK, cpn
<1> QED BY <1>1, <1>2, <1>3, <1>4, SteadySteps DEF KeepsList, cpn

-----------------------------------------------------------------------------
(* Webhooks.                                                               *)

\* The reducer moves a row to the state the notification tells of.
LEMMA EventTells ==
  ASSUME NEW c, NEW n, NEW to \in PaymentState, AppliesEvent(c, n, to)
  PROVE  Tells(n) = to /\ to # "null"
BY DEF AppliesEvent, failsPayment, Tells, PaymentEvents, PAYMENT_EVENT_STATE,
       PaymentState

LEMMA WebhookSteps ==
  ASSUME CashoutInv, NEW h \in Handlers, NEW p \in Payments,
         NEW n \in Notifications, Webhook(h, p, n)
  PROVE  CashoutInv'
<1>1. PICK to \in PaymentState :
        /\ AppliesEvent(row[p], n, to)
        /\ Become(h, [Idle EXCEPT !.at = "webhook.write", !.p = p,
                                  !.seen = to])
  BY DEF Webhook
<1> DEFINE j == [Idle EXCEPT !.at = "webhook.write", !.p = p, !.seen = to]
<1>2. /\ n \in sent[p]
      /\ UNCHANGED <<cpn, table, hot, faults>>
  BY DEF Webhook
<1>3. HasBeen(rail[p], to)
  BY <1>1, <1>2, EventTells DEF CashoutInv
<1>4. j \in Jobs /\ j.at = "webhook.write" /\ j.p = p /\ j.seen = to
  <2>1. /\ "webhook.write" \in Labels /\ p \in 0..MaxPayments
        /\ to \in PaymentState \cup {"none"}
    BY CashoutAssumption DEF Labels, Payments
  <2>2. j \in Jobs
    BY <2>1, IdleTyped DEF Jobs
  <2> QED BY <2>2 DEF Idle
<1>5. /\ job' \in [Handlers -> Jobs] /\ overlapped' \in BOOLEAN /\ job'[h] = j
      /\ \A g \in Handlers : g # h => job'[g] = job[g]
  BY <1>1, <1>4, InFlight, BecomeTyped
<1>6. TypeOK'
  BY <1>2, <1>5, InFlight DEF TypeOK, cpn, table
<1>7. JobKnows(job[h])'
  BY <1>2, <1>3, <1>4, <1>5 DEF JobKnows, cpn
<1> QED BY <1>2, <1>5, <1>6, <1>7, SteadySteps DEF KeepsList, cpn, table

LEMMA WebhookWriteSteps ==
  ASSUME CashoutInv, NEW h \in Handlers, WebhookWrite(h)
  PROVE  CashoutInv'
<1>1. /\ job[h].p \in Payments /\ HasBeen(rail[job[h].p], job[h].seen)
      /\ row' = [row EXCEPT ![job[h].p] = job[h].seen]
      /\ UNCHANGED <<cpn, prepared, inserted, hot, faults>>
  BY InFlight DEF WebhookWrite, At, JobKnows
<1>2. /\ row' \in [Payments -> PaymentState \cup {"absent"}]
      /\ \A q \in Payments : row'[q] = row[q] \/ HasBeen(rail[q], row'[q])
  BY <1>1, RowWritten
<1>3. TypeOK'
  BY <1>1, <1>2, InFlight, EndTyped DEF WebhookWrite, TypeOK, cpn
<1> QED
  BY <1>1, <1>2, <1>3, InFlight, EndTyped, SteadySteps DEF KeepsList, WebhookWrite, cpn

-----------------------------------------------------------------------------
(* The sweep.                                                              *)

\* The rows a sweep lists are payments with a status.
LEMMA NewestTyped ==
  ASSUME CashoutInv
  PROVE  Newest \in Seq(ListedRows)
<1> DEFINE k == Len(inserted)
<1> DEFINE n == IF k < SweepLimit THEN k ELSE SweepLimit
<1>1. k \in Nat /\ n \in Nat /\ n <= k
  BY CashoutAssumption DEF CashoutInv, TypeOK
<1>2. \A j \in 1..n : k + 1 - j \in 1..k
  BY <1>1
<1>3. \A q \in 1..k : inserted[q] \in Payments
  BY DEF CashoutInv, TypeOK
<1>4. \A q \in 1..k : [p |-> inserted[q], status |-> row[inserted[q]]]
                        \in ListedRows
  BY <1>3 DEF CashoutInv, TypeOK, ListedRows
<1> DEFINE listed(q) == [p |-> inserted[q], status |-> row[inserted[q]]]
<1>5. Newest = [j \in 1..n |-> listed(k + 1 - j)]
  BY DEF Newest
<1>6. \A j \in 1..n : listed(k + 1 - j) \in ListedRows
  BY <1>2, <1>4
<1> HIDE DEF listed, n, k
<1>7. [j \in 1..n |-> listed(k + 1 - j)] \in [1..n -> ListedRows]
  BY <1>6
<1> QED BY <1>1, <1>5, <1>7

\* The rest of a sweep's list: done, or on to the next row.
LEMMA NextRowTyped ==
  ASSUME CashoutInv, NEW h \in Handlers, NextRow(h), job[h].todo # <<>>
  PROVE  /\ job' \in [Handlers -> Jobs] /\ overlapped' \in BOOLEAN
         /\ \A g \in Handlers : g # h => job'[g] = job[g]
         /\ JobKnows(job[h])'
<1> DEFINE rest == Tail(job[h].todo)
<1>1. CASE End(h)
  BY <1>1, InFlight, EndTyped
<1>2. CASE rest # <<>> /\ Become(h, [job[h] EXCEPT !.at = "sweep.rail",
                                                  !.todo = rest])
  <2> DEFINE j == [job[h] EXCEPT !.at = "sweep.rail", !.todo = rest]
  <2>1. rest \in Seq(ListedRows) /\ "sweep.rail" \in Labels
    BY InFlight DEF Labels
  <2>2. j \in Jobs /\ j.at = "sweep.rail" /\ j.todo = rest
    BY <2>1, InFlight DEF Jobs
  <2>3. /\ job' \in [Handlers -> Jobs] /\ overlapped' \in BOOLEAN /\ job'[h] = j
        /\ \A g \in Handlers : g # h => job'[g] = job[g]
    BY <1>2, <2>2, InFlight, BecomeTyped
  <2>4. JobKnows(job[h])'
    BY <1>2, <2>2, <2>3 DEF JobKnows
  <2> QED BY <2>3, <2>4
<1> QED BY <1>1, <1>2 DEF NextRow

LEMMA SweepSteps ==
  ASSUME CashoutInv, NEW h \in Handlers, Sweep(h)
  PROVE  CashoutInv'
<1> DEFINE j == [Idle EXCEPT !.at = "sweep.rail", !.todo = Newest]
<1>1. j \in Jobs /\ j.at = "sweep.rail" /\ j.todo = Newest
  <2>1. "sweep.rail" \in Labels /\ Newest \in Seq(ListedRows)
    BY NewestTyped DEF Labels
  <2>2. j \in Jobs
    BY <2>1, IdleTyped DEF Jobs
  <2> QED BY <2>2 DEF Idle
<1>2. /\ job' \in [Handlers -> Jobs] /\ overlapped' \in BOOLEAN /\ job'[h] = j
      /\ \A g \in Handlers : g # h => job'[g] = job[g]
  BY <1>1, InFlight, BecomeTyped DEF Sweep
<1>3. UNCHANGED <<cpn, table, hot, faults>>
  BY DEF Sweep
<1>4. TypeOK'
  BY <1>2, <1>3, InFlight DEF TypeOK, cpn, table
<1>5. JobKnows(job[h])'
  BY <1>1, <1>2 DEF JobKnows, Sweep
<1> QED BY <1>2, <1>3, <1>4, <1>5, SteadySteps DEF KeepsList, cpn, table

LEMMA SweepRailSteps ==
  ASSUME CashoutInv, NEW h \in Handlers, SweepRail(h)
  PROVE  CashoutInv'
<1> DEFINE r == Head(job[h].todo)
<1>1. job[h].todo # <<>> /\ r.p \in Payments /\ r.status \in PaymentState
  <2>1. job[h].todo # <<>> /\ job[h].todo \in Seq(ListedRows)
    BY InFlight DEF SweepRail, At, JobKnows
  <2>2. r \in ListedRows
    BY <2>1
  <2> QED BY <2>1, <2>2 DEF ListedRows
<1>2. UNCHANGED <<cpn, table, hot>>
  BY DEF SweepRail
<1>3. faults' \in 0..MaxFaults
  BY InFlight, FaultCounted DEF SweepRail
<1>4. /\ job' \in [Handlers -> Jobs] /\ overlapped' \in BOOLEAN
      /\ \A g \in Handlers : g # h => job'[g] = job[g]
      /\ JobKnows(job[h])'
  <2>1. CASE /\ reconcilePaymentStatus(r.status, rail[r.p])
             /\ Saw(h, rail[r.p], "sweep.write")
    <3> DEFINE s == rail[r.p]
    <3> DEFINE j == [job[h] EXCEPT !.at = "sweep.write", !.seen = s]
    <3>1. s \in PaymentState
      <4>1. s \in PaymentState \cup {"none"}
        BY <1>1, InFlight DEF TypeOK
      <4>2. s # "none"
        BY <1>1, <2>1, Downstream DEF reconcilePaymentStatus, PaymentState
      <4> QED BY <4>1, <4>2
    <3>2. "sweep.write" \in Labels
      BY DEF Labels
    <3>3. /\ j \in Jobs /\ j.at = "sweep.write" /\ j.seen = s
          /\ j.todo = job[h].todo
      BY <3>1, <3>2, InFlight DEF Jobs
    <3>4. /\ job' \in [Handlers -> Jobs] /\ overlapped' \in BOOLEAN
          /\ job'[h] = j
          /\ \A g \in Handlers : g # h => job'[g] = job[g]
      BY <2>1, <3>3, InFlight, BecomeTyped DEF Saw
    <3>5. HasBeen(rail'[r.p], s)
      BY <1>2, <3>1 DEF HasBeen, AtOrBefore, PaymentState, cpn
    <3>6. JobKnows(job[h])'
      BY <1>1, <3>3, <3>4, <3>5 DEF JobKnows
    <3> QED BY <3>4, <3>6
  <2>2. CASE NextRow(h)
    BY <1>1, <2>2, NextRowTyped
  <2> QED BY <2>1, <2>2 DEF SweepRail
<1>5. TypeOK'
  BY <1>2, <1>3, <1>4, InFlight DEF TypeOK, cpn, table
<1> QED BY <1>2, <1>4, <1>5, SteadySteps DEF KeepsList, cpn, table

LEMMA SweepWriteSteps ==
  ASSUME CashoutInv, NEW h \in Handlers, SweepWrite(h)
  PROVE  CashoutInv'
<1> DEFINE p == Head(job[h].todo).p
<1>1. /\ job[h].todo # <<>> /\ p \in Payments
      /\ HasBeen(rail[p], job[h].seen)
  <2>1. job[h].todo # <<>> /\ job[h].todo \in Seq(ListedRows)
    BY InFlight DEF SweepWrite, At, JobKnows
  <2>2. Head(job[h].todo) \in ListedRows
    BY <2>1
  <2> QED BY <2>1, <2>2, InFlight DEF ListedRows, SweepWrite, At, JobKnows
<1>2. /\ row' = [row EXCEPT ![p] = job[h].seen]
      /\ UNCHANGED <<cpn, prepared, inserted, hot, faults>>
  BY DEF SweepWrite
<1>3. /\ row' \in [Payments -> PaymentState \cup {"absent"}]
      /\ \A q \in Payments : row'[q] = row[q] \/ HasBeen(rail[q], row'[q])
  BY <1>1, <1>2, RowWritten
<1>4. /\ job' \in [Handlers -> Jobs] /\ overlapped' \in BOOLEAN
      /\ \A g \in Handlers : g # h => job'[g] = job[g]
      /\ JobKnows(job[h])'
  BY <1>1, NextRowTyped DEF SweepWrite
<1>5. TypeOK'
  BY <1>2, <1>3, <1>4, InFlight DEF TypeOK, cpn
<1> QED BY <1>2, <1>3, <1>4, <1>5, SteadySteps DEF KeepsList, cpn

LEMMA InterruptSteps ==
  ASSUME CashoutInv, NEW h \in Handlers, Interrupt(h)
  PROVE  CashoutInv'
<1>1. faults' \in 0..MaxFaults
  BY InFlight, FaultCounted DEF Interrupt
<1>2. TypeOK'
  BY <1>1, InFlight, EndTyped DEF Interrupt, TypeOK, cpn, table
<1> QED
  BY <1>2, InFlight, EndTyped, SteadySteps DEF KeepsList, Interrupt, cpn, table

-----------------------------------------------------------------------------
(* The theorems.                                                           *)

LEMMA CashoutInit == Init => CashoutInv
<1> SUFFICES ASSUME Init PROVE CashoutInv
  OBVIOUS
<1>1. TypeOK
  <2>1. job \in [Handlers -> Jobs] /\ faults \in 0..MaxFaults
    BY IdleTyped, CashoutAssumption DEF Init
  <2>2. overlapped \in BOOLEAN
    BY Zenon DEF Init
  <2>3. /\ rail \in [Payments -> PaymentState \cup {"none"}]
        /\ sent \in [Payments -> SUBSET Notifications]
        /\ submits \in [Payments -> Nat]
        /\ words \in [Payments -> SUBSET Answers]
        /\ row \in [Payments -> PaymentState \cup {"absent"}]
        /\ prepared \in [Payments -> BOOLEAN]
        /\ inserted \in Seq(Payments)
        /\ hot \in [Instances -> SUBSET Payments]
    BY DEF Init
  <2> QED BY <2>1, <2>2, <2>3 DEF TypeOK
<1>2. \A h \in Handlers : JobKnows(job[h])
  BY DEF Init, JobKnows, Idle
<1> QED BY <1>1, <1>2 DEF Init, CashoutInv

LEMMA CashoutStep == CashoutInv /\ [Next]_vars => CashoutInv'
<1> SUFFICES ASSUME CashoutInv, [Next]_vars PROVE CashoutInv'
  OBVIOUS
<1>1. ASSUME NEW h \in Handlers, Begin(h) PROVE CashoutInv'
  BY <1>1, PrepareSteps, BroadcastSteps, ReleaseQuoteSteps, StatusSteps,
     WebhookSteps, SweepSteps DEF Begin
<1>2. ASSUME NEW h \in Handlers, Continue(h) PROVE CashoutInv'
  BY <1>2, PrepareRecordSteps, SubmitSteps, BroadcastForgetSteps,
     ReleaseRecordSteps, PollRailSteps, PollRowSteps, PollWriteSteps,
     WebhookWriteSteps, SweepRailSteps, SweepWriteSteps DEF Continue
<1>3. CASE UNCHANGED vars
  BY <1>3, Downstream
     DEF vars, cpn, table, CashoutInv, TypeOK, JobKnows, HasBeen, RowIsTrue,
         EndedEarly
<1> QED BY <1>1, <1>2, <1>3, InterruptSteps, RailAdvancesSteps DEF Next

\* Every request in flight, notification and row tells of a place where its
\* payment has been, the row of a submission answered with an end excepted
\* (RowIsTrue): the argument that makes the next theorems inductive.
THEOREM CashoutCorrect == Spec => []CashoutInv
BY CashoutInit, CashoutStep, PTL DEF Spec

\* The state stays well formed: a sweep's list and a job's polls
\* included.
THEOREM CashoutTypes == Spec => []TypeOK
<1>1. CashoutInv => TypeOK
  BY DEF CashoutInv
<1> QED BY <1>1, CashoutCorrect, PTL

\* A row of cpn_payments is never ahead of CPN, and an end it records is the
\* end the payment had, although requests overlap, die and write by id alone;
\* a payout whose submission was answered with an end is excepted
\* (EndedEarly).
THEOREM RowsAreNeverAhead == Spec => []RowNeverAhead
<1>1. ASSUME CashoutInv, NEW p \in Payments, row[p] # "absent"
      PROVE  /\ rail[p] # "none"
             /\ EndedEarly(p) \/ AtOrBefore(row[p], rail[p])
             /\ EndedEarly(p) \/ ~ isPaymentTerminal(row[p])
                  \/ rail[p] = row[p]
  <2>1. RowIsTrue(p)
    BY <1>1 DEF CashoutInv
  <2>2. CASE HasBeen(rail[p], row[p])
    <3>1. row[p] \in PaymentState /\ rail[p] \in PaymentState
      BY <1>1, <2>2 DEF CashoutInv, TypeOK, HasBeen
    <3> QED BY <2>2, <3>1, TerminalIsLast DEF HasBeen
  <2> QED BY <2>1, <2>2 DEF RowIsTrue
<1>2. CashoutInv => RowNeverAhead
  BY <1>1 DEF RowNeverAhead
<1> QED BY <1>2, CashoutCorrect, PTL

-----------------------------------------------------------------------------
(* One request at a time: the rows.  Nobody else writes the row it has read. *)

\* A row that moves, moves along the graph.
RowsMoveForward ==
    \A p \in Payments :
      row[p] \notin {"absent", row'[p]} => isReachable(row[p], row'[p])

ListedOnce == \A k, l \in 1..Len(inserted) : inserted[k] = inserted[l] => k = l

LEMMA BecomeGives ==
  ASSUME TypeOK, NEW h \in Handlers, NEW j, Become(h, j)
  PROVE  job'[h] = j /\ \A g \in Handlers : g # h => job'[g] = job[g]
BY DEF Become, TypeOK

LEMMA GotoGives ==
  ASSUME TypeOK, NEW h \in Handlers, NEW l, Goto(h, l)
  PROVE  /\ \E j : Become(h, j)
         /\ job'[h].at = l
         /\ job'[h].p = job[h].p /\ job'[h].inst = job[h].inst
         /\ job'[h].seen = job[h].seen /\ job'[h].todo = job[h].todo
<1>1. job'[h] = [job[h] EXCEPT !.at = l] /\ job[h] \in Jobs
  BY BecomeGives DEF Goto, TypeOK
<1> QED BY <1>1 DEF Goto, Jobs

LEMMA EndGives ==
  ASSUME TypeOK, NEW h \in Handlers, End(h)
  PROVE  (\E j : Become(h, j)) /\ job'[h].at = "idle"
<1>1. job'[h] = Idle
  BY BecomeGives DEF End
<1> QED BY <1>1 DEF End, Idle

LEMMA NextPollGives ==
  ASSUME TypeOK, NEW h \in Handlers, NextPoll(h)
  PROVE  (\E j : Become(h, j)) /\ job'[h].at \in {"idle", "poll.rail"}
BY GotoGives, EndGives DEF NextPoll

\* The lone request is undisturbed, and has been from the start.
LEMMA LoneStep ==
  ASSUME CashoutInv, SequentialInv, NEW h \in Handlers,
         \E j : Become(h, j), ~overlapped'
  PROVE  /\ ~overlapped /\ JobIsCurrent(job[h]) /\ ListedOnce
         /\ \A g \in Handlers : g # h => At(g, "idle") /\ job'[g] = job[g]
<1>1. PICK j : Become(h, j)
  OBVIOUS
<1>2. ~overlapped /\ \A g \in Handlers \ {h} : At(g, "idle")
  BY <1>1 DEF Become
<1>3. \A g \in Handlers : g # h => job'[g] = job[g]
  BY <1>1, InFlight, BecomeGives
<1> QED BY <1>2, <1>3 DEF SequentialInv, ListedOnce

\* A request that leaves knowing its row keeps the invariant.
LEMMA SequentialStep ==
  ASSUME CashoutInv, SequentialInv, NEW h \in Handlers, \E j : Become(h, j),
         ~overlapped' => JobIsCurrent(job[h])' /\ ListedOnce'
  PROVE  SequentialInv'
<1> SUFFICES ASSUME ~overlapped'
             PROVE  /\ OneInFlight'
                    /\ \A g \in Handlers : JobIsCurrent(job[g])'
                    /\ ListedOnce'
  BY DEF SequentialInv, ListedOnce
<1>1. \A g \in Handlers : g # h => At(g, "idle") /\ job'[g] = job[g]
  BY LoneStep
<1>2. OneInFlight'
  BY <1>1 DEF OneInFlight, At
<1>3. \A g \in Handlers : g # h => JobIsCurrent(job[g])'
  BY <1>1 DEF At, JobIsCurrent
<1> QED BY <1>2, <1>3

\* The places where a request holds nothing of a row.
Unaware == {"idle", "broadcast.submit", "broadcast.forget", "poll.rail",
            "poll.row"}

LEMMA UnawareStep ==
  ASSUME CashoutInv, SequentialInv, NEW h \in Handlers, \E j : Become(h, j),
         job'[h].at \in Unaware, inserted' = inserted
  PROVE  SequentialInv'
<1>1. JobIsCurrent(job[h])'
  BY DEF Unaware, JobIsCurrent
<1>2. ~overlapped' => ListedOnce'
  BY LoneStep DEF ListedOnce
<1> QED BY <1>1, <1>2, SequentialStep

\* A row is inserted once.
LEMMA InsertedOnce ==
  ASSUME CashoutInv, ListedOnce, NEW p \in Payments, row[p] = "absent",
         inserted' = Append(inserted, p)
  PROVE  ListedOnce'
<1>1. inserted \in Seq(Payments)
  BY InFlight DEF CashoutInv, TypeOK
<1>2. \A k \in 1..Len(inserted) : inserted[k] # p
  BY DEF CashoutInv
<1>3. /\ Len(inserted') = Len(inserted) + 1
      /\ inserted'[Len(inserted) + 1] = p
      /\ \A k \in 1..Len(inserted) : inserted'[k] = inserted[k]
  BY <1>1
<1>4. \A k \in 1..Len(inserted') : k = Len(inserted) + 1 \/ k \in 1..Len(inserted)
  BY <1>1, <1>3
<1> QED BY <1>2, <1>3, <1>4 DEF ListedOnce

LEMMA CreationSequential ==
  ASSUME CashoutInv, SequentialInv, NEW h \in Handlers,
         (\E i \in Instances : Prepare(h, i)) \/ ReleaseQuote(h)
  PROVE  SequentialInv'
<1>1. PICK p, s, j :
        /\ p \in Payments
        /\ CreatePayment(p, s) /\ Become(h, j) /\ j.p = p
        /\ j.at \in {"prepare.record", "release.submit"}
        /\ row' = row /\ inserted' = inserted
  <2>1. CASE ReleaseQuote(h)
    <3>1. PICK p \in Payments, s \in {"CREATED", "CRYPTO_FUNDS_PENDING"} :
            /\ CreatePayment(p, s)
            /\ Become(h, [Idle EXCEPT !.at = "release.submit", !.p = p])
      BY <2>1 DEF ReleaseQuote
    <3> QED BY <2>1, <3>1 DEF Idle, ReleaseQuote, table
  <2>2. ASSUME NEW i \in Instances, Prepare(h, i)
        PROVE  \E p, s, j :
                 /\ p \in Payments
                 /\ CreatePayment(p, s) /\ Become(h, j) /\ j.p = p
                 /\ j.at \in {"prepare.record", "release.submit"}
                 /\ row' = row /\ inserted' = inserted
    <3>1. PICK p \in Payments, s \in {"CREATED", "CRYPTO_FUNDS_PENDING"} :
            /\ CreatePayment(p, s)
            /\ Become(h, [Idle EXCEPT !.at = "prepare.record", !.p = p,
                                      !.inst = i, !.seen = s])
      BY <2>2 DEF Prepare
    <3> QED BY <2>2, <3>1 DEF Idle, Prepare, table
  <2> QED BY <2>1, <2>2
<1>2. job'[h] = j
  BY <1>1, InFlight, BecomeGives
<1>3. row[p] = "absent"
  <2>1. rail[p] = "none"
    BY <1>1 DEF CreatePayment, Payments
  <2> QED BY <1>1, <2>1 DEF CashoutInv, RowIsTrue, HasBeen
<1>4. JobIsCurrent(job[h])'
  BY <1>1, <1>2, <1>3 DEF JobIsCurrent
<1>5. ~overlapped' => ListedOnce'
  BY <1>1, LoneStep DEF ListedOnce
<1> QED BY <1>1, <1>4, <1>5, SequentialStep

\* The row of a new payment.
LEMMA RecordSequential ==
  ASSUME CashoutInv, SequentialInv, NEW h \in Handlers,
         PrepareRecord(h) \/ ReleaseRecord(h)
  PROVE  SequentialInv' /\ (~overlapped' => RowsMoveForward)
<1>1. /\ (\E j : Become(h, j)) /\ job'[h].at = "idle"
      /\ job[h].p \in Payments
      /\ job[h].at \in {"prepare.record", "release.record"}
      /\ \/ UNCHANGED table
         \/ \E s, b : Insert(job[h].p, s, b)
  BY InFlight, EndGives DEF PrepareRecord, ReleaseRecord, At, JobKnows
<1>2. ~overlapped' => ListedOnce /\ row[job[h].p] = "absent"
  BY <1>1, LoneStep DEF JobIsCurrent
<1>3. ~overlapped' => ListedOnce'
  <2>1. CASE UNCHANGED table
    BY <1>2, <2>1 DEF table, ListedOnce
  <2>2. CASE \E s, b : Insert(job[h].p, s, b)
    BY <1>1, <1>2, <2>2, InsertedOnce DEF Insert
  <2> QED BY <1>1, <2>1, <2>2
<1>4. ~overlapped' => RowsMoveForward
  <2>1. CASE UNCHANGED table
    BY <2>1 DEF table, RowsMoveForward
  <2>2. CASE \E s, b : Insert(job[h].p, s, b)
    BY <1>1, <1>2, <2>2, InFlight DEF Insert, TypeOK, RowsMoveForward
  <2> QED BY <1>1, <2>1, <2>2
<1>5. JobIsCurrent(job[h])'
  BY <1>1 DEF JobIsCurrent
<1> QED BY <1>1, <1>3, <1>4, <1>5, SequentialStep

\* What a poll has seen is downstream of the row it read.
LEMMA PollRowSequential ==
  ASSUME CashoutInv, SequentialInv, NEW h \in Handlers, PollRow(h)
  PROVE  SequentialInv'
<1>1. row' = row /\ inserted' = inserted
  BY DEF PollRow, table
<1>2. CASE NextPoll(h)
  BY <1>1, <1>2, InFlight, NextPollGives, UnawareStep DEF Unaware
<1>3. CASE /\ MovesForward(job[h].p, job[h].seen)
           /\ Goto(h, "poll.write")
  <2>1. (\E j : Become(h, j)) /\ JobIsCurrent(job[h])'
    BY <1>1, <1>3, InFlight, GotoGives DEF JobIsCurrent, MovesForward
  <2>2. ~overlapped' => ListedOnce'
    BY <1>1, <2>1, LoneStep DEF ListedOnce
  <2> QED BY <2>1, <2>2, SequentialStep
<1> QED
  BY <1>2, <1>3 DEF PollRow, reconcilePaymentStatus, MovesForward

\* So is what a notification tells of.
LEMMA EventIsAhead ==
  ASSUME NEW c \in PaymentState, NEW n, NEW to \in PaymentState,
         AppliesEvent(c, n, to)
  PROVE  isReachable(c, to)
<1>1. to \in PAYMENT_NEXT[c] \/ (~ isPaymentTerminal(c) /\ to = "FAILED")
  BY DEF AppliesEvent, canTransitionPayment
<1> QED
  BY <1>1, Downstream DEF PAYMENT_NEXT, PaymentState, isPaymentTerminal

LEMMA WebhookSequential ==
  ASSUME CashoutInv, SequentialInv, NEW h \in Handlers, NEW p \in Payments,
         NEW n \in Notifications, Webhook(h, p, n)
  PROVE  SequentialInv'
<1>1. PICK to \in PaymentState :
        /\ AppliesEvent(row[p], n, to)
        /\ Become(h, [Idle EXCEPT !.at = "webhook.write", !.p = p,
                                  !.seen = to])
  BY DEF Webhook
<1>2. row[p] \in PaymentState /\ row[p] # "absent"
  BY InFlight DEF Webhook, TypeOK
<1>3. row' = row /\ inserted' = inserted
  BY DEF Webhook, table
<1>4. job'[h].at = "webhook.write" /\ job'[h].p = p /\ job'[h].seen = to
  <2>1. job'[h] = [Idle EXCEPT !.at = "webhook.write", !.p = p, !.seen = to]
    BY <1>1, InFlight, BecomeGives
  <2> QED BY <2>1 DEF Idle
<1>5. JobIsCurrent(job[h])'
  BY <1>1, <1>2, <1>3, <1>4, EventIsAhead DEF JobIsCurrent, MovesForward
<1>6. \E j : Become(h, j)
  BY <1>1
<1>7. ~overlapped' => ListedOnce'
  BY <1>3, <1>6, LoneStep DEF ListedOnce
<1> QED BY <1>5, <1>6, <1>7, SequentialStep

\* The writes of a poll and of a webhook.
LEMMA WriteSequential ==
  ASSUME CashoutInv, SequentialInv, NEW h \in Handlers,
         PollWrite(h) \/ WebhookWrite(h)
  PROVE  SequentialInv' /\ (~overlapped' => RowsMoveForward)
<1>1. /\ (\E j : Become(h, j)) /\ job'[h].at \in {"idle", "poll.rail"}
      /\ job[h].at \in {"poll.write", "webhook.write"}
      /\ row' = [row EXCEPT ![job[h].p] = job[h].seen]
      /\ inserted' = inserted
  BY InFlight, NextPollGives, EndGives DEF PollWrite, WebhookWrite, At
<1>2. SequentialInv'
  BY <1>1, UnawareStep DEF Unaware
<1>3. ~overlapped' => MovesForward(job[h].p, job[h].seen)
  BY <1>1, LoneStep DEF JobIsCurrent
<1>4. ~overlapped' => RowsMoveForward
  BY <1>1, <1>3, InFlight DEF TypeOK, MovesForward, RowsMoveForward
<1> QED BY <1>2, <1>4

\* A sweep lists each row once, with the status it has.
LEMMA NewestIsUpToDate ==
  ASSUME CashoutInv, ListedOnce
  PROVE  IsUpToDate(Newest)
<1> DEFINE k == Len(inserted)
<1> DEFINE n == IF k < SweepLimit THEN k ELSE SweepLimit
<1>1. k \in Nat /\ n \in Nat /\ n <= k
  BY CashoutAssumption DEF CashoutInv, TypeOK
<1>2. \A j \in 1..n : k + 1 - j \in 1..k
  BY <1>1
<1> DEFINE listed(q) == [p |-> inserted[q], status |-> row[inserted[q]]]
<1>3. Newest = [j \in 1..n |-> listed(k + 1 - j)]
  BY DEF Newest
<1>4. Len(Newest) = n /\ \A j \in 1..n : Newest[j] = listed(k + 1 - j)
  <2>1. DOMAIN Newest = 1..n /\ Newest \in Seq(ListedRows)
    BY <1>3, NewestTyped
  <2>2. Len(Newest) = n
    BY <1>1, <2>1
  <2> QED BY <1>3, <2>2
<1>5. \A j, m \in 1..n : k + 1 - j = k + 1 - m => j = m
  BY <1>1
<1>6. \A j \in 1..n : /\ Newest[j].p = inserted[k + 1 - j]
                      /\ Newest[j].status = row[inserted[k + 1 - j]]
  <2> TAKE j \in 1..n
  <2>1. Newest[j] = listed(k + 1 - j)
    BY <1>4
  <2>2. \A q : listed(q).p = inserted[q] /\ listed(q).status = row[inserted[q]]
    OBVIOUS
  <2> HIDE DEF listed, n, k
  <2> QED BY <2>1, <2>2
<1>7. \A j, m \in 1..n : Newest[j].p = Newest[m].p => j = m
  BY <1>2, <1>5, <1>6 DEF ListedOnce
<1> QED BY <1>4, <1>6, <1>7 DEF IsUpToDate

LEMMA SweepSequential ==
  ASSUME CashoutInv, SequentialInv, NEW h \in Handlers, Sweep(h)
  PROVE  SequentialInv'
<1>1. job'[h].at = "sweep.rail" /\ job'[h].todo = Newest
  <2>1. job'[h] = [Idle EXCEPT !.at = "sweep.rail", !.todo = Newest]
    BY InFlight, BecomeGives DEF Sweep
  <2> QED BY <2>1 DEF Idle
<1>2. (\E j : Become(h, j)) /\ row' = row /\ inserted' = inserted
  BY DEF Sweep, table
<1>3. ~overlapped' => IsUpToDate(Newest) /\ ListedOnce'
  BY <1>2, LoneStep, NewestIsUpToDate DEF ListedOnce
<1>4. IsUpToDate(Newest) => JobIsCurrent(job[h])'
  BY <1>1, <1>2 DEF JobIsCurrent, IsUpToDate
<1> QED BY <1>2, <1>3, <1>4, SequentialStep

\* The rest of a list is up to date when its head, and no other, is written.
LEMMA RestIsUpToDate ==
  ASSUME TypeOK, NEW todo \in Seq(ListedRows), todo # <<>>, IsUpToDate(todo),
         \A p \in Payments : p # Head(todo).p => row'[p] = row[p]
  PROVE  IsUpToDate(Tail(todo))'
<1> DEFINE rest == Tail(todo)
<1>1. /\ Len(todo) \in Nat /\ Len(todo) > 0 /\ Len(rest) = Len(todo) - 1
      /\ Head(todo) = todo[1]
      /\ \A k \in 1..Len(rest) : rest[k] = todo[k + 1]
  OBVIOUS
<1>2. \A k \in 1..Len(rest) : k + 1 \in 1..Len(todo) /\ k + 1 # 1
  BY <1>1
<1>3. \A k \in 1..Len(todo) : todo[k].p \in Payments
  <2>1. \A k \in 1..Len(todo) : todo[k] \in ListedRows
    OBVIOUS
  <2> QED BY <2>1 DEF ListedRows
<1>4. 1 \in 1..Len(todo)
  BY <1>1
<1>5. \A k \in 1..Len(rest) : row'[rest[k].p] = rest[k].status
  BY <1>1, <1>2, <1>3, <1>4 DEF IsUpToDate
<1>6. \A k, l \in 1..Len(rest) : rest[k].p = rest[l].p => k = l
  <2> SUFFICES ASSUME NEW k \in 1..Len(rest), NEW l \in 1..Len(rest),
                      rest[k].p = rest[l].p
               PROVE  k = l
    OBVIOUS
  <2>1. k + 1 = l + 1
    BY <1>1, <1>2 DEF IsUpToDate
  <2> QED BY <2>1
<1> QED BY <1>5, <1>6 DEF IsUpToDate

LEMMA NextRowSequential ==
  ASSUME CashoutInv, SequentialInv, NEW h \in Handlers, NextRow(h),
         job[h].at \in {"sweep.rail", "sweep.write"},
         \A p \in Payments : p # Head(job[h].todo).p => row'[p] = row[p],
         inserted' = inserted
  PROVE  SequentialInv'
<1>1. CASE End(h)
  BY <1>1, InFlight, EndGives, UnawareStep DEF Unaware
<1>2. CASE Become(h, [job[h] EXCEPT !.at = "sweep.rail",
                                    !.todo = Tail(job[h].todo)])
  <2>1. job'[h].at = "sweep.rail" /\ job'[h].todo = Tail(job[h].todo)
    <3>1. job'[h] = [job[h] EXCEPT !.at = "sweep.rail",
                                   !.todo = Tail(job[h].todo)]
      BY <1>2, InFlight, BecomeGives
    <3> QED BY <3>1, InFlight DEF Jobs
  <2>2. \E j : Become(h, j)
    BY <1>2
  <2>3. ~overlapped' => IsUpToDate(job[h].todo) /\ ListedOnce'
    BY <2>2, LoneStep DEF JobIsCurrent, ListedOnce
  <2>4. job[h].todo # <<>>
    BY InFlight DEF JobKnows
  <2>5. PICK todo : todo = job[h].todo
    OBVIOUS
  <2>6. IsUpToDate(job[h].todo) => IsUpToDate(Tail(todo))'
    BY <2>4, <2>5, InFlight, RestIsUpToDate
  <2>7. IsUpToDate(job[h].todo) => JobIsCurrent(job[h])'
    BY <2>1, <2>5, <2>6 DEF JobIsCurrent
  <2> QED BY <2>2, <2>3, <2>7, SequentialStep
<1> QED BY <1>1, <1>2 DEF NextRow

LEMMA SweepRailSequential ==
  ASSUME CashoutInv, SequentialInv, NEW h \in Handlers, SweepRail(h)
  PROVE  SequentialInv'
<1> DEFINE r == Head(job[h].todo)
<1>1. /\ job[h].at = "sweep.rail" /\ row' = row /\ inserted' = inserted
      /\ job[h].todo # <<>> /\ job[h].todo \in Seq(ListedRows)
  BY InFlight DEF SweepRail, At, table, JobKnows
<1>2. CASE /\ reconcilePaymentStatus(r.status, rail[r.p])
           /\ Saw(h, rail[r.p], "sweep.write")
  <2>1. /\ job'[h].at = "sweep.write" /\ job'[h].seen = rail[r.p]
        /\ job'[h].todo = job[h].todo
    <3>1. job'[h] = [job[h] EXCEPT !.at = "sweep.write", !.seen = rail[r.p]]
      BY <1>2, InFlight, BecomeGives DEF Saw
    <3> QED BY <3>1, InFlight DEF Jobs
  <2>2. \E j : Become(h, j)
    BY <1>2 DEF Saw
  <2>3. ~overlapped' => IsUpToDate(job[h].todo) /\ ListedOnce'
    BY <1>1, <2>2, LoneStep DEF JobIsCurrent, ListedOnce
  <2>4. IsUpToDate(job[h].todo) => JobIsCurrent(job[h])'
    <3> SUFFICES ASSUME IsUpToDate(job[h].todo)
                 PROVE  JobIsCurrent(job[h])'
      OBVIOUS
    <3>1. r = job[h].todo[1] /\ 1 \in 1..Len(job[h].todo) /\ r \in ListedRows
      BY <1>1
    <3>2. row[r.p] = r.status /\ r.status \in PaymentState
      BY <3>1 DEF IsUpToDate, ListedRows
    <3>3. MovesForward(r.p, rail[r.p])
      BY <1>2, <3>2 DEF MovesForward, reconcilePaymentStatus, PaymentState
    <3>4. IsUpToDate(job[h].todo)'
      BY <1>1, <2>1 DEF IsUpToDate
    <3>5. MovesForward(Head(job[h].todo).p, job[h].seen)'
      BY <1>1, <2>1, <3>3 DEF MovesForward
    <3> QED BY <2>1, <3>4, <3>5 DEF JobIsCurrent
  <2> QED BY <2>2, <2>3, <2>4, SequentialStep
<1>3. CASE NextRow(h)
  BY <1>1, <1>3, NextRowSequential
<1> QED BY <1>2, <1>3 DEF SweepRail

LEMMA SweepWriteSequential ==
  ASSUME CashoutInv, SequentialInv, NEW h \in Handlers, SweepWrite(h)
  PROVE  SequentialInv' /\ (~overlapped' => RowsMoveForward)
<1> DEFINE p == Head(job[h].todo).p
<1>1. /\ job[h].at = "sweep.write" /\ NextRow(h) /\ inserted' = inserted
      /\ row' = [row EXCEPT ![p] = job[h].seen]
  BY DEF SweepWrite, At
<1>2. \A q \in Payments : q # p => row'[q] = row[q]
  BY <1>1, InFlight DEF TypeOK
<1>3. SequentialInv'
  BY <1>1, <1>2, NextRowSequential
<1>4. \E j : Become(h, j)
  BY <1>1 DEF NextRow, End
<1>5. ~overlapped' => MovesForward(p, job[h].seen)
  BY <1>1, <1>4, LoneStep DEF JobIsCurrent
<1>6. ~overlapped' => RowsMoveForward
  BY <1>1, <1>2, <1>5, InFlight DEF TypeOK, MovesForward, RowsMoveForward
<1> QED BY <1>3, <1>6

\* The places a request leaves without a thought of rows.
LEMMA OthersSequential ==
  ASSUME CashoutInv, SequentialInv, NEW h \in Handlers,
         \/ \E i \in Instances, p \in Payments : Broadcast(h, i, p)
         \/ \E p \in Payments : Status(h, p)
         \/ BroadcastSubmit(h) \/ BroadcastForget(h) \/ PollRail(h)
         \/ Interrupt(h)
  PROVE  SequentialInv'
<1>1. inserted' = inserted
  BY DEF Broadcast, Status, BroadcastSubmit, BroadcastForget, PollRail,
         Interrupt, table
<1>2. (\E j : Become(h, j)) /\ job'[h].at \in Unaware
  <2>1. CASE \E i \in Instances, p \in Payments : Broadcast(h, i, p)
    <3>1. PICK i \in Instances, p \in Payments : Broadcast(h, i, p)
      BY <2>1
    <3>2. job'[h] = [Idle EXCEPT !.at = "broadcast.submit", !.p = p,
                                 !.inst = i, !.polls = MaxPolls]
      BY <3>1, InFlight, BecomeGives DEF Broadcast
    <3>3. \E j : Become(h, j)
      BY <3>1 DEF Broadcast
    <3> QED BY <3>2, <3>3 DEF Idle, Unaware
  <2>2. CASE \E p \in Payments : Status(h, p)
    <3>1. PICK p \in Payments : Status(h, p)
      BY <2>2
    <3>2. job'[h] = [Idle EXCEPT !.at = "poll.rail", !.p = p, !.polls = 1]
      BY <3>1, InFlight, BecomeGives DEF Status
    <3>3. \E j : Become(h, j)
      BY <3>1 DEF Status
    <3> QED BY <3>2, <3>3 DEF Idle, Unaware
  <2>3. CASE BroadcastSubmit(h)
    BY <2>3, InFlight, GotoGives, EndGives DEF BroadcastSubmit, Unaware
  <2>4. CASE BroadcastForget(h)
    BY <2>4, InFlight, GotoGives DEF BroadcastForget, Unaware
  <2>5. CASE PollRail(h)
    <3> DEFINE left == job[h].polls - 1
    <3>1. CASE End(h)
      BY <3>1, InFlight, EndGives DEF Unaware
    <3>2. CASE Become(h, [job[h] EXCEPT !.at = "poll.row",
                            !.seen = rail[job[h].p], !.polls = left])
      <4>1. job'[h] = [job[h] EXCEPT !.at = "poll.row",
                         !.seen = rail[job[h].p], !.polls = left]
        BY <3>2, InFlight, BecomeGives
      <4> QED BY <3>2, <4>1, InFlight DEF Jobs, Unaware
    <3>3. CASE Become(h, [job[h] EXCEPT !.polls = left])
      <4>1. job'[h] = [job[h] EXCEPT !.polls = left]
        BY <3>3, InFlight, BecomeGives
      <4> QED BY <2>5, <3>3, <4>1, InFlight DEF Jobs, Unaware, PollRail, At
    <3> QED BY <2>5, <3>1, <3>2, <3>3 DEF PollRail
  <2>6. CASE Interrupt(h)
    BY <2>6, InFlight, EndGives DEF Interrupt, Unaware
  <2> QED BY <2>1, <2>2, <2>3, <2>4, <2>5, <2>6
<1> QED BY <1>1, <1>2, UnawareStep

\* A payment whose payout was accepted still has no row.
LEMMA ReleaseSubmitSequential ==
  ASSUME CashoutInv, SequentialInv, NEW h \in Handlers, ReleaseSubmit(h)
  PROVE  SequentialInv'
<1>1. /\ job[h].at = "release.submit"
      /\ row' = row /\ inserted' = inserted
  BY DEF ReleaseSubmit, At, table
<1>2. CASE End(h)
  BY <1>1, <1>2, InFlight, EndGives, UnawareStep DEF Unaware
<1>3. CASE Goto(h, "release.record")
  <2>1. /\ \E j : Become(h, j)
        /\ job'[h].at = "release.record" /\ job'[h].p = job[h].p
    BY <1>3, InFlight, GotoGives
  <2>2. ~overlapped' => row[job[h].p] = "absent" /\ ListedOnce'
    BY <1>1, <2>1, LoneStep DEF JobIsCurrent, ListedOnce
  <2>3. row[job[h].p] = "absent" => JobIsCurrent(job[h])'
    BY <1>1, <2>1 DEF JobIsCurrent
  <2> QED BY <2>1, <2>2, <2>3, SequentialStep
<1> QED BY <1>2, <1>3 DEF ReleaseSubmit

\* What moves no request and no row.
LEMMA QuietSequential ==
  ASSUME SequentialInv, UNCHANGED <<row, inserted, job, overlapped>>
  PROVE  SequentialInv'
BY DEF SequentialInv, OneInFlight, At, JobIsCurrent, MovesForward, IsUpToDate

LEMMA SequentialKept ==
  CashoutInv /\ SequentialInv /\ [Next]_vars => SequentialInv'
<1> SUFFICES ASSUME CashoutInv, SequentialInv, [Next]_vars
             PROVE  SequentialInv'
  OBVIOUS
<1>1. ASSUME NEW h \in Handlers, Begin(h) PROVE SequentialInv'
  BY <1>1, CreationSequential, OthersSequential, WebhookSequential,
     SweepSequential DEF Begin
<1>2. ASSUME NEW h \in Handlers, Continue(h) PROVE SequentialInv'
  BY <1>2, RecordSequential, OthersSequential, ReleaseSubmitSequential,
     PollRowSequential, WriteSequential, SweepRailSequential, SweepWriteSequential DEF Continue
<1>3. CASE UNCHANGED vars
  BY <1>3, QuietSequential DEF vars, table
<1>4. ASSUME NEW p \in Payments, NEW n \in Notifications, RailAdvances(p, n)
      PROVE  SequentialInv'
  BY <1>4, QuietSequential DEF RailAdvances, table
<1> QED BY <1>1, <1>2, <1>3, <1>4, OthersSequential DEF Next

LEMMA SequentialStarts == Init => SequentialInv
BY DEF Init, SequentialInv, OneInFlight, At, Idle, JobIsCurrent

LEMMA SequentialHolds == Spec => [](CashoutInv /\ SequentialInv)
<1>1. Init => CashoutInv /\ SequentialInv
  BY CashoutInit, SequentialStarts
<1>2. CashoutInv /\ SequentialInv /\ [Next]_vars
        => CashoutInv' /\ SequentialInv'
  BY CashoutStep, SequentialKept
<1> QED BY <1>1, <1>2, PTL DEF Spec

-----------------------------------------------------------------------------
(* One request at a time: the intents.  A process that broadcasts one has   *)
(* it in memory, and forgets it before it does anything else.              *)

\* The lone request, when no await has failed.
LEMMA LoneIntent ==
  ASSUME CashoutInv, SequentialInv, IntentInv, NEW h \in Handlers,
         \E j : Become(h, j), ~overlapped', faults = 0
  PROVE  /\ JobIsCurrent(job[h]) /\ JobHoldsIntent(job[h])
         /\ \A g \in Handlers : g # h => At(g, "idle") /\ job'[g] = job[g]
         /\ \A p \in Payments :
              /\ IntentIsSpent(p) /\ (rail[p] = "none" => IsFresh(p))
              /\ BeingForgotten(p) <=> At(h, "broadcast.forget") /\ job[h].p = p
              /\ BeingForgotten(p)' <=>
                   job'[h].at = "broadcast.forget" /\ job'[h].p = p
<1>1. /\ ~overlapped /\ JobIsCurrent(job[h])
      /\ \A g \in Handlers : g # h => At(g, "idle") /\ job'[g] = job[g]
  BY LoneStep
<1>2. \A p \in Payments :
        /\ BeingForgotten(p) <=> At(h, "broadcast.forget") /\ job[h].p = p
        /\ BeingForgotten(p)' <=>
             job'[h].at = "broadcast.forget" /\ job'[h].p = p
  BY <1>1 DEF BeingForgotten, At
<1>3. ASSUME NEW p \in Payments
      PROVE  /\ IntentIsSpent(p) /\ (rail[p] = "none" => IsFresh(p))
             /\ JobHoldsIntent(job[h])
  BY <1>1, <1>3 DEF IntentInv
<1>4. JobHoldsIntent(job[h])
  <2>1. At(h, "prepare.record") \/ At(h, "release.submit")
          \/ At(h, "broadcast.submit") \/ At(h, "broadcast.forget")
          => job[h].p \in Payments
    BY InFlight DEF At, JobKnows
  <2> QED BY <1>3, <2>1 DEF At, JobHoldsIntent
<1> QED BY <1>1, <1>2, <1>3, <1>4

\* A request that leaves each intent accounted for keeps the invariant.
LEMMA IntentStep ==
  ASSUME CashoutInv, SequentialInv, IntentInv, NEW h \in Handlers,
         \E j : Become(h, j), faults' = 0 => faults = 0,
         ~overlapped' /\ faults = 0 =>
           /\ JobHoldsIntent(job[h])'
           /\ \A p \in Payments : /\ IntentIsSpent(p)'
                                  /\ rail'[p] = "none" => IsFresh(p)'
  PROVE  IntentInv'
<1> SUFFICES ASSUME ~overlapped', faults' = 0, NEW g \in Handlers
             PROVE  JobHoldsIntent(job[g])'
  BY DEF IntentInv
<1>1. CASE g = h
  BY <1>1
<1>2. CASE g # h
  <2>1. At(g, "idle") /\ job'[g] = job[g]
    BY <1>2, LoneStep
  <2> QED BY <2>1 DEF At, JobHoldsIntent
<1> QED BY <1>1, <1>2

LEMMA CountForgetful ==
  ASSUME NEW p
  PROVE  /\ IsFiniteSet(Forgetful(p)) /\ Cardinality(Forgetful(p)) \in Nat
         /\ Cardinality(Forgetful(p)) <= Cardinality(Instances)
         /\ Cardinality(Instances) \in Nat /\ Cardinality(Instances) >= 1
<1>1. IsFiniteSet(Instances) /\ Instances # {}
  BY CashoutAssumption
<1>2. Forgetful(p) \in SUBSET Instances
  BY DEF Forgetful
<1>3. IsFiniteSet(Forgetful(p)) /\ Cardinality(Forgetful(p)) <= Cardinality(Instances)
  BY <1>1, <1>2, FS_Subset
<1>4. Cardinality(Forgetful(p)) \in Nat /\ Cardinality(Instances) \in Nat
  BY <1>1, <1>3, FS_CardinalityType
<1>5. Cardinality(Instances) # 0
  BY <1>1, FS_EmptySet
<1> QED BY <1>3, <1>4, <1>5

\* Steps that touch neither intents nor submissions, in a request that does
\* not hold one.
HoldsNone == {"idle", "poll.rail", "poll.row", "poll.write", "webhook.write",
              "sweep.rail", "sweep.write"}

LEMMA AsideStep ==
  ASSUME CashoutInv, SequentialInv, IntentInv, NEW h \in Handlers,
         \E j : Become(h, j), job[h].at \in HoldsNone,
         job'[h].at \in HoldsNone,
         UNCHANGED <<submits, prepared, hot, rail>>,
         faults' = 0 => faults = 0
  PROVE  IntentInv'
<1>1. JobHoldsIntent(job[h])'
  BY DEF JobHoldsIntent, HoldsNone
<1>2. ASSUME ~overlapped', faults = 0, NEW p \in Payments
      PROVE  IntentIsSpent(p)' /\ (rail'[p] = "none" => IsFresh(p)')
  <2>1. /\ IntentIsSpent(p) /\ (rail[p] = "none" => IsFresh(p))
        /\ ~ BeingForgotten(p) /\ ~ BeingForgotten(p)'
    BY <1>2, LoneIntent DEF HoldsNone, At
  <2>2. Forgetful(p)' = Forgetful(p)
    BY DEF Forgetful
  <2> QED BY <2>1, <2>2 DEF IntentIsSpent, IsFresh
<1> QED BY <1>1, <1>2, IntentStep

\* A payment nobody has heard of.
LEMMA FreshIsSpent ==
  ASSUME NEW p \in Payments, IsFresh(p), ~ BeingForgotten(p)
  PROVE  IntentIsSpent(p)
BY CountForgetful DEF IsFresh, IntentIsSpent

LEMMA ReleaseQuoteIntent ==
  ASSUME CashoutInv, SequentialInv, IntentInv, NEW h \in Handlers,
         ReleaseQuote(h)
  PROVE  IntentInv'
<1>1. PICK p \in Payments, s \in {"CREATED", "CRYPTO_FUNDS_PENDING"} :
        /\ CreatePayment(p, s)
        /\ Become(h, [Idle EXCEPT !.at = "release.submit", !.p = p])
  BY DEF ReleaseQuote
<1>2. /\ UNCHANGED <<submits, prepared, hot, faults>>
      /\ At(h, "idle") /\ rail[p] = "none"
      /\ \A q \in Payments : rail'[q] = "none" => rail[q] = "none"
  BY <1>1, InFlight DEF ReleaseQuote, table, CreatePayment, Payments, TypeOK
<1>3. job'[h].at = "release.submit" /\ job'[h].p = p
  <2>1. job'[h] = [Idle EXCEPT !.at = "release.submit", !.p = p]
    BY <1>1, InFlight, BecomeGives
  <2> QED BY <2>1 DEF Idle
<1>4. \E j : Become(h, j)
  BY <1>1
<1>5. \A q \in Payments : /\ Forgetful(q)' = Forgetful(q)
                          /\ IsFresh(q)' <=> IsFresh(q)
  BY <1>2 DEF Forgetful, IsFresh
<1>6. ASSUME ~overlapped', faults = 0
      PROVE  /\ JobHoldsIntent(job[h])'
             /\ \A q \in Payments : /\ IntentIsSpent(q)'
                                    /\ rail'[q] = "none" => IsFresh(q)'
  <2>1. \A q \in Payments : /\ IntentIsSpent(q)
                            /\ rail[q] = "none" => IsFresh(q)
                            /\ ~ BeingForgotten(q) /\ ~ BeingForgotten(q)'
    BY <1>2, <1>3, <1>4, <1>6, LoneIntent DEF At
  <2>2. JobHoldsIntent(job[h])'
    BY <1>2, <1>3, <1>5, <2>1 DEF JobHoldsIntent
  <2>3. \A q \in Payments : IntentIsSpent(q)'
    BY <1>2, <1>5, <2>1 DEF IntentIsSpent
  <2> QED BY <1>2, <1>5, <2>1, <2>2, <2>3
<1> QED BY <1>2, <1>4, <1>6, IntentStep

LEMMA PrepareIntent ==
  ASSUME CashoutInv, SequentialInv, IntentInv, NEW h \in Handlers,
         NEW i \in Instances, Prepare(h, i)
  PROVE  IntentInv'
<1>1. PICK p \in Payments, s \in {"CREATED", "CRYPTO_FUNDS_PENDING"} :
        /\ CreatePayment(p, s)
        /\ hot' = [hot EXCEPT ![i] = @ \cup {p}]
        /\ Become(h, [Idle EXCEPT !.at = "prepare.record", !.p = p,
                                  !.inst = i, !.seen = s])
  BY DEF Prepare
<1>2. /\ UNCHANGED <<submits, prepared, faults>>
      /\ At(h, "idle") /\ rail[p] = "none" /\ rail'[p] # "none"
      /\ \A q \in Payments : rail'[q] = "none" => rail[q] = "none"
  <2>1. rail' = [rail EXCEPT ![p] = s] /\ rail[p] = "none" /\ s # "none"
    BY <1>1 DEF CreatePayment, Payments
  <2>2. rail \in [Payments -> PaymentState \cup {"none"}]
    BY InFlight DEF TypeOK
  <2> QED BY <2>1, <2>2 DEF Prepare, table
<1>3. job'[h].at = "prepare.record" /\ job'[h].p = p
  <2>1. job'[h] = [Idle EXCEPT !.at = "prepare.record", !.p = p,
                               !.inst = i, !.seen = s]
    BY <1>1, InFlight, BecomeGives
  <2> QED BY <2>1 DEF Idle
<1>4. \E j : Become(h, j)
  BY <1>1
<1>5. \A q \in Payments : q # p =>
        Forgetful(q)' = Forgetful(q) /\ (IsFresh(q)' <=> IsFresh(q))
  BY <1>1, <1>2, InFlight DEF Forgetful, IsFresh, TypeOK
<1>6. ASSUME ~overlapped', faults = 0
      PROVE  /\ JobHoldsIntent(job[h])'
             /\ \A q \in Payments : /\ IntentIsSpent(q)'
                                    /\ rail'[q] = "none" => IsFresh(q)'
  <2>1. \A q \in Payments : /\ IntentIsSpent(q)
                            /\ rail[q] = "none" => IsFresh(q)
                            /\ ~ BeingForgotten(q) /\ ~ BeingForgotten(q)'
    BY <1>2, <1>3, <1>4, <1>6, LoneIntent DEF At
  <2>2. submits'[p] = 0 /\ ~ prepared'[p]
    BY <1>2, <2>1 DEF IsFresh
  <2>3. JobHoldsIntent(job[h])'
    BY <1>3, <2>2 DEF JobHoldsIntent
  <2>4. Cardinality(Forgetful(p)') \in Nat
    <3>1. Forgetful(p)' \in SUBSET Instances
      BY DEF Forgetful
    <3> QED BY <3>1, CashoutAssumption, FS_Subset, FS_CardinalityType
  <2>5. \A q \in Payments : IntentIsSpent(q)'
    BY <1>2, <1>5, <2>1, <2>2, <2>4 DEF IntentIsSpent
  <2> QED BY <1>2, <1>5, <2>1, <2>3, <2>5
<1> QED BY <1>2, <1>4, <1>6, IntentStep

LEMMA RecordIntent ==
  ASSUME CashoutInv, SequentialInv, IntentInv, NEW h \in Handlers,
         PrepareRecord(h) \/ ReleaseRecord(h)
  PROVE  IntentInv'
<1>1. /\ (\E j : Become(h, j)) /\ job'[h].at = "idle"
      /\ UNCHANGED <<submits, hot, rail>>
      /\ job[h].p \in Payments /\ rail[job[h].p] # "none"
      /\ job[h].at \in {"prepare.record", "release.record"}
      /\ \/ UNCHANGED prepared
         \/ prepared' = [prepared EXCEPT ![job[h].p] = FALSE]
         \/ /\ At(h, "prepare.record")
            /\ prepared' = [prepared EXCEPT ![job[h].p] = TRUE]
  BY InFlight, EndGives
     DEF PrepareRecord, ReleaseRecord, At, JobKnows, Insert, cpn, table,
         HasBeen
<1>2. faults' = 0 => faults = 0
  <2>1. faults' = faults \/ faults' = faults + 1
    BY DEF PrepareRecord, ReleaseRecord, Rejects
  <2>2. faults \in Nat
    BY InFlight, CashoutAssumption DEF TypeOK
  <2> QED BY <2>1, <2>2
<1>3. ASSUME ~overlapped', faults = 0, NEW q \in Payments
      PROVE  IntentIsSpent(q)' /\ (rail'[q] = "none" => IsFresh(q)')
  <2>1. /\ IntentIsSpent(q) /\ (rail[q] = "none" => IsFresh(q))
        /\ ~ BeingForgotten(q) /\ ~ BeingForgotten(q)'
        /\ JobHoldsIntent(job[h])
    BY <1>1, <1>3, LoneIntent DEF At
  <2>2. Forgetful(q)' = Forgetful(q)
    BY <1>1 DEF Forgetful
  <2>3. prepared'[q] => prepared[q] \/ submits[q] = 0
    BY <1>1, <2>1, InFlight DEF TypeOK, JobHoldsIntent, At
  <2>4. q # job[h].p => prepared'[q] = prepared[q]
    BY <1>1, InFlight DEF TypeOK
  <2> QED BY <1>1, <2>1, <2>2, <2>3, <2>4 DEF IntentIsSpent, IsFresh
<1>4. JobHoldsIntent(job[h])'
  BY <1>1 DEF JobHoldsIntent
<1> QED BY <1>1, <1>2, <1>3, <1>4, IntentStep

\* Who takes an intent from its row is the first to broadcast it.
LEMMA BroadcastIntent ==
  ASSUME CashoutInv, SequentialInv, IntentInv, NEW h \in Handlers,
         NEW i \in Instances, NEW p \in Payments, Broadcast(h, i, p)
  PROVE  IntentInv'
<1>1. /\ UNCHANGED <<submits, prepared, rail, faults>>
      /\ At(h, "idle") /\ row[p] # "absent"
      /\ p \in hot[i] \/ prepared[p]
      /\ hot' = [hot EXCEPT ![i] = @ \cup {p}]
  BY DEF Broadcast, cpn, table
<1>2. /\ job'[h].at = "broadcast.submit" /\ job'[h].p = p
      /\ job'[h].inst = i
  <2>1. job'[h] = [Idle EXCEPT !.at = "broadcast.submit", !.p = p,
                               !.inst = i, !.polls = MaxPolls]
    BY InFlight, BecomeGives DEF Broadcast
  <2> QED BY <2>1 DEF Idle
<1>3. \E j : Become(h, j)
  BY DEF Broadcast
<1>4. \A q \in Payments : q # p =>
        Forgetful(q)' = Forgetful(q) /\ (IsFresh(q)' <=> IsFresh(q))
  BY <1>1, InFlight DEF Forgetful, IsFresh, TypeOK
<1>5. rail[p] # "none"
  BY <1>1 DEF CashoutInv, RowIsTrue, HasBeen
<1>6. JobHoldsIntent(job[h])'
  BY <1>1, <1>2, InFlight DEF JobHoldsIntent, Forgetful, TypeOK
<1>7. ASSUME ~overlapped', faults = 0, NEW q \in Payments
      PROVE  IntentIsSpent(q)' /\ (rail'[q] = "none" => IsFresh(q)')
  <2>1. /\ IntentIsSpent(q) /\ (rail[q] = "none" => IsFresh(q))
        /\ ~ BeingForgotten(q) /\ ~ BeingForgotten(q)'
    BY <1>1, <1>2, <1>3, <1>7, LoneIntent DEF At
  <2>2. CASE q # p
    BY <1>1, <1>4, <2>1, <2>2 DEF IntentIsSpent
  <2>3. CASE q = p /\ p \in hot[i]
    <3>1. Forgetful(q)' = Forgetful(q)
      BY <1>1, <2>3, InFlight DEF Forgetful, TypeOK
    <3> QED BY <1>1, <1>5, <2>1, <2>3, <3>1 DEF IntentIsSpent
  <2>4. CASE q = p /\ prepared[p]
    <3>1. submits'[q] = 0
      BY <1>1, <2>1, <2>4 DEF IntentIsSpent
    <3>2. Cardinality(Forgetful(q)') \in Nat
      <4>1. Forgetful(q)' \in SUBSET Instances
        BY DEF Forgetful
      <4> QED BY <4>1, CashoutAssumption, FS_Subset, FS_CardinalityType
    <3> QED BY <1>1, <1>5, <2>1, <2>4, <3>1, <3>2 DEF IntentIsSpent
  <2> QED BY <1>1, <2>2, <2>3, <2>4
<1> QED BY <1>1, <1>3, <1>6, <1>7, IntentStep

LEMMA SubmitIntent ==
  ASSUME CashoutInv, SequentialInv, IntentInv, NEW h \in Handlers,
         BroadcastSubmit(h) \/ ReleaseSubmit(h)
  PROVE  IntentInv'
<1>1. /\ UNCHANGED <<prepared, rail, faults, hot>>
      /\ job[h].p \in Payments /\ rail[job[h].p] # "none"
      /\ job[h].at \in {"broadcast.submit", "release.submit"}
      /\ submits \in [Payments -> Nat]
  BY InFlight DEF BroadcastSubmit, ReleaseSubmit, At, JobKnows, table, TypeOK
<1>2. \A q \in Payments : Forgetful(q)' = Forgetful(q)
  BY <1>1 DEF Forgetful
<1>3. CASE End(h) /\ UNCHANGED submits
  <2>1. (\E j : Become(h, j)) /\ job'[h].at = "idle"
    BY <1>3, InFlight, EndGives
  <2>2. JobHoldsIntent(job[h])'
    BY <2>1 DEF JobHoldsIntent
  <2>3. ASSUME ~overlapped', faults = 0, NEW q \in Payments
        PROVE  IntentIsSpent(q)' /\ (rail'[q] = "none" => IsFresh(q)')
    <3>1. /\ IntentIsSpent(q) /\ (rail[q] = "none" => IsFresh(q))
          /\ ~ BeingForgotten(q) /\ ~ BeingForgotten(q)'
      BY <1>1, <2>1, <2>3, LoneIntent DEF At
    <3> QED BY <1>1, <1>2, <1>3, <3>1 DEF IntentIsSpent, IsFresh
  <2> QED BY <1>1, <2>1, <2>2, <2>3, IntentStep
<1>4. ASSUME Accepts(job[h].p),
             NEW l \in {"broadcast.forget", "release.record"}, Goto(h, l),
             l = "broadcast.forget" <=> At(h, "broadcast.submit")
      PROVE  IntentInv'
  <2>1. /\ \E j : Become(h, j)
        /\ job'[h].at = l /\ job'[h].p = job[h].p
        /\ job'[h].inst = job[h].inst
    BY <1>4, InFlight, GotoGives
  <2>2. /\ submits'[job[h].p] = submits[job[h].p] + 1
        /\ \A q \in Payments : q # job[h].p => submits'[q] = submits[q]
    BY <1>1, <1>4 DEF Accepts
  <2>3. ASSUME ~overlapped', faults = 0
        PROVE  JobHoldsIntent(job[h])'
    <3>1. JobHoldsIntent(job[h])
      BY <2>1, <2>3, LoneIntent
    <3> QED BY <1>1, <1>2, <1>4, <2>1, <3>1 DEF JobHoldsIntent, At
  <2>4. ASSUME ~overlapped', faults = 0, NEW q \in Payments
        PROVE  IntentIsSpent(q)' /\ (rail'[q] = "none" => IsFresh(q)')
    <3>1. /\ IntentIsSpent(q) /\ (rail[q] = "none" => IsFresh(q))
          /\ ~ BeingForgotten(q) /\ JobHoldsIntent(job[h])
          /\ BeingForgotten(q)' <=> l = "broadcast.forget" /\ job[h].p = q
      BY <1>1, <2>1, <2>4, LoneIntent DEF At
    <3>2. CASE q # job[h].p
      BY <1>1, <1>2, <2>2, <3>1, <3>2 DEF IntentIsSpent, IsFresh
    <3>3. CASE q = job[h].p /\ l = "broadcast.forget"
      BY <1>1, <1>2, <2>2, <3>1, <3>3, CountForgetful DEF IntentIsSpent
    <3>4. CASE q = job[h].p /\ l = "release.record"
      <4>1. IsFresh(q)
        BY <1>1, <1>4, <3>1, <3>4 DEF JobHoldsIntent, At
      <4> QED BY <1>1, <1>2, <2>2, <3>1, <3>4, <4>1, CountForgetful
              DEF IntentIsSpent, IsFresh
    <3> QED BY <1>4, <3>2, <3>3, <3>4
  <2> QED BY <1>1, <2>1, <2>3, <2>4, IntentStep
<1> QED BY <1>3, <1>4 DEF BroadcastSubmit, ReleaseSubmit, At

\* One process more has forgotten the intent, and the row with it.
LEMMA ForgetIntent ==
  ASSUME CashoutInv, SequentialInv, IntentInv, NEW h \in Handlers,
         BroadcastForget(h)
  PROVE  IntentInv'
<1>0. PICK p, i : p = job[h].p /\ i = job[h].inst
  OBVIOUS
<1>1. /\ UNCHANGED <<submits, rail>>
      /\ p \in Payments /\ rail[p] # "none" /\ i \in Instances
      /\ At(h, "broadcast.forget")
      /\ hot' = [hot EXCEPT ![i] = @ \ {p}]
      /\ faults' = 0 => faults = 0 /\ prepared' = [prepared EXCEPT ![p] = FALSE]
  BY <1>0, InFlight, CashoutAssumption
     DEF BroadcastForget, At, JobKnows, cpn, TypeOK, Forgotten, Rejects
<1>2. (\E j : Become(h, j)) /\ job'[h].at = "poll.rail"
  BY InFlight, GotoGives DEF BroadcastForget
<1>3. JobHoldsIntent(job[h])'
  BY <1>2 DEF JobHoldsIntent
<1>4. \A q \in Payments : q # p => Forgetful(q)' = Forgetful(q)
  BY <1>1, InFlight DEF Forgetful, TypeOK
<1>5. Forgetful(p)' = Forgetful(p) \cup {i}
  BY <1>1, InFlight DEF Forgetful, TypeOK
<1>6. ASSUME ~overlapped', faults' = 0, NEW q \in Payments
      PROVE  IntentIsSpent(q)' /\ (rail'[q] = "none" => IsFresh(q)')
  <2>1. /\ IntentIsSpent(q) /\ (rail[q] = "none" => IsFresh(q))
        /\ BeingForgotten(q) <=> q = p
        /\ ~ BeingForgotten(q)' /\ JobHoldsIntent(job[h])
    BY <1>0, <1>1, <1>2, <1>6, LoneIntent DEF At
  <2>2. CASE q # p
    BY <1>1, <1>4, <1>6, <2>1, <2>2, InFlight DEF IntentIsSpent, IsFresh, TypeOK
  <2>3. CASE q = p
    <3>1. i \notin Forgetful(p)
      BY <1>0, <1>1, <2>1 DEF JobHoldsIntent, At
    <3>2. Cardinality(Forgetful(p) \cup {i}) = Cardinality(Forgetful(p)) + 1
      BY <3>1, CountForgetful, FS_AddElement
    <3>3. ~ prepared'[p]
      BY <1>1, <1>6, InFlight DEF TypeOK
    <3>4. submits[p] <= Cardinality(Forgetful(p)) + 1
      BY <2>1, <2>3 DEF IntentIsSpent
    <3>5. /\ submits'[p] = submits[p] /\ rail'[p] # "none"
          /\ Cardinality(Forgetful(p)') = Cardinality(Forgetful(p)) + 1
      BY <1>1, <1>5, <3>2
    <3>6. submits[p] \in Nat /\ Cardinality(Forgetful(p)) \in Nat
      BY <1>1, InFlight, CountForgetful DEF TypeOK
    <3>7. submits'[p] <= Cardinality(Forgetful(p)') + 0
      BY <3>4, <3>5, <3>6
    <3> QED BY <2>1, <2>3, <3>3, <3>5, <3>7 DEF IntentIsSpent
  <2> QED BY <2>2, <2>3
<1> SUFFICES ASSUME faults' = 0 PROVE IntentInv'
  BY DEF IntentInv
<1> QED BY <1>1, <1>2, <1>3, <1>6, IntentStep

\* A request that is cut short is a fault.
LEMMA FaultyStep ==
  ASSUME TypeOK, Rejects
  PROVE  IntentInv'
BY CashoutAssumption DEF TypeOK, Rejects, IntentInv

LEMMA AsideSteps ==
  ASSUME CashoutInv, SequentialInv, IntentInv, NEW h \in Handlers,
         \/ \E p \in Payments : Status(h, p)
         \/ \E p \in Payments, n \in Notifications : Webhook(h, p, n)
         \/ Sweep(h) \/ PollRail(h) \/ PollRow(h) \/ PollWrite(h)
         \/ WebhookWrite(h) \/ SweepRail(h) \/ SweepWrite(h)
  PROVE  IntentInv'
<1>1. /\ UNCHANGED <<submits, prepared, hot, rail>>
      /\ job[h].at \in HoldsNone
      /\ faults' = faults \/ Rejects
  BY DEF Status, Webhook, Sweep, PollRail, PollRow, PollWrite, WebhookWrite,
         SweepRail, SweepWrite, At, HoldsNone, cpn, table
<1>2. ASSUME NEW j, Become(h, j), j.at \in HoldsNone PROVE IntentInv'
  <2>1. job'[h] = j
    BY <1>2, InFlight, BecomeGives
  <2> QED BY <1>1, <1>2, <2>1, InFlight, AsideStep, FaultyStep
<1>3. ASSUME NEW l \in HoldsNone, Goto(h, l) PROVE IntentInv'
  BY <1>1, <1>3, InFlight, GotoGives, AsideStep, FaultyStep
<1>4. CASE End(h)
  BY <1>1, <1>4, InFlight, EndGives, AsideStep, FaultyStep DEF HoldsNone
<1>5. CASE NextPoll(h)
  BY <1>3, <1>4, <1>5 DEF NextPoll, HoldsNone
<1>6. CASE NextRow(h)
  <2>1. [job[h] EXCEPT !.at = "sweep.rail", !.todo = Tail(job[h].todo)].at
          \in HoldsNone
    BY InFlight DEF Jobs, HoldsNone
  <2> QED BY <1>2, <1>4, <1>6, <2>1 DEF NextRow
<1>7. CASE \E p \in Payments : Status(h, p)
  <2>1. PICK p \in Payments : Status(h, p)
    BY <1>7
  <2>2. [Idle EXCEPT !.at = "poll.rail", !.p = p, !.polls = 1].at \in HoldsNone
    BY DEF Idle, HoldsNone
  <2> QED BY <1>2, <2>1, <2>2 DEF Status
<1>8. CASE \E p \in Payments, n \in Notifications : Webhook(h, p, n)
  <2>1. PICK p \in Payments, n \in Notifications : Webhook(h, p, n)
    BY <1>8
  <2>2. PICK to \in PaymentState :
          Become(h, [Idle EXCEPT !.at = "webhook.write", !.p = p, !.seen = to])
    BY <2>1 DEF Webhook
  <2>3. [Idle EXCEPT !.at = "webhook.write", !.p = p, !.seen = to].at
          \in HoldsNone
    BY DEF Idle, HoldsNone
  <2> QED BY <1>2, <2>2, <2>3
<1>9. CASE Sweep(h)
  <2>1. [Idle EXCEPT !.at = "sweep.rail", !.todo = Newest].at \in HoldsNone
    BY DEF Idle, HoldsNone
  <2> QED BY <1>2, <1>9, <2>1 DEF Sweep
<1>10. CASE PollRail(h)
  <2> DEFINE left == job[h].polls - 1
  <2> DEFINE s == rail[job[h].p]
  <2>1. /\ [job[h] EXCEPT !.at = "poll.row", !.seen = s, !.polls = left].at
             \in HoldsNone
        /\ [job[h] EXCEPT !.polls = left].at \in HoldsNone
    BY <1>1, InFlight DEF Jobs, HoldsNone
  <2> QED BY <1>2, <1>4, <1>10, <2>1 DEF PollRail
<1>11. CASE PollRow(h)
  BY <1>3, <1>5, <1>11 DEF PollRow, HoldsNone
<1>12. CASE SweepRail(h)
  <2> DEFINE s == rail[Head(job[h].todo).p]
  <2>1. [job[h] EXCEPT !.at = "sweep.write", !.seen = s].at \in HoldsNone
    BY InFlight DEF Jobs, HoldsNone
  <2> QED BY <1>2, <1>6, <1>12, <2>1 DEF SweepRail, Saw
<1> QED
  BY <1>4, <1>5, <1>6, <1>7, <1>8, <1>9, <1>10, <1>11, <1>12
     DEF PollWrite, WebhookWrite, SweepWrite

\* CPN's own steps.
LEMMA RailIntent ==
  ASSUME CashoutInv, IntentInv, NEW p \in Payments, NEW n \in Notifications,
         RailAdvances(p, n)
  PROVE  IntentInv'
<1>1. /\ UNCHANGED <<submits, prepared, hot, job, overlapped, faults>>
      /\ \A q \in Payments : rail'[q] = "none" => rail[q] = "none"
  <2>1. PICK to : /\ rail[p] # "none" /\ to \in PAYMENT_NEXT[rail[p]]
                  /\ rail' = [rail EXCEPT ![p] = to]
    BY DEF RailAdvances
  <2>2. rail \in [Payments -> PaymentState \cup {"none"}]
    BY DEF CashoutInv, TypeOK
  <2>3. to # "none"
    BY <2>1, <2>2 DEF PAYMENT_NEXT, PaymentState
  <2> QED BY <2>1, <2>2, <2>3 DEF RailAdvances, table
<1>2. \A q \in Payments : /\ Forgetful(q)' = Forgetful(q)
                          /\ BeingForgotten(q)' <=> BeingForgotten(q)
  BY <1>1 DEF Forgetful, BeingForgotten, At
<1>3. \A q \in Payments : /\ IntentIsSpent(q)' <=> IntentIsSpent(q)
                          /\ IsFresh(q)' <=> IsFresh(q)
  BY <1>1, <1>2 DEF IntentIsSpent, IsFresh
<1>4. \A h \in Handlers : JobHoldsIntent(job[h])' <=> JobHoldsIntent(job[h])
  BY <1>1 DEF JobHoldsIntent, IsFresh, Forgetful
<1> QED BY <1>1, <1>3, <1>4 DEF IntentInv

LEMMA StutterIntent ==
  ASSUME IntentInv, UNCHANGED vars
  PROVE  IntentInv'
<1>1. UNCHANGED <<rail, submits, prepared, hot, job, overlapped, faults>>
  BY DEF vars, cpn, table
<1> QED
  BY <1>1 DEF IntentInv, IntentIsSpent, IsFresh, JobHoldsIntent, Forgetful,
              BeingForgotten, At

LEMMA IntentKept ==
  CashoutInv /\ SequentialInv /\ IntentInv /\ [Next]_vars => IntentInv'
<1> SUFFICES ASSUME CashoutInv, SequentialInv, IntentInv, [Next]_vars
             PROVE  IntentInv'
  OBVIOUS
<1>1. ASSUME NEW h \in Handlers, Begin(h) PROVE IntentInv'
  BY <1>1, PrepareIntent, BroadcastIntent, ReleaseQuoteIntent, AsideSteps
     DEF Begin
<1>2. ASSUME NEW h \in Handlers, Continue(h) PROVE IntentInv'
  BY <1>2, RecordIntent, SubmitIntent, ForgetIntent, AsideSteps DEF Continue
<1>3. ASSUME NEW h \in Handlers, Interrupt(h) PROVE IntentInv'
  BY <1>3, InFlight, FaultyStep DEF Interrupt
<1> QED BY <1>1, <1>2, <1>3, RailIntent, StutterIntent DEF Next

LEMMA IntentStarts == Init => IntentInv
<1> SUFFICES ASSUME Init, NEW p \in Payments
             PROVE  /\ IntentIsSpent(p) /\ IsFresh(p)
                    /\ \A h \in Handlers : JobHoldsIntent(job[h])
  BY DEF IntentInv
<1>1. IsFresh(p) /\ ~ BeingForgotten(p)
  BY DEF Init, IsFresh, Forgetful, BeingForgotten, At, Idle
<1>2. \A h \in Handlers : JobHoldsIntent(job[h])
  BY DEF Init, JobHoldsIntent, Idle
<1> QED BY <1>1, <1>2, FreshIsSpent

-----------------------------------------------------------------------------
(* The theorems about requests that do not overlap.                        *)

\* Without overlap every request in flight writes what is downstream of the
\* row as it still is.
THEOREM SequentialCorrect == Spec => []SequentialInv
BY SequentialHolds, PTL

LEMMA WriterIsAlone ==
  ASSUME SequentialInv, ~overlapped, NEW h \in Handlers, ~ At(h, "idle"),
         NEW j, Become(h, j)
  PROVE  ~overlapped'
BY DEF SequentialInv, OneInFlight, Become

LEMMA RowStep ==
  ASSUME CashoutInv, SequentialInv, ~overlapped, [Next]_vars
  PROVE  RowsMoveForward
<1>1. CASE row' = row
  BY <1>1 DEF RowsMoveForward
<1>2. ASSUME NEW h \in Handlers,
             \/ PrepareRecord(h) \/ ReleaseRecord(h)
             \/ PollWrite(h) \/ WebhookWrite(h) \/ SweepWrite(h)
      PROVE  RowsMoveForward
  <2>1. ~ At(h, "idle") /\ \E j : Become(h, j)
    BY <1>2 DEF PrepareRecord, ReleaseRecord, PollWrite, WebhookWrite,
                SweepWrite, At, NextPoll, NextRow, Goto, End
  <2>2. ~overlapped'
    BY <2>1, WriterIsAlone
  <2> QED BY <1>2, <2>2, RecordSequential, WriteSequential, SweepWriteSequential
<1>3. ASSUME NEW h \in Handlers, Begin(h) PROVE row' = row
  BY <1>3 DEF Begin, Prepare, Broadcast, ReleaseQuote, Status, Webhook, Sweep,
              table
<1>4. CASE UNCHANGED vars
  BY <1>4 DEF vars, table, RowsMoveForward
<1>5. ASSUME NEW h \in Handlers,
             \/ BroadcastSubmit(h) \/ BroadcastForget(h) \/ ReleaseSubmit(h)
             \/ PollRail(h) \/ PollRow(h) \/ SweepRail(h) \/ Interrupt(h)
      PROVE  row' = row
  BY <1>5 DEF BroadcastSubmit, BroadcastForget, ReleaseSubmit, PollRail,
              PollRow, SweepRail, Interrupt, table
<1>6. ASSUME NEW p \in Payments, NEW n \in Notifications, RailAdvances(p, n)
      PROVE  row' = row
  BY <1>6 DEF RailAdvances, table
<1> QED BY <1>1, <1>2, <1>3, <1>4, <1>5, <1>6 DEF Next, Continue

\* The reducers move a row forward along the graph and never out of a terminal
\* state, in whatever order webhooks, polls and sweeps come, as long as they do
\* not overlap.
THEOREM RowsGoForward == Spec => ForwardOnly
<1>1. CashoutInv /\ SequentialInv /\ [Next]_vars
        => [\A p \in Payments :
              /\ ~overlapped
              /\ row[p] \notin {"absent", row'[p]}
              => isReachable(row[p], row'[p])]_vars
  BY RowStep DEF RowsMoveForward
<1> QED BY <1>1, SequentialHolds, PTL DEF Spec, ForwardOnly

\* The memories and the row account for the submissions of each payment, as
\* long as requests do not overlap and no await fails.
THEOREM IntentsAccounted == Spec => []IntentInv
<1>1. CashoutInv /\ SequentialInv /\ IntentInv /\ [Next]_vars => IntentInv'
  BY IntentKept
<1> QED BY <1>1, IntentStarts, SequentialHolds, PTL DEF Spec

\* No process broadcasts an intent twice: one that has broadcast it has
\* forgotten it, and one that comes later finds the row cleared.
THEOREM IntentsSubmittedOnce == Spec => []SubmittedOnce
<1>1. ASSUME CashoutInv, IntentInv, ~overlapped, faults = 0, NEW p \in Payments
      PROVE  submits[p] <= Cardinality(Instances)
  <2>1. submits[p] \in Nat /\ IntentIsSpent(p)
    BY <1>1 DEF CashoutInv, TypeOK, IntentInv
  <2>2. CASE ~ BeingForgotten(p)
    BY <2>1, <2>2, CountForgetful DEF IntentIsSpent
  <2>3. CASE BeingForgotten(p)
    <3>1. PICK i \in Instances : i \notin Forgetful(p)
      <4>1. PICK h \in Handlers : At(h, "broadcast.forget") /\ job[h].p = p
        BY <2>3 DEF BeingForgotten
      <4>2. job[h].inst \notin Forgetful(p) /\ job[h].inst \in Instances
        BY <1>1, <4>1, InFlight DEF IntentInv, JobHoldsIntent, At
      <4> QED BY <4>2
    <3>2. Forgetful(p) \in SUBSET (Instances \ {i})
      BY <3>1 DEF Forgetful
    <3>3. /\ IsFiniteSet(Instances \ {i})
          /\ Cardinality(Instances \ {i}) = Cardinality(Instances) - 1
      BY <3>1, CashoutAssumption, FS_RemoveElement
    <3>4. Cardinality(Forgetful(p)) <= Cardinality(Instances) - 1
      BY <3>2, <3>3, FS_Subset
    <3> QED BY <2>1, <3>4, CountForgetful DEF IntentIsSpent
  <2> QED BY <2>2, <2>3
<1>2. CashoutInv /\ IntentInv => SubmittedOnce
  BY <1>1 DEF SubmittedOnce
<1> QED BY <1>2, CashoutCorrect, IntentsAccounted, PTL
=============================================================================
