------------------------ MODULE CpnCashoutProperties ------------------------
(***************************************************************************)
(* What is claimed of the rows of cpn_payments.                            *)
(***************************************************************************)
EXTENDS CpnCashout

AtOrBefore(s, t) == s = t \/ isReachable(s, t)

\* The submission of a payout was answered COMPLETED or FAILED: words of its
\* transaction, which initialPaymentState takes for the payment's.
EndedEarly(p) == \E w \in words[p] : isPaymentTerminal(w)

\* A row tells of a place its payment has been: whatever is lost, repeated,
\* reordered or overtaken, it is never ahead of CPN, and what it calls
\* completed or failed is.  A payout that ended early is outside the claim: its
\* row begins at an end the payment has not reached (cpn.server.ts, submit).
RowNeverAhead ==
    \A p \in Payments : row[p] # "absent" =>
      /\ rail[p] # "none"
      /\ ~EndedEarly(p) => AtOrBefore(row[p], rail[p])
      /\ ~EndedEarly(p) /\ isPaymentTerminal(row[p]) => rail[p] = row[p]

-----------------------------------------------------------------------------
(* Why it holds: what each request in flight is about to write has been    *)
(* true, and CPN does not go back.                                         *)

\* The state of the payment a notification tells of.
Tells(n) == IF n = "rejected" THEN "FAILED"
                              ELSE IF n \in PaymentEvents
                                     THEN PAYMENT_EVENT_STATE[n]
                                     ELSE "null"

\* A payment that is at r has been at s.
HasBeen(r, s) == s \in PaymentState /\ r # "none" /\ AtOrBefore(s, r)

\* So is what a row says, but for a payout that ended early.
RowIsTrue(p) == HasBeen(rail[p], row[p]) \/ (rail[p] # "none" /\ EndedEarly(p))

JobKnows(j) ==
    /\ j.at \in {"prepare.record", "poll.row", "poll.write", "webhook.write"}
         => j.p \in Payments /\ HasBeen(rail[j.p], j.seen)
    /\ j.at \in {"broadcast.submit", "broadcast.forget", "release.submit",
                 "release.record", "poll.rail"}
         => j.p \in Payments /\ rail[j.p] # "none"
    /\ j.at \in {"broadcast.submit", "broadcast.forget", "poll.rail"}
         => j.polls > 0
    /\ j.at \in {"sweep.rail", "sweep.write"} => j.todo # <<>>
    /\ j.at = "sweep.write" => HasBeen(rail[Head(j.todo).p], j.seen)

\* The inductive invariant behind RowNeverAhead.
CashoutInv ==
    /\ TypeOK
    /\ \A p \in Payments :
         /\ row[p] # "absent" => RowIsTrue(p)
         /\ \A n \in sent[p] : Tells(n) # "null" => HasBeen(rail[p], Tells(n))
    /\ \A k \in 1..Len(inserted) : row[inserted[k]] # "absent"
    /\ \A h \in Handlers : JobKnows(job[h])

-----------------------------------------------------------------------------
(* What holds when requests do not overlap.                                *)

\* The reducers move a row forward along the graph and never out of a terminal
\* state, in whatever order webhooks, polls and sweeps come (cpn-state.ts).
ForwardOnly ==
    [][\A p \in Payments :
         /\ ~overlapped
         /\ row[p] \notin {"absent", row'[p]}
         => isReachable(row[p], row'[p])]_vars

\* No process broadcasts an intent twice, whoever signs: it forgets what it
\* has broadcast, and a process that comes later finds the row cleared.  One
\* that prepared the intent still remembers it (forgetPrepared).
SubmittedOnce ==
    ~overlapped /\ faults = 0 =>
      \A p \in Payments : submits[p] <= Cardinality(Instances)

-----------------------------------------------------------------------------
(* Why these hold: nobody else writes the row a request in flight has read, *)
(* or takes the intent it is about to broadcast.                            *)

OneInFlight ==
    \A g, h \in Handlers : At(g, "idle") \/ At(h, "idle") \/ g = h

\* A row is there, and a write of s moves it forward.
MovesForward(p, s) == row[p] # "absent" /\ isReachable(row[p], s)

\* The rows of a sweep's list are as they were listed, each listed once.
IsUpToDate(todo) ==
    /\ \A k \in 1..Len(todo) : row[todo[k].p] = todo[k].status
    /\ \A k, l \in 1..Len(todo) : todo[k].p = todo[l].p => k = l

\* What the one request in flight knows of the row it is to write.
JobIsCurrent(j) ==
    /\ j.at \in {"prepare.record", "release.submit", "release.record"}
         => row[j.p] = "absent"
    /\ j.at \in {"poll.write", "webhook.write"} => MovesForward(j.p, j.seen)
    /\ j.at \in {"sweep.rail", "sweep.write"} => IsUpToDate(j.todo)
    /\ j.at = "sweep.write" => MovesForward(Head(j.todo).p, j.seen)

\* The inductive invariant behind ForwardOnly.
SequentialInv ==
    ~overlapped =>
      /\ OneInFlight
      /\ \A h \in Handlers : JobIsCurrent(job[h])
      /\ \A k, l \in 1..Len(inserted) : inserted[k] = inserted[l] => k = l

Forgetful(p) == {i \in Instances : p \notin hot[i]}

\* Its transaction has been accepted, and its intent is still in memory.
BeingForgotten(p) ==
    \E h \in Handlers : At(h, "broadcast.forget") /\ job[h].p = p

\* A transaction has been accepted at most once for each process that does not
\* remember the intent, and never while the row still holds it.
IntentIsSpent(p) ==
    /\ submits[p] <= Cardinality(Forgetful(p))
                       + (IF BeingForgotten(p) THEN 1 ELSE 0)
    /\ prepared[p] => submits[p] = 0 \/ BeingForgotten(p)

\* Nobody has heard of a payment: nothing was accepted, nothing is to sign.
IsFresh(p) == submits[p] = 0 /\ ~prepared[p] /\ Forgetful(p) = Instances

JobHoldsIntent(j) ==
    /\ j.at = "prepare.record" => submits[j.p] = 0
    /\ j.at = "release.submit" => IsFresh(j.p)
    /\ j.at \in {"broadcast.submit", "broadcast.forget"} =>
         j.inst \notin Forgetful(j.p)

\* The inductive invariant behind SubmittedOnce.
IntentInv ==
    ~overlapped /\ faults = 0 =>
      \A p \in Payments :
        /\ IntentIsSpent(p)
        /\ rail[p] = "none" => IsFresh(p)
        /\ \A h \in Handlers : JobHoldsIntent(job[h])

-----------------------------------------------------------------------------
(* Liveness: requests end, and the host keeps sweeping.                    *)

Fairness ==
    \A h \in Handlers : WF_vars(Continue(h)) /\ SF_vars(Sweep(h))

FairSpec == Spec /\ Fairness

\* A row is repaired even if no webhook ever comes: once CPN is done with the
\* payment, the row says so.  The row of a payout that ended early is at an end
\* that no poll, sweep or webhook takes it from.
RowCatchesUp ==
    \A p \in Payments :
      row[p] # "absent" /\ isPaymentTerminal(rail[p]) /\ ~EndedEarly(p)
        ~> row[p] = rail[p]

-----------------------------------------------------------------------------
(* What the repository says and the code does not do.                       *)

\* cpn-reconcile.ts says of every write of the sweep that it "only moves forward
\* and never leaves a terminal state", whatever else is in flight.
RowsOnlyAdvance ==
    [][\A p \in Payments :
         row[p] \notin {"absent", row'[p]} => isReachable(row[p], row'[p])]_row
=============================================================================
