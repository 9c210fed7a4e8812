----------------------------- MODULE OrderState -----------------------------
(***************************************************************************)
(* The lifecycle of an order: src/orchestrator/state-machine.ts.           *)
(*                                                                         *)
(* The table is the whole of the file's behaviour: every other function of *)
(* it is a question about the table.  Modules that move an order take the  *)
(* guard canTransition from here, as the code does.                        *)
(***************************************************************************)

ORDER_STATES ==
    {"created", "funding_pending", "funded", "settlement_pending", "shipped",
     "released", "payout_pending", "paid_out", "refund_pending", "refunded",
     "failed"}

\* The edges out of each state.  There are no self-loops.
TRANSITIONS ==
    [created            |-> {"funding_pending", "failed"},
     funding_pending    |-> {"funded", "failed"},
     funded             |-> {"shipped", "released", "payout_pending",
                             "settlement_pending", "refund_pending", "failed"},
     settlement_pending |-> {"released", "payout_pending", "refund_pending",
                             "failed"},
     shipped            |-> {"released", "payout_pending",
                             "settlement_pending", "refund_pending", "failed"},
     released           |-> {"refund_pending"},
     payout_pending     |-> {"paid_out", "settlement_pending", "failed"},
     paid_out           |-> {},
     refund_pending     |-> {"refunded", "failed"},
     refunded           |-> {},
     failed             |-> {"refund_pending", "funded"}]

\* Mutant: a broadcast payout may be refunded.
canTransition_RefundablePayout(from, to) ==
    \/ to \in TRANSITIONS[from]
    \/ from = "payout_pending" /\ to = "refund_pending"
canTransition(from, to) == to \in TRANSITIONS[from]

isTerminal(s) == TRANSITIONS[s] = {}

\* Funds are known to sit in escrow, or to have left it for the receiver.
isFunded(s) == s \in {"funded", "settlement_pending", "shipped", "released",
                      "payout_pending", "paid_out"}

\* Funds have left the escrow: void and reclaim no longer apply.
isCaptured(s) == s \in {"settlement_pending", "released", "payout_pending",
                        "paid_out"}

\* The fiat leg has been broadcast, or delivered.
isOffRamped(s) == s \in {"payout_pending", "paid_out"}
=============================================================================
