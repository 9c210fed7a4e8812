----------------------- MODULE WalletRailsProperties -----------------------
(***************************************************************************)
(* What a payment from a browser wallet may rely on.                        *)
(***************************************************************************)
EXTENDS WalletRails

\* pinnedTo ("whatever the other view last switched to is exactly what a cached
\* answer would get wrong") and signAndAuthorize: a request reaches the wallet
\* on its own chain, with every prompt in between answered as the payer likes,
\* unless the payer or a second call moved the wallet meanwhile.
OnItsChain == misplaced => overlapped

\* planAllocations ("a partial allocation is rejected by Gateway anyway, and
\* rejecting here costs nothing while rejecting there costs a round trip"):
\* Gateway refuses no intent of a plan, although the plan was made of a balance
\* read before the payer was prompted, and deposits run meanwhile.
SpendIsAccepted == ~ refused

\* The allocations of the order's amount that Gateway accepts over a balance.
Accepted(q) ==
    {p \in [Chains -> 0..Need] :
       /\ SumFunction(p) = Need
       /\ \A c \in Chains : p[c] > 0 => q[c] >= p[c] + Fee}
Intended(p) == Cardinality({c \in Chains : p[c] > 0})

\* planAllocations: a plan is the whole amount and takes at most one intent, and
\* so one fee, more than the cheapest there is, for the chain the payer picked;
\* and it is refused as short only when there is none.
PlanIsRight ==
    [][/\ draw = NoDraw /\ draw' # NoDraw =>
             /\ draw' \in Accepted(confirmed)
             /\ \A p \in Accepted(confirmed) : Intended(draw') <= Intended(p) + 1
       /\ ~ short /\ short' => Accepted(confirmed) = {}]_vars

\* The top-up button ("a deposit of exactly the order amount leaves the rail one
\* fee short"): what is deposited pays for the order once it is confirmed, until
\* a spend has used it.
TopUpSuffices ==
    topped => Accepted([c \in Chains |-> confirmed[c] + credited[c]]) # {}
=============================================================================
