--------------------------- MODULE MCWalletRails ---------------------------
(***************************************************************************)
(* Small wallets for TLC: an order of 3, a fee of 1, three source chains of *)
(* which the third cannot be picked.                                        *)
(***************************************************************************)
EXTENDS WalletRailsProperties, TLC

CONSTANTS c1, c2, c3

Of(a, b, c) == c1 :> a @@ c2 :> b @@ c3 :> c

\* USDC on two chains, nothing in Gateway, a wallet that knows only one of
\* them; enough for a bridge and a deposit, or for two deposits.
Outside(h, k) == [held |-> h, confirmed |-> Of(0, 0, 0), arc |-> 0,
                  known |-> k, network |-> c1]

\* A Gateway balance spread over the chains, and perhaps one more deposit.
Spread(h, q) == [held |-> h, confirmed |-> q, arc |-> 0,
                 known |-> {c1, Arc}, network |-> c1]

AllScenes ==
    {Outside(Of(4, 0, 0), {c1}), Outside(Of(8, 4, 0), {c1, Arc}),
     [held |-> Of(0, 0, 0), confirmed |-> Of(0, 0, 0), arc |-> 3,
      known |-> {c1, Arc}, network |-> c1]}
    \cup {Spread(Of(0, 0, 0), Of(x, y, z)) :
            x \in {0, 2, 3}, y \in {0, 2, 4}, z \in {0, 2, 4}}
    \cup {Spread(Of(4, 0, 0), Of(2, 0, 2))}
=============================================================================
