--------------------------- MODULE MCMarketplace ---------------------------
(***************************************************************************)
(* Small instances of the marketplace for TLC.                              *)
(***************************************************************************)
EXTENDS MarketplaceProperties, TLC

CONSTANTS o1, o2, o3, w1, w2, s1, s2

SweepsOfOne == (s1 :> w1) @@ (s2 :> w1)

\* One screen over a wallet order; two that hurry to settle one; one screen over
\* a bank order; and one with sweeps that overlap, over a bank order that leaves
\* no surplus.
WalletScene == [order |-> o2, cast |-> {w1}, buttons |-> Buttons,
                sellerAddress |-> TRUE, faults |-> 1]
HurryScene == [WalletScene EXCEPT !.cast = {w1, w2},
                                  !.buttons = {"ship", "release"},
                                  !.faults = 0]
BankScene == [order |-> o1, cast |-> {w1, s1}, buttons |-> Buttons,
              sellerAddress |-> FALSE, faults |-> 0]
SweepsScene == [BankScene EXCEPT !.order = o3, !.cast = {w1, s1, s2},
                                 !.buttons = {"ship", "release"}]

AllScenes == {WalletScene, HurryScene, BankScene, SweepsScene}
OneScreen == {[WalletScene EXCEPT !.faults = 0]}
=============================================================================
