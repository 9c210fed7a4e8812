---------------------------- MODULE MCCheckout ----------------------------
(***************************************************************************)
(* Small instances of paying for an order for TLC.                          *)
(***************************************************************************)
EXTENDS CheckoutProperties

CONSTANTS t1, t2

\* One browser, funds for two transfers, and a fault; or two browsers over
\* an order of the demo buyer, who can send one.
OneTab(who) == [payer |-> who, tabs |-> {t1}, away |-> 2, lapses |-> TRUE,
                faults |-> 1]
TwoTabs == [payer |-> "demo", tabs |-> {t1, t2}, away |-> 1, lapses |-> FALSE,
            faults |-> 0]

AllSettings == {OneTab("wallet"), OneTab("demo"), TwoTabs}
=============================================================================
