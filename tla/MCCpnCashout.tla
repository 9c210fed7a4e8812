---------------------------- MODULE MCCpnCashout ----------------------------
(***************************************************************************)
(* Small instances of the CPN cash-outs for TLC.                           *)
(***************************************************************************)
EXTENDS CpnCashoutProperties
=============================================================================
