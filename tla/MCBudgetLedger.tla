---------------------------- MODULE MCBudgetLedger ----------------------------
(***************************************************************************)
(* A small instance of BudgetLedger for TLC.                               *)
(***************************************************************************)
EXTENDS BudgetLedger

AmountSet == {0, 6}
===============================================================================
