--------------------------- MODULE MCBudgetedRun ---------------------------
(* Instances of BudgetedRun for TLC.                                        *)
EXTENDS BudgetedRun

CONSTANTS leader, kid
=============================================================================
