--------------------------- MODULE MCBudgetLedger ---------------------------
(***************************************************************************)
(* A ledger with four reservations, in amounts that fill one ceiling       *)
(* before the other.                                                       *)
(***************************************************************************)
EXTENDS BudgetLedger

SomeAmounts == { [ tokens |-> 2, cost |-> 0 ], [ tokens |-> 1, cost |-> 3 ] }
=============================================================================
