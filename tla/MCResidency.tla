---------------------------- MODULE MCResidency ----------------------------
(* Model-checking instances of Residency. *)
EXTENDS Residency, TLC

CONSTANTS m1, m2, m3

ThreeModels == {m1, m2, m3}
Amounts == {0, 1, 2, 5}   \* nothing, small, half the budget, more than all of it
=============================================================================
