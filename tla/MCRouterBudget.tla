--------------------------- MODULE MCRouterBudget ---------------------------
(***************************************************************************)
(* Instances of RouterBudget for TLC: with fairness, and with few calls.   *)
(***************************************************************************)
EXTENDS RouterBudget

CONSTANTS w1, w2, c1, c2

\* Both workers are connected, or the first one, or none.
SmallInit == BudgetInit /\ connected # {w2}

\* Bound: one call at a time while there are two workers to choose from.
FewCalls == connected = Workers => call'[c2] = "idle"

SmallSpec ==
  SmallInit /\ [][BudgetNext /\ FewCalls]_<<vars, wasted>> /\ Fairness
=============================================================================
