---------------------------- MODULE RouterBudget ----------------------------
(***************************************************************************)
(* Router with a history variable that counts what a worker that is gone   *)
(* costs the callers.                                                      *)
(***************************************************************************)
EXTENDS Router

VARIABLE wasted   \* wasted[w]: forwards charged to w since it went down

\* The worker of a call whose failure is recorded in this step.
Charged(w) ==
  \E c \in Clients : /\ call[c] = "failed" /\ call'[c] # "failed"
                     /\ target[c] = w

BudgetInit == Init /\ wasted = [w \in Workers |-> 0]

BudgetNext ==
  /\ Next
  /\ wasted' = [w \in Workers |->
                  IF up'[w] THEN 0
                  ELSE IF Charged(w) THEN wasted[w] + 1 ELSE wasted[w]]

BudgetSpec == BudgetInit /\ [][BudgetNext]_<<vars, wasted>>

\* FailLimit failures exclude a worker; the other calls may be on their way
\* to it already.
PerExclusion == FailLimit + Cardinality(Clients) - 1

(***************************************************************************)
(* A dead worker fails a bounded number of attempts, however long it is    *)
(* down: FailLimit of them exclude it, those under way at that moment fail *)
(* too, and all of it may happen once more, because the answer to a poll   *)
(* that the worker gave before it went can be recorded late and restore it *)
(* - once, since a worker is polled by one goroutine at a time             *)
(* (registry.go 96-118, poller.go 60-85, router.go 143-145).               *)
(***************************************************************************)
DeadWorkerBudget == \A w \in Workers : wasted[w] <= 2 * PerExclusion
=============================================================================
