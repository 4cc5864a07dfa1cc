--------------------------- MODULE RouterHistory ----------------------------
(***************************************************************************)
(* Router with a history variable for what its comments say of failures.   *)
(***************************************************************************)
EXTENDS Router

VARIABLE streak   \* streak[w]: w's failures since its last success, at most
                  \* FailLimit of them

\* In this step a call to w, or a poll of w, is found to have succeeded.
Succeeded(w) ==
  \/ \E c \in Clients : /\ call[c] = "forwarded" /\ call'[c] = "idle"
                        /\ target[c] = w
  \/ poll[w] = "answered" /\ poll'[w] = "none"

\* In this step a failure is recorded against w.
Charged(w) ==
  \/ \E c \in Clients : /\ call[c] = "failed" /\ call'[c] # "failed"
                        /\ target[c] = w
  \/ poll[w] = "failed" /\ poll'[w] = "none"

HistoryInit ==
  /\ Init
  /\ streak = [w \in Workers |-> 0]

HistoryNext ==
  /\ Next
  /\ streak' = [w \in Workers |->
                 IF Succeeded(w) THEN 0
                 ELSE IF Charged(w) /\ streak[w] < FailLimit THEN streak[w] + 1
                 ELSE streak[w]]

historyVars == <<vars, streak>>
HistorySpec == HistoryInit /\ [][HistoryNext]_historyVars

(***************************************************************************)
(* registry.go:107 and 115: a worker is marked unhealthy after 3           *)
(* consecutive failures.                                                   *)
(***************************************************************************)
ConsecutiveFailures ==
  [][\A w \in Workers : healthy[w] /\ ~healthy'[w] => streak'[w] >= FailLimit]_historyVars

=============================================================================
