-------------------------- MODULE InferenceService --------------------------
(***************************************************************************)
(* What router and workers together promise the clients of Infer, with no  *)
(* attempt, worker or batch: a call is answered once; an answer with a     *)
(* result means that the request has been executed.  A request runs again  *)
(* only after an attempt that ended without an answer; that run, or the    *)
(* one of the unanswered attempt, may come after the call was answered,    *)
(* and after an error too.                                                 *)
(***************************************************************************)
EXTENDS Integers

CONSTANTS
  Clients,      \* the calls, each made once
  MaxAttempts   \* maxRetries in Router.Infer

VARIABLES
  outcome,  \* outcome[c]: "none", "open", "ok" or "error"
  runs,     \* runs[c]: successful executions of c's request
  silent    \* silent[c]: attempts that ended without an answer

vars == <<outcome, runs, silent>>

Init ==
  /\ outcome = [c \in Clients |-> "none"]
  /\ runs = [c \in Clients |-> 0]
  /\ silent = [c \in Clients |-> 0]

Begin(c) ==
  /\ outcome[c] = "none"
  /\ outcome' = [outcome EXCEPT ![c] = "open"]
  /\ UNCHANGED <<runs, silent>>

\* An attempt that is still under way may be executed as well, but none is
\* when the call has ended in an error.
MostRuns(c) ==
  CASE outcome[c] = "none" -> 0
    [] outcome[c] \in {"open", "ok"} -> silent[c] + 1
    [] outcome[c] = "error" -> silent[c]

\* One batch may hold several requests, and several copies of one.
Execute ==
  /\ \A c \in Clients : runs'[c] \in runs[c] .. MostRuns(c)
  /\ UNCHANGED <<outcome, silent>>

GiveUpAttempt(c) ==
  /\ outcome[c] = "open"
  /\ silent[c] < MaxAttempts
  /\ silent' = [silent EXCEPT ![c] = @ + 1]
  /\ UNCHANGED <<outcome, runs>>

Answer(c) ==
  /\ outcome[c] = "open"
  /\ \/ runs[c] > 0 /\ outcome' = [outcome EXCEPT ![c] = "ok"]
     \/ runs[c] <= silent[c] /\ outcome' = [outcome EXCEPT ![c] = "error"]
  /\ UNCHANGED <<runs, silent>>

Next == Execute \/ \E c \in Clients : 
                        Begin(c) \/ GiveUpAttempt(c) \/ Answer(c)

Spec == Init /\ [][Next]_vars
=============================================================================
