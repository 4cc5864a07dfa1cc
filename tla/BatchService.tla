---------------------------- MODULE BatchService ----------------------------
(***************************************************************************)
(* What a worker promises its callers, with no queue, channel or           *)
(* goroutine: every accepted call's request is executed at most once, in a *)
(* batch that succeeds or fails as a whole; a call that is not cancelled   *)
(* returns only with the outcome of its own request's batch; a cancelled   *)
(* call does not stop its request from being executed.                     *)
(***************************************************************************)
EXTENDS Integers, FiniteSets

CONSTANTS
  Requests,      \* calls that can be open at the same time
  MaxBatchSize   \* the largest batch

VARIABLES
  call,   \* call[r]: "closed" or "open"
  work    \* work[r]: what became of the request of r's last call

vars == <<call, work>>

Outcomes == {"ok", "failed"}

TypeOK ==
  /\ call \in [Requests -> {"closed", "open"}]
  /\ work \in [Requests -> {"none", "pending"} \cup Outcomes]

Init ==
  /\ call = [r \in Requests |-> "closed"]
  /\ work = [r \in Requests |-> "none"]

Accept(r) ==
  /\ call[r] = "closed"
  /\ work[r] # "pending"
  /\ call' = [call EXCEPT ![r] = "open"]
  /\ work' = [work EXCEPT ![r] = "pending"]

\* One call of the executor decides every request of the batch S.
ExecuteBatch(S, outcome) ==
  /\ S # {}
  /\ Cardinality(S) <= MaxBatchSize
  /\ \A r \in S : work[r] = "pending"
  /\ work' = [r \in Requests |-> IF r \in S THEN outcome ELSE work[r]]
  /\ UNCHANGED call

\* An open call returns with its outcome, which is thereby used up.
Return(r) ==
  /\ call[r] = "open"
  /\ work[r] \in Outcomes
  /\ call' = [call EXCEPT ![r] = "closed"]
  /\ work' = [work EXCEPT ![r] = "none"]

\* The caller goes away; the request is executed all the same.
Abandon(r) ==
  /\ call[r] = "open"
  /\ call' = [call EXCEPT ![r] = "closed"]
  /\ UNCHANGED work

Next ==
  \/ \E r \in Requests : Accept(r) \/ Return(r) \/ Abandon(r)
  \/ \E S \in SUBSET Requests, outcome \in Outcomes : ExecuteBatch(S, outcome)

Spec == Init /\ [][Next]_vars
=============================================================================
