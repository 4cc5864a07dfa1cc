---------------------------- MODULE RequestQueue ----------------------------
(***************************************************************************)
(* What a PriorityQueue promises: a set of requests, from which DequeueN   *)
(* takes the most urgent ones, most urgent first.  Worker uses the queue   *)
(* through this promise only.                                              *)
(***************************************************************************)
EXTENDS RequestOrder

CONSTANT Limits   \* the values of n that DequeueN is called with

VARIABLES
  queued,   \* the requests held
  out       \* what the last DequeueN returned

vars == <<queued, out>>

Init == queued = {} /\ out = <<>>

Enqueue(r) ==
  /\ r \notin queued
  /\ queued' = queued \cup {r}
  /\ UNCHANGED out

DequeueN(n) ==
  /\ out' \in Dequeues(queued, n)
  /\ queued' = queued \ Range(out')

Next ==
  \/ \E r \in Requests : Enqueue(r)
  \/ \E n \in Limits : DequeueN(n)

Spec == Init /\ [][Next]_vars
=============================================================================
