------------------------------ MODULE MCWorker ------------------------------
(***************************************************************************)
(* Instances of Worker for TLC: an urgent request, two that Less does not  *)
(* separate, and an old one of low priority.                               *)
(***************************************************************************)
EXTENDS WorkerInvariants, TLC

CONSTANTS h1, l1, l2, l3

MCPriority == h1 :> 2 @@ l1 :> 0 @@ l2 :> 0 @@ l3 :> 0
MCTimestamp == h1 :> 5 @@ l1 :> 2 @@ l2 :> 2 @@ l3 :> 1
PriorityOf == [r \in Requests |-> MCPriority[r]]
TimestampOf == [r \in Requests |-> MCTimestamp[r]]
=============================================================================
