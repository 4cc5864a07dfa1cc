---------------------------- MODULE MCHeapQueue -----------------------------
(***************************************************************************)
(* Instances of HeapQueue for TLC: three levels of the heap, two           *)
(* priorities, equal and different timestamps.                             *)
(***************************************************************************)
EXTENDS HeapQueue, TLC

CONSTANTS a1, a2, a3, b1, b2, b3

PriorityOf == [r \in Requests |-> IF r \in {a1, a2, a3} THEN 2 ELSE 0]
MCTimestamp == a1 :> 1 @@ a2 :> 2 @@ a3 :> 2 @@ b1 :> 1 @@ b2 :> 2 @@ b3 :> 3
TimestampOf == [r \in Requests |-> MCTimestamp[r]]
=============================================================================
