---------------------------- MODULE RequestOrder ----------------------------
(***************************************************************************)
(* The order in which a worker serves its pending requests, and what one   *)
(* call of PriorityQueue.DequeueN may return (pkg/worker/queue.go).  The   *)
(* queue is abstracted to the SET of requests it holds: module HeapQueue   *)
(* models the array and the heap operations and is proved to return only   *)
(* sequences that this module allows.                                      *)
(***************************************************************************)
EXTENDS Integers, FiniteSets, Sequences, Functions

CONSTANTS
  Requests,    \* identities of PendingRequests
  Priority,    \* Priority[r]:  Req.Priority (LOW = 0, MEDIUM = 1, HIGH = 2)
  Timestamp    \* Timestamp[r]: Req.Timestamp, stamped by the client

ASSUME RequestAssumption ==
  /\ IsFiniteSet(Requests)
  /\ Priority \in [Requests -> Int]
  /\ Timestamp \in [Requests -> Int]

(***************************************************************************)
(* Mutated form: the lower priority number is served first.                *)
(***************************************************************************)
LessInverted(a, b) ==
  \/ Priority[a] < Priority[b]
  \/ /\ Priority[a] = Priority[b]
     /\ Timestamp[a] < Timestamp[b]

(***************************************************************************)
(* a is served strictly before b: higher priority number, or same priority *)
(* and earlier timestamp.                                                  *)
(***************************************************************************)
Less(a, b) ==
  \/ Priority[a] > Priority[b]
  \/ /\ Priority[a] = Priority[b]
     /\ Timestamp[a] < Timestamp[b]

\* Mutated form: the limit n is ignored.
DequeueAll(n, depth) == depth

\* How many requests DequeueN(n) takes from a queue of the given depth.
DequeueCount(n, depth) == IF n > depth THEN depth ELSE n

(***************************************************************************)
(* The sequences that DequeueN(n) may return when the queue holds the set  *)
(* q: DequeueCount of them, most urgent first, none of those left behind   *)
(* more urgent than one taken.  The heap is not stable, so requests that   *)
(* Less does not separate come out in either order.                        *)
(***************************************************************************)
Dequeues(q, n) ==
  { b \in [1 .. DequeueCount(n, Cardinality(q)) -> q] :
      /\ \A i, j \in DOMAIN b : i # j => b[i] # b[j]
      /\ \A i, j \in DOMAIN b : i < j => ~Less(b[j], b[i])
      /\ \A i \in DOMAIN b : \A r \in q \ Range(b) : ~Less(r, b[i]) }
=============================================================================
