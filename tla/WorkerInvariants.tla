-------------------------- MODULE WorkerInvariants --------------------------
(***************************************************************************)
(* The strengthenings of Worker's invariants that every step preserves, as *)
(* WorkerProofs shows.                                                     *)
(***************************************************************************)
EXTENDS Worker

(***************************************************************************)
(* While executeBatch distributes, results is nothing (the batch failed)   *)
(* or as long as the batch, which batcher.go:179 relies on.                *)
(***************************************************************************)
ResultsMatch == pc = "deliver" => results = <<>> \/ results = batch

(***************************************************************************)
(* The batch in hand: its unanswered requests are all different, so        *)
(* answering one removes exactly that one; outside executeBatch there are  *)
(* none (batcher.go 89-95, 168-186).                                       *)
(***************************************************************************)
BatchInHand ==
  /\ \A i, j \in next .. Len(batch) : i # j => batch[i] # batch[j]
  /\ pc = "execute" => next = 1
  /\ pc \notin {"execute", "deliver"} => next > Len(batch)

(***************************************************************************)
(* Every request is in one place, and answers are its own.                 *)
(***************************************************************************)
Bookkeeping == NoRequestLost /\ AnswerIsOwn /\ BatchInHand

(***************************************************************************)
(* The order of a shutdown: the handlers have returned before stopCh is    *)
(* closed (main.go 67-68), it is closed before the batcher drains, and the *)
(* batcher leaves drainRemaining with an empty queue (batcher.go 81-84,    *)
(* 210-218).                                                               *)
(***************************************************************************)
ShutdownOrder ==
  /\ StopClosed => \A r \in Requests : handler[r] = "idle"
  /\ draining => StopClosed
  /\ pc = "exited" => draining /\ queue = {}

\* What the signals buffered or about to be sent stand for: each is worth
\* a full batch once received; one not sent yet, at least one request.
Credit == MaxBatchSize * notify + Cardinality(Signalling)

(***************************************************************************)
(* Why no wakeup is lost.  The queue never outgrows the signals that are   *)
(* buffered or about to be sent, one for every MaxBatchSize requests: a    *)
(* batcher that has taken a signal has one batch more to its credit until  *)
(* it dequeues, and one waiting in the select found less than a batch      *)
(* since its last signal, or has that credit still (batcher.go 67-74,      *)
(* 107-131).                                                               *)
(***************************************************************************)
WakeupCredit ==
  /\ pc \in {"idle", "execute", "deliver"} => Cardinality(queue) <= Credit
  /\ pc \in {"collect", "recheck", "flush"} =>
       Cardinality(queue) <= Credit + MaxBatchSize
  /\ pc = "select" =>
       \/ Cardinality(queue) <= Credit
       \/ Cardinality(queue)
            <= MaxBatchSize - 1 + notify + Cardinality(Signalling)
=============================================================================
