------------------------------- MODULE Worker -------------------------------
(***************************************************************************)
(* One worker process: the gRPC handlers of Worker.Infer                   *)
(* (pkg/worker/server.go), the priority queue they share with the batcher  *)
(* goroutine (pkg/worker/batcher.go), the buffered channels between them,  *)
(* and the shutdown sequence of cmd/worker/main.go.                        *)
(*                                                                         *)
(* A member r of Requests is an Infer call together with its               *)
(* PendingRequest.  An identity is used again for a later call once        *)
(* neither the queue nor the batcher refers to it, so a finite set of      *)
(* identities bounds the requests outstanding at one time, not the number  *)
(* of requests ever served.                                                *)
(*                                                                         *)
(* Left out here: the counters that only the metrics endpoint reads        *)
(* (batcher.go 149-163) and the clock, so the batch timer may fire at any  *)
(* moment of a collection.                                                 *)
(***************************************************************************)
EXTENDS RequestOrder

CONSTANTS
  MaxBatchSize,  \* BatcherConfig.MaxBatchSize
  NotifyCap,     \* capacity of the notify channel (256 in the source)
  MaxWaitMs,     \* BatcherConfig.MaxWaitTime
  HighDepth,     \* depth above which the wait is shortened (100)
  LowDepth       \* depth below which the wait is lengthened (10)

ASSUME WorkerAssumption ==
  /\ MaxBatchSize \in Nat
  /\ NotifyCap \in Nat \ {0}
  /\ MaxWaitMs \in Int
  /\ HighDepth \in Nat
  /\ LowDepth \in Nat

VARIABLES
  handler,      \* handler[r]: where the goroutine of r's Infer call is
  queue,        \* the requests in the PriorityQueue
  notify,       \* signals buffered in the notify channel
  doneCh,       \* doneCh[r]: contents of r's DoneCh; a result is named by
                \* the request whose payload it was computed from
  errCh,        \* errCh[r]: contents of r's ErrCh
  pc,           \* where the batcher goroutine is
  batch,        \* the batch last dequeued
  next,         \* index of the first request of batch not yet answered
  results,      \* what ExecuteBatch returned for batch
  currentWait,  \* Batcher.currentWait, in ms
  draining,     \* the batcher is in drainRemaining
  life          \* "serving", "quitting" (GracefulStop), "stopping" (stopCh
                \* closed)

handlerVars == <<handler, doneCh, errCh>>
batcherVars == <<pc, batch, next, results, currentWait, draining>>
vars == <<handlerVars, queue, notify, batcherVars, life>>

HandlerStates == {"idle", "signalling", "waiting"}
BatcherStates == {"idle", "collect", "select", "recheck", "flush",
                  "execute", "deliver", "exited"}
Failed == "failed"                  \* the error ExecuteBatch returned
Waits == {20, 80, MaxWaitMs}

\* DoneCh and ErrCh are made with room for one value.
HasRoom(ch) == Len(ch) < 1

\* The stop channel is closed.
StopClosed == life = "stopping"

\* Requests of the batch still to be answered.
Unanswered == { batch[i] : i \in next .. Len(batch) }

\* Handlers that have enqueued their request and not yet signalled it.
Signalling == { r \in Requests : handler[r] = "signalling" }

\* Nothing refers to r's last PendingRequest any more.
Free(r) == handler[r] = "idle" /\ r \notin queue /\ r \notin Unanswered

TypeOK ==
  /\ handler \in [Requests -> HandlerStates]
  /\ queue \subseteq Requests
  /\ notify \in 0 .. NotifyCap
  /\ doneCh \in [Requests -> Seq(Requests)]
  /\ errCh \in [Requests -> Seq({Failed})]
  /\ pc \in BatcherStates
  /\ batch \in Seq(Requests)
  /\ next \in Nat \ {0}
  /\ results \in Seq(Requests)
  /\ currentWait \in Waits
  /\ draining \in BOOLEAN
  /\ life \in {"serving", "quitting", "stopping"}

Init ==
  /\ handler = [r \in Requests |-> "idle"]
  /\ queue = {}
  /\ notify = 0
  /\ doneCh = [r \in Requests |-> <<>>]
  /\ errCh = [r \in Requests |-> <<>>]
  /\ pc = "idle"
  /\ batch = <<>>
  /\ next = 1
  /\ results = <<>>
  /\ currentWait = MaxWaitMs
  /\ draining = FALSE
  /\ life = "serving"

-----------------------------------------------------------------------------
(***************************************************************************)
(* The handlers: Worker.Infer.                                             *)
(***************************************************************************)

\* A call arrives: fresh channels are made and the request is enqueued.
Infer(r) ==
  /\ life = "serving"
  /\ Free(r)
  /\ handler' = [handler EXCEPT ![r] = "signalling"]
  /\ doneCh' = [doneCh EXCEPT ![r] = <<>>]
  /\ errCh' = [errCh EXCEPT ![r] = <<>>]
  /\ queue' = queue \cup {r}
  /\ UNCHANGED <<notify, batcherVars, life>>

\* The non-blocking send of Batcher.Signal: dropped when the buffer is full.
Signal(r) ==
  /\ handler[r] = "signalling"
  /\ handler' = [handler EXCEPT ![r] = "waiting"]
  /\ notify' = IF notify < NotifyCap THEN notify + 1 ELSE notify
  /\ UNCHANGED <<doneCh, errCh, queue, batcherVars, life>>

Return(r) ==
  /\ handler[r] = "waiting"
  /\ handler' = [handler EXCEPT ![r] = "idle"]
  /\ UNCHANGED <<queue, notify, batcherVars, life>>

ReturnResponse(r) ==
  /\ doneCh[r] # <<>>
  /\ Return(r)
  /\ doneCh' = [doneCh EXCEPT ![r] = Tail(@)]
  /\ UNCHANGED errCh

ReturnError(r) ==
  /\ errCh[r] # <<>>
  /\ Return(r)
  /\ errCh' = [errCh EXCEPT ![r] = Tail(@)]
  /\ UNCHANGED doneCh

\* ctx.Done(): the call ends; its request stays wherever it is.
ReturnCancelled(r) ==
  /\ Return(r)
  /\ UNCHANGED <<doneCh, errCh>>

-----------------------------------------------------------------------------
(***************************************************************************)
(* The batcher goroutine: Batcher.loop and what it calls.                  *)
(***************************************************************************)

Goto(from, to) == pc = from /\ pc' = to

TakeSignal == notify > 0 /\ notify' = notify - 1

\* Where the batcher is once a batch is finished or empty: back at the top of
\* loop, or of drainRemaining, which returns when the queue is empty.
\* Mutated forms: drainRemaining runs a single batch; drainRemaining does not
\* return on an empty queue.
DrainOneBatch == IF draining THEN "exited" ELSE "idle"
DrainForever == "idle"

LoopTop == IF draining THEN "flush" ELSE "idle"
AfterEmpty == IF draining THEN "exited" ELSE "idle"

\* loop: the first signal starts a collection.
Wake ==
  /\ Goto("idle", "collect")
  /\ TakeSignal
  /\ UNCHANGED <<handlerVars, queue, batch, next, results, currentWait,
                 draining, life>>

\* loop: stopCh is closed; enter drainRemaining.
Drain ==
  /\ StopClosed
  /\ Goto("idle", "flush")
  /\ draining' = TRUE
  /\ UNCHANGED <<handlerVars, queue, notify, batch, next, results,
                 currentWait, life>>

BatchIsFull == Cardinality(queue) >= MaxBatchSize

\* collectBatch: read the depth, then flush or wait in the select.
ReadDepth ==
  /\ Goto("collect", IF BatchIsFull THEN "flush" ELSE "select")
  /\ UNCHANGED <<handlerVars, queue, notify, batch, next, results,
                 currentWait, draining, life>>

\* collectBatch: the cases of the select.
CollectStop ==
  /\ StopClosed
  /\ Goto("select", "flush")
  /\ UNCHANGED <<handlerVars, queue, notify, batch, next, results,
                 currentWait, draining, life>>

CollectTimeout ==
  /\ Goto("select", "flush")
  /\ UNCHANGED <<handlerVars, queue, notify, batch, next, results,
                 currentWait, draining, life>>

CollectSignal ==
  /\ Goto("select", "recheck")
  /\ TakeSignal
  /\ UNCHANGED <<handlerVars, queue, batch, next, results, currentWait,
                 draining, life>>

\* Mutated form: a batch that is not full yet ends the collection.
RecheckGivesUp ==
  /\ Goto("recheck", IF BatchIsFull THEN "flush" ELSE "idle")
  /\ UNCHANGED <<handlerVars, queue, notify, batch, next, results,
                 currentWait, draining, life>>

\* collectBatch: the depth is read again after a signal.
Recheck ==
  /\ Goto("recheck", IF BatchIsFull THEN "flush" ELSE "collect")
  /\ UNCHANGED <<handlerVars, queue, notify, batch, next, results,
                 currentWait, draining, life>>

\* Mutated forms: the requests returned are not popped; all others are lost.
LeftBehindPeeked(b) == queue
LeftBehindTruncated(b) == {}

\* What stays in the queue when b has been popped.
LeftBehind(b) == queue \ Range(b)

\* DequeueN(MaxBatchSize), on behalf of collectBatch or drainRemaining.
Flush ==
  /\ \E b \in Dequeues(queue, MaxBatchSize) :
       /\ batch' = b
       /\ queue' = LeftBehind(b)
       /\ Goto("flush", IF b = <<>> THEN AfterEmpty ELSE "execute")
  /\ next' = 1
  /\ UNCHANGED <<handlerVars, notify, results, currentWait, draining, life>>

\* executeBatch: ExecuteBatch returns one result per payload, in order.
ExecuteOk ==
  /\ Goto("execute", "deliver")
  /\ results' = batch
  /\ UNCHANGED <<handlerVars, queue, notify, batch, next, currentWait,
                 draining, life>>

\* executeBatch: ExecuteBatch returns an error and no results.
ExecuteError ==
  /\ Goto("execute", "deliver")
  /\ results' = <<>>
  /\ UNCHANGED <<handlerVars, queue, notify, batch, next, currentWait,
                 draining, life>>

\* executeBatch: err != nil.
BatchFailed == results = <<>>

Undelivered == pc = "deliver" /\ next <= Len(batch)

\* Mutated form: every request is answered with the first result.
FirstResult(i) == results[1]

\* The result of the i-th payload, which answers the i-th request.
ResultFor(i) == results[i]

\* executeBatch: one iteration of the loop that distributes the results.
DeliverResponse ==
  /\ Undelivered /\ ~BatchFailed
  /\ HasRoom(doneCh[batch[next]])
  /\ doneCh' = [doneCh EXCEPT ![batch[next]] = Append(@, ResultFor(next))]
  /\ next' = next + 1
  /\ UNCHANGED <<handler, errCh, queue, notify, pc, batch, results,
                 currentWait, draining, life>>

DeliverError ==
  /\ Undelivered /\ BatchFailed
  /\ HasRoom(errCh[batch[next]])
  /\ errCh' = [errCh EXCEPT ![batch[next]] = Append(@, Failed)]
  /\ next' = next + 1
  /\ UNCHANGED <<handler, doneCh, queue, notify, pc, batch, results,
                 currentWait, draining, life>>

\* adaptWait: the wait chosen for the depth it reads.
AdaptedWait(depth) ==
  CASE depth > HighDepth -> 20
    [] depth <= HighDepth /\ depth < LowDepth -> 80
    [] OTHER -> MaxWaitMs

\* executeBatch returns; adaptWait is skipped when the batch failed.
FinishBatch ==
  /\ next > Len(batch)
  /\ Goto("deliver", LoopTop)
  /\ batch' = <<>> /\ results' = <<>> /\ next' = 1
  /\ currentWait' = IF BatchFailed THEN currentWait
                                   ELSE AdaptedWait(Cardinality(queue))
  /\ UNCHANGED <<handlerVars, queue, notify, draining, life>>

-----------------------------------------------------------------------------
(***************************************************************************)
(* Shutdown: cmd/worker/main.go.                                           *)
(***************************************************************************)

\* SIGINT or SIGTERM: GracefulStop refuses new calls from here on.
Quit ==
  /\ life = "serving"
  /\ life' = "quitting"
  /\ UNCHANGED <<handlerVars, queue, notify, batcherVars>>

\* GracefulStop returns once every open call has; then Stop closes stopCh.
CloseStop ==
  /\ life = "quitting"
  /\ \A r \in Requests : handler[r] = "idle"
  /\ life' = "stopping"
  /\ UNCHANGED <<handlerVars, queue, notify, batcherVars>>

\* wg.Wait() returns and the process ends.
Stopped == StopClosed /\ pc = "exited"

-----------------------------------------------------------------------------
Handler(r) == \/ Infer(r) \/ Signal(r)
              \/ ReturnResponse(r) \/ ReturnError(r) \/ ReturnCancelled(r)

Collect == \/ ReadDepth \/ CollectStop \/ CollectTimeout \/ CollectSignal
           \/ Recheck

Execute == \/ ExecuteOk \/ ExecuteError \/ DeliverResponse \/ DeliverError
           \/ FinishBatch

Batcher == Wake \/ Drain \/ Collect \/ Flush \/ Execute

\* The process has ended: nothing more happens.
Terminated == Stopped /\ UNCHANGED vars

Next == \/ \E r \in Requests : Handler(r)
        \/ Batcher
        \/ Quit \/ CloseStop
        \/ Terminated

Spec == Init /\ [][Next]_vars

(***************************************************************************)
(* A goroutine that can run does run: the batcher (its timer fires and the *)
(* executor returns), main once GracefulStop has, and a handler up to the  *)
(* point where it waits and again when its answer is there.  Calls need    *)
(* not arrive, contexts need not be cancelled, the process need not be     *)
(* told to quit.                                                           *)
(***************************************************************************)
Fairness ==
  /\ WF_vars(Batcher)
  /\ WF_vars(CloseStop)
  /\ \A r \in Requests : /\ WF_vars(Signal(r))
                         /\ WF_vars(ReturnResponse(r) \/ ReturnError(r))

FairSpec == Spec /\ Fairness

-----------------------------------------------------------------------------
(***************************************************************************)
(* Safety.                                                                 *)
(***************************************************************************)

\* The places where r's PendingRequest, or its answer, can be.
InQueue(r) == r \in queue
InBatch(r) == r \in Unanswered
Answered(r) == doneCh[r] # <<>> \/ errCh[r] # <<>>

(***************************************************************************)
(* No request is lost and none is served twice: an open call's request is  *)
(* in exactly one place - the queue, the batch in hand, or one of its two  *)
(* channels as an answer - and a cancelled call's in at most one           *)
(* (server.go Infer, queue.go DequeueN, batcher.go executeBatch).          *)
(***************************************************************************)
NoRequestLost ==
  \A r \in Requests :
    /\ ~(InQueue(r) /\ InBatch(r))
    /\ ~(InQueue(r) /\ Answered(r))
    /\ ~(InBatch(r) /\ Answered(r))
    /\ ~(doneCh[r] # <<>> /\ errCh[r] # <<>>)
    /\ handler[r] # "idle" => InQueue(r) \/ InBatch(r) \/ Answered(r)

(***************************************************************************)
(* The batcher never blocks on an answer, although a cancelled handler no  *)
(* longer receives: the one-place buffers of DoneCh and ErrCh are empty    *)
(* when executeBatch sends (server.go 87-88, batcher.go 168-186).  A       *)
(* blocked send would stop every other request of the worker.              *)
(***************************************************************************)
SendNeverBlocks ==
  Undelivered => HasRoom(doneCh[batch[next]]) /\ HasRoom(errCh[batch[next]])

(***************************************************************************)
(* A result that reaches a call was computed from that call's payload:     *)
(* results[i] goes to batch[i] whatever the order of the batch.            *)
(***************************************************************************)
AnswerIsOwn ==
  \A r \in Requests : \A i \in DOMAIN doneCh[r] : doneCh[r][i] = r

(***************************************************************************)
(* The buffer of the notify channel is large enough for the requests that  *)
(* can be outstanding.  NoLostWakeup needs this and no more.               *)
(***************************************************************************)
SignalsSuffice ==
  /\ MaxBatchSize >= 1
  /\ Cardinality(Requests) <= NotifyCap * MaxBatchSize

(***************************************************************************)
(* No lost wakeup: while requests are queued, a batcher asleep at the top  *)
(* of loop has a signal waiting for it, or a handler about to send one     *)
(* (batcher.go Signal, loop, collectBatch).  Signals are dropped when the  *)
(* buffer is full and swallowed by collections that do not dequeue, so     *)
(* this is not a matter of one signal per request.                         *)
(***************************************************************************)
NoLostWakeup ==
  pc = "idle" /\ queue # {} =>
    \/ notify > 0
    \/ Signalling # {}

(***************************************************************************)
(* Nothing is left behind by a graceful shutdown: when the batcher has     *)
(* returned, the queue is empty, every call has returned, and no dequeued  *)
(* request is unanswered (batcher.go Stop, drainRemaining; main.go).       *)
(***************************************************************************)
ShutdownDrains ==
  Stopped => /\ queue = {}
             /\ Unanswered = {}
             /\ \A r \in Requests : handler[r] = "idle"

-----------------------------------------------------------------------------
(***************************************************************************)
(* Liveness.                                                               *)
(***************************************************************************)

(***************************************************************************)
(* Queued requests are always picked up: the batcher comes back to         *)
(* DequeueN, whether the signals for them were buffered or dropped         *)
(* (comment of Batcher.Signal, batcher.go:72).                             *)
(***************************************************************************)
QueueIsPickedUp == queue # {} ~> pc = "flush"

(***************************************************************************)
(* The most urgent request is never starved, however many others keep      *)
(* arriving: HIGH requests skip ahead of LOW (README.md:25, queue.go:72).  *)
(* The others have no such promise.                                        *)
(***************************************************************************)
UrgentIsServed ==
  \A r \in Requests :
    (\A x \in Requests \ {r} : Priority[r] > Priority[x]) =>
      (r \in queue ~> r \notin queue)

(***************************************************************************)
(* A graceful shutdown ends: the open calls are answered, GracefulStop and *)
(* wg.Wait return (main.go 62-69, batcher.go Stop).                        *)
(***************************************************************************)
ShutdownCompletes == life = "quitting" ~> Stopped

-----------------------------------------------------------------------------
(***************************************************************************)
(* Refinement of BatchService.  A call is open while its handler runs; a   *)
(* batch is decided when the executor returns, although its requests are   *)
(* answered one by one afterwards.                                         *)
(***************************************************************************)
Work(r) ==
  CASE InQueue(r) -> "pending"
    [] InBatch(r) /\ pc = "execute" -> "pending"
    [] InBatch(r) /\ pc = "deliver" -> IF BatchFailed THEN "failed" ELSE "ok"
    [] doneCh[r] # <<>> -> "ok"
    [] errCh[r] # <<>> -> "failed"
    [] OTHER -> "none"

Service == INSTANCE BatchService WITH
  call <- [r \in Requests |-> IF handler[r] = "idle" THEN "closed" ELSE "open"],
  work <- [r \in Requests |-> Work(r)]

(***************************************************************************)
(* Every behaviour of the worker is one that BatchService allows.          *)
(***************************************************************************)
ImplementsService == Service!Spec
=============================================================================
