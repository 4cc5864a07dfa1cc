---------------------------- MODULE WorkerProofs ----------------------------
(***************************************************************************)
(* Proofs about Worker, for any set of requests, batch size and buffer.    *)
(***************************************************************************)
EXTENDS WorkerInvariants, TLAPS, FiniteSetTheorems

(***************************************************************************)
(* What a call of DequeueN on a queue within Requests returns is a finite  *)
(* sequence of requests of the queue, all different, DequeueCount of them. *)
(***************************************************************************)
LEMMA DequeuesType ==
  ASSUME NEW q \in SUBSET Requests, NEW b \in Dequeues(q, MaxBatchSize)
  PROVE  /\ IsFiniteSet(q)
         /\ Cardinality(q) \in Nat
         /\ b \in Seq(q)
         /\ Len(b) = DequeueCount(MaxBatchSize, Cardinality(q))
         /\ DOMAIN b = 1 .. Len(b)
         /\ \A i, j \in 1 .. Len(b) : i # j => b[i] # b[j]
         /\ Range(b) = { b[i] : i \in 1 .. Len(b) }
PROOF
<1> DEFINE k == DequeueCount(MaxBatchSize, Cardinality(q))
<1>1. IsFiniteSet(q) /\ Cardinality(q) \in Nat
  BY RequestAssumption, FS_Subset, FS_CardinalityType
<1>2. k \in Nat
  BY <1>1, WorkerAssumption DEF DequeueCount
<1>3. b \in [1 .. k -> q] /\ \A i, j \in DOMAIN b : i # j => b[i] # b[j]
  BY DEF Dequeues
<1> HIDE DEF k
<1>4. b \in Seq(q) /\ Len(b) = k /\ DOMAIN b = 1 .. k
  BY <1>2, <1>3
<1>5. QED
  BY <1>1, <1>3, <1>4 DEF k, Range

(***************************************************************************)
(* The variables of the worker keep their types, and results keeps the     *)
(* length that batcher.go:179 relies on.                                   *)
(***************************************************************************)
LEMMA TypeInductive ==
  TypeOK /\ ResultsMatch /\ [Next]_vars => TypeOK' /\ ResultsMatch'
PROOF
<1> SUFFICES ASSUME TypeOK, ResultsMatch, [Next]_vars
             PROVE  TypeOK' /\ ResultsMatch'
  OBVIOUS
<1> USE DEF TypeOK, ResultsMatch, HandlerStates, BatcherStates, handlerVars,
            batcherVars
<1>1. ASSUME NEW r \in Requests, Infer(r) PROVE TypeOK' /\ ResultsMatch'
  BY <1>1 DEF Infer
<1>2. ASSUME NEW r \in Requests, Signal(r) PROVE TypeOK' /\ ResultsMatch'
  BY <1>2, WorkerAssumption DEF Signal
<1>3. ASSUME NEW r \in Requests, ReturnResponse(r)
      PROVE TypeOK' /\ ResultsMatch'
  BY <1>3 DEF ReturnResponse, Return
<1>4. ASSUME NEW r \in Requests, ReturnError(r)
      PROVE TypeOK' /\ ResultsMatch'
  BY <1>4 DEF ReturnError, Return
<1>5. ASSUME NEW r \in Requests, ReturnCancelled(r)
      PROVE TypeOK' /\ ResultsMatch'
  BY <1>5 DEF ReturnCancelled, Return
<1>6. CASE Wake
  BY <1>6, WorkerAssumption DEF Wake, TakeSignal, Goto
<1>7. CASE Drain
  BY <1>7 DEF Drain, Goto
<1>8. CASE Collect
  BY <1>8, WorkerAssumption
     DEF Collect, ReadDepth, CollectStop, CollectTimeout, CollectSignal,
         Recheck, TakeSignal, Goto
<1>9. CASE Flush
  <2>1. PICK b \in Dequeues(queue, MaxBatchSize) :
          /\ batch' = b
          /\ queue' = queue \ Range(b)
          /\ pc' = IF b = <<>> THEN AfterEmpty ELSE "execute"
    BY <1>9 DEF Flush, LeftBehind, Goto
  <2>2. b \in Seq(queue)
    BY <2>1, DequeuesType
  <2>3. b \in Seq(Requests)
    BY <2>2
  <2>4. pc' \in BatcherStates \ {"deliver"}
    BY <2>1 DEF AfterEmpty
  <2>5. batch' \in Seq(Requests) /\ queue' \subseteq Requests /\ next' = 1
    BY <1>9, <2>1, <2>3 DEF Flush
  <2>6. QED
    BY <1>9, <2>4, <2>5 DEF Flush
<1>10. CASE ExecuteOk
  BY <1>10 DEF ExecuteOk, Goto
<1>11. CASE ExecuteError
  BY <1>11 DEF ExecuteError, Goto
<1>12. CASE DeliverResponse
  <2>1. next \in 1 .. Len(batch) /\ results = batch
    BY <1>12 DEF DeliverResponse, Undelivered, BatchFailed
  <2>2. batch[next] \in Requests
    BY <2>1
  <2>3. doneCh' \in [Requests -> Seq(Requests)]
    BY <1>12, <2>1, <2>2 DEF DeliverResponse, ResultFor
  <2>4. next' \in Nat \ {0}
    BY <1>12 DEF DeliverResponse
  <2>5. /\ batch' \in Seq(Requests) /\ results' \in Seq(Requests)
        /\ pc' \in BatcherStates /\ ResultsMatch'
    BY <1>12 DEF DeliverResponse
  <2>6. QED
    BY <1>12, <2>3, <2>4, <2>5 DEF DeliverResponse
<1>13. CASE DeliverError
  <2>1. batch[next] \in Requests
    BY <1>13 DEF DeliverError, Undelivered
  <2>2. errCh' \in [Requests -> Seq({Failed})]
    BY <1>13, <2>1 DEF DeliverError
  <2>3. next' \in Nat \ {0}
    BY <1>13 DEF DeliverError
  <2>4. /\ batch' \in Seq(Requests) /\ results' \in Seq(Requests)
        /\ pc' \in BatcherStates /\ ResultsMatch'
    BY <1>13 DEF DeliverError
  <2>5. QED
    BY <1>13, <2>2, <2>3, <2>4 DEF DeliverError
<1>14. CASE FinishBatch
  BY <1>14 DEF FinishBatch, Goto, AdaptedWait, Waits, LoopTop
<1>15. CASE Quit \/ CloseStop
  BY <1>15 DEF Quit, CloseStop
<1>16. CASE UNCHANGED vars
  BY <1>16 DEF vars
<1>17. QED
  BY <1>1, <1>2, <1>3, <1>4, <1>5, <1>6, <1>7, <1>8, <1>9, <1>10, <1>11,
     <1>12, <1>13, <1>14, <1>15, <1>16
     DEF Next, Handler, Batcher, Execute, Terminated

\* The worker starts with variables of their types.
LEMMA InitTypeOK == Init => TypeOK /\ ResultsMatch
PROOF
<1> SUFFICES ASSUME Init PROVE TypeOK /\ ResultsMatch
  OBVIOUS
<1>1. handler \in [Requests -> HandlerStates] /\ pc \in BatcherStates
  BY DEF Init, HandlerStates, BatcherStates
<1>2. doneCh \in [Requests -> Seq(Requests)]
  BY DEF Init
<1>3. errCh \in [Requests -> Seq({Failed})]
  BY DEF Init
<1>4. batch \in Seq(Requests) /\ results \in Seq(Requests)
  BY DEF Init
<1>5. notify \in 0 .. NotifyCap /\ next \in Nat \ {0}
  BY WorkerAssumption DEF Init
<1>6. currentWait \in Waits
  BY DEF Init, Waits
<1>7. QED
  BY <1>1, <1>2, <1>3, <1>4, <1>5, <1>6 DEF Init, TypeOK, ResultsMatch

(***************************************************************************)
(* Type correctness of the whole worker; in particular executeBatch never  *)
(* indexes results beyond its end (batcher.go:179).                        *)
(***************************************************************************)
THEOREM WorkerTypeCorrect == Spec => [](TypeOK /\ ResultsMatch)
PROOF
  BY InitTypeOK, TypeInductive, PTL DEF Spec

-----------------------------------------------------------------------------
(***************************************************************************)
(* A handler that moves only itself, and only changes its own channels,    *)
(* leaves the batch alone.                                                 *)
(***************************************************************************)
LEMMA BookkeepingHandler ==
  ASSUME TypeOK, Bookkeeping, NEW r \in Requests, Handler(r)
  PROVE  Bookkeeping'
PROOF
<1> USE DEF TypeOK, Bookkeeping, NoRequestLost, AnswerIsOwn, BatchInHand,
            InQueue, InBatch, Answered, Unanswered, handlerVars, batcherVars
<1>1. CASE Infer(r)
  BY <1>1 DEF Infer, Free
<1>2. CASE Signal(r)
  BY <1>2 DEF Signal
<1>3. CASE ReturnResponse(r)
  <2>1. doneCh[r] \in Seq(Requests) /\ doneCh[r] # <<>>
    BY <1>3 DEF ReturnResponse
  <2>2. \A i \in DOMAIN Tail(doneCh[r]) : Tail(doneCh[r])[i] = r
    <3> DEFINE s == doneCh[r]
    <3>1. s \in Seq(Requests) /\ s # <<>> /\ \A i \in DOMAIN s : s[i] = r
      BY <2>1
    <3> HIDE DEF s
    <3>2. /\ DOMAIN Tail(s) = 1 .. Len(s) - 1
          /\ \A i \in 1 .. Len(s) - 1 : Tail(s)[i] = s[i + 1]
      BY <3>1
    <3>3. \A i \in 1 .. Len(s) - 1 : i + 1 \in DOMAIN s
      BY <3>1
    <3>4. \A i \in DOMAIN Tail(s) : Tail(s)[i] = r
      BY <3>1, <3>2, <3>3
    <3>5. QED
      BY <3>4 DEF s
  <2>3. AnswerIsOwn'
    BY <1>3, <2>2 DEF ReturnResponse, Return
  <2>4. NoRequestLost'
    BY <1>3, <2>1 DEF ReturnResponse, Return
  <2>5. BatchInHand'
    BY <1>3 DEF ReturnResponse, Return
  <2>6. QED
    BY <2>3, <2>4, <2>5
<1>4. CASE ReturnError(r)
  <2>1. errCh[r] # <<>>
    BY <1>4 DEF ReturnError
  <2>2. QED
    BY <1>4, <2>1 DEF ReturnError, Return
<1>5. CASE ReturnCancelled(r)
  BY <1>5 DEF ReturnCancelled, Return
<1>6. QED
  BY <1>1, <1>2, <1>3, <1>4, <1>5 DEF Handler

(***************************************************************************)
(* DequeueN moves requests from the queue to the batch and loses none.     *)
(***************************************************************************)
LEMMA BookkeepingFlush ==
  ASSUME TypeOK, Bookkeeping, Flush
  PROVE  Bookkeeping'
PROOF
<1>1. PICK b \in Dequeues(queue, MaxBatchSize) :
        /\ batch' = b
        /\ queue' = queue \ Range(b)
        /\ pc' = IF b = <<>> THEN AfterEmpty ELSE "execute"
  BY DEF Flush, LeftBehind, Goto
<1>2. /\ b \in Seq(queue)
      /\ \A i, j \in 1 .. Len(b) : i # j => b[i] # b[j]
      /\ Range(b) = { b[i] : i \in 1 .. Len(b) }
  BY <1>1, DequeuesType DEF TypeOK
<1>3. next' = 1 /\ UNCHANGED <<handler, doneCh, errCh>>
  BY DEF Flush, handlerVars
<1>4. Unanswered = {}
  BY DEF Flush, Goto, Bookkeeping, BatchInHand, TypeOK, Unanswered
<1>5. Unanswered' = Range(b)
  BY <1>1, <1>2, <1>3 DEF Unanswered
<1>6. Range(b) \subseteq queue
  BY <1>2
<1>7. NoRequestLost'
  BY <1>1, <1>3, <1>4, <1>5, <1>6
     DEF Bookkeeping, NoRequestLost, InQueue, InBatch, Answered
<1>8. AnswerIsOwn'
  BY <1>3 DEF Bookkeeping, AnswerIsOwn
<1>9. BatchInHand'
  <2>1. CASE b = <<>>
    BY <1>1, <1>3, <2>1 DEF BatchInHand
  <2>2. CASE b # <<>>
    BY <1>1, <1>2, <1>3, <2>2 DEF BatchInHand
  <2>3. QED
    BY <2>1, <2>2
<1>10. QED
  BY <1>7, <1>8, <1>9 DEF Bookkeeping

(***************************************************************************)
(* Answering one request takes exactly that one out of the batch, into an  *)
(* empty channel of its own.                                               *)
(***************************************************************************)
LEMMA OneAnswered ==
  ASSUME TypeOK, ResultsMatch, Bookkeeping, DeliverResponse \/ DeliverError
  PROVE  \E r \in Unanswered \cap Requests :
           /\ Unanswered' = Unanswered \ {r}
           /\ r \notin queue /\ doneCh[r] = <<>> /\ errCh[r] = <<>>
           /\ \A x \in Requests \ {r} : doneCh'[x] = doneCh[x] /\ errCh'[x] = errCh[x]
           /\ \/ ~BatchFailed /\ doneCh'[r] = <<r>> /\ errCh'[r] = <<>>
              \/ BatchFailed /\ doneCh'[r] = <<>> /\ errCh'[r] = <<Failed>>
PROOF
<1> DEFINE r == batch[next]
<1>1. /\ next \in 1 .. Len(batch) /\ next' = next + 1
      /\ UNCHANGED <<handler, queue, batch, pc>> /\ pc = "deliver"
  BY DEF DeliverResponse, DeliverError, Undelivered, TypeOK
<1>2. r \in Requests /\ r \in Unanswered
  BY <1>1 DEF TypeOK, Unanswered
<1>3. Unanswered' = Unanswered \ {r}
  BY <1>1 DEF Unanswered, Bookkeeping, BatchInHand, TypeOK
<1>4. r \notin queue /\ doneCh[r] = <<>> /\ errCh[r] = <<>>
  BY <1>2 DEF Bookkeeping, NoRequestLost, InQueue, InBatch, Answered
<1>5. \/ ~BatchFailed /\ doneCh' = [doneCh EXCEPT ![r] = <<r>>] /\ errCh' = errCh
      \/ BatchFailed /\ errCh' = [errCh EXCEPT ![r] = <<Failed>>] /\ doneCh' = doneCh
  <2>1. CASE DeliverResponse
    <3>1. results[next] = r /\ doneCh' = [doneCh EXCEPT ![r] = Append(@, r)]
      BY <1>1, <2>1 DEF DeliverResponse, ResultFor, BatchFailed, ResultsMatch
    <3>2. Append(doneCh[r], r) = <<r>>
      BY <1>4
    <3>3. QED
      BY <2>1, <3>1, <3>2 DEF DeliverResponse
  <2>2. CASE DeliverError
    <3>1. Append(errCh[r], Failed) = <<Failed>>
      BY <1>4
    <3>2. QED
      BY <2>2, <3>1 DEF DeliverError
  <2>3. QED
    BY <2>1, <2>2
<1> HIDE DEF r
<1>6. \A x \in Requests \ {r} :
        doneCh'[x] = doneCh[x] /\ errCh'[x] = errCh[x]
  BY <1>2, <1>5 DEF TypeOK
<1>7. \/ ~BatchFailed /\ doneCh'[r] = <<r>> /\ errCh'[r] = <<>>
      \/ BatchFailed /\ doneCh'[r] = <<>> /\ errCh'[r] = <<Failed>>
  BY <1>2, <1>4, <1>5 DEF TypeOK
<1>8. QED
  BY <1>2, <1>3, <1>4, <1>6, <1>7

LEMMA BookkeepingDeliver ==
  ASSUME TypeOK, ResultsMatch, Bookkeeping, DeliverResponse \/ DeliverError
  PROVE  Bookkeeping'
PROOF
<1>1. PICK r \in Unanswered \cap Requests :
        /\ Unanswered' = Unanswered \ {r}
        /\ r \notin queue
        /\ \A x \in Requests \ {r} : doneCh'[x] = doneCh[x] /\ errCh'[x] = errCh[x]
        /\ \/ doneCh'[r] = <<r>> /\ errCh'[r] = <<>>
           \/ doneCh'[r] = <<>> /\ errCh'[r] = <<Failed>>
  BY OneAnswered
<1>2. /\ next \in 1 .. Len(batch) /\ next' = next + 1
      /\ UNCHANGED <<handler, queue, batch, pc>> /\ pc = "deliver"
  BY DEF DeliverResponse, DeliverError, Undelivered, TypeOK
<1>3. NoRequestLost'
  BY <1>1, <1>2 DEF Bookkeeping, NoRequestLost, InQueue, InBatch, Answered
<1>4. AnswerIsOwn'
  BY <1>1 DEF Bookkeeping, AnswerIsOwn
<1>5. BatchInHand'
  BY <1>2 DEF TypeOK, Bookkeeping, BatchInHand
<1>6. QED
  BY <1>3, <1>4, <1>5 DEF Bookkeeping

(***************************************************************************)
(* No other step moves a request or an answer.                             *)
(***************************************************************************)
LEMMA BookkeepingOther ==
  ASSUME TypeOK, Bookkeeping,
         \/ Wake \/ Drain \/ Collect \/ ExecuteOk \/ ExecuteError
         \/ FinishBatch \/ Quit \/ CloseStop \/ UNCHANGED vars
  PROVE  Bookkeeping'
PROOF
<1>1. UNCHANGED <<handler, queue, doneCh, errCh>>
  BY DEF Wake, Drain, Collect, ReadDepth, CollectStop, CollectTimeout,
         CollectSignal, Recheck, ExecuteOk, ExecuteError, FinishBatch, Quit,
         CloseStop, handlerVars, vars
<1>2. Unanswered' = Unanswered /\ BatchInHand'
  <2>1. CASE FinishBatch
    <3>1. Unanswered = {} /\ Unanswered' = {}
      BY <2>1 DEF FinishBatch, Unanswered, TypeOK
    <3>2. BatchInHand'
      BY <2>1 DEF FinishBatch, BatchInHand, LoopTop, Goto
    <3>3. QED
      BY <3>1, <3>2
  <2>2. CASE ~FinishBatch
    <3>1. UNCHANGED <<batch, next>>
      BY <2>2 DEF Wake, Drain, Collect, ReadDepth, CollectStop,
         CollectTimeout, CollectSignal, Recheck, ExecuteOk, ExecuteError,
         Quit, CloseStop, batcherVars, vars
    <3>2. /\ pc' = "execute" => pc = "execute"
          /\ pc \in {"execute", "deliver"} => pc' \in {"execute", "deliver"}
          /\ pc' \in {"execute", "deliver"} => pc \in {"execute", "deliver"}
      BY <2>2 DEF Wake, Drain, Collect, ReadDepth, CollectStop,
         CollectTimeout, CollectSignal, Recheck, ExecuteOk, ExecuteError,
         Quit, CloseStop, batcherVars, vars, Goto
    <3>3. QED
      BY <3>1, <3>2 DEF Unanswered, Bookkeeping, BatchInHand
  <2>3. QED
    BY <2>1, <2>2
<1>3. NoRequestLost' /\ AnswerIsOwn'
  BY <1>1, <1>2
     DEF Bookkeeping, NoRequestLost, AnswerIsOwn, InQueue, InBatch, Answered
<1>4. QED
  BY <1>2, <1>3 DEF Bookkeeping

(***************************************************************************)
(* Every step keeps the books.                                             *)
(***************************************************************************)
LEMMA BookkeepingInductive ==
  TypeOK /\ ResultsMatch /\ Bookkeeping /\ [Next]_vars => Bookkeeping'
PROOF
  BY BookkeepingHandler, BookkeepingFlush, BookkeepingDeliver,
     BookkeepingOther
     DEF Next, Batcher, Execute, Terminated

-----------------------------------------------------------------------------
(***************************************************************************)
(* DequeueN comes back empty-handed only from an empty queue, unless the   *)
(* batch size is 0.                                                        *)
(***************************************************************************)
LEMMA EmptyDequeue ==
  ASSUME TypeOK, MaxBatchSize >= 1, <<>> \in Dequeues(queue, MaxBatchSize)
  PROVE  queue = {}
PROOF
<1>1. queue \in SUBSET Requests
  BY DEF TypeOK
<1>2. /\ IsFiniteSet(queue) /\ Cardinality(queue) \in Nat
      /\ Len(<<>>) = DequeueCount(MaxBatchSize, Cardinality(queue))
  BY <1>1, DequeuesType
<1>3. Cardinality(queue) = 0
  BY <1>2, WorkerAssumption DEF DequeueCount
<1>4. QED
  BY <1>2, <1>3, FS_EmptySet

(***************************************************************************)
(* Every step keeps the order of a shutdown.                               *)
(***************************************************************************)
LEMMA ShutdownInductive ==
  ASSUME MaxBatchSize >= 1
  PROVE  TypeOK /\ ShutdownOrder /\ [Next]_vars => ShutdownOrder'
PROOF
<1> SUFFICES ASSUME TypeOK, ShutdownOrder, [Next]_vars PROVE ShutdownOrder'
  OBVIOUS
<1> USE DEF ShutdownOrder, StopClosed, handlerVars, batcherVars
<1>1. ASSUME NEW r \in Requests, Handler(r) PROVE ShutdownOrder'
  BY <1>1 DEF Handler, Infer, Signal, Return, ReturnResponse, ReturnError,
              ReturnCancelled, TypeOK
<1>2. CASE Flush
  <2>1. PICK b \in Dequeues(queue, MaxBatchSize) :
          /\ queue' = queue \ Range(b)
          /\ pc' = IF b = <<>> THEN AfterEmpty ELSE "execute"
    BY <1>2 DEF Flush, LeftBehind, Goto
  <2>2. CASE b = <<>>
    <3>1. queue = {} /\ queue' = {}
      BY <2>1, <2>2, EmptyDequeue
    <3>2. QED
      BY <1>2, <2>1, <2>2, <3>1 DEF Flush, AfterEmpty
  <2>3. CASE b # <<>>
    BY <1>2, <2>1, <2>3 DEF Flush
  <2>4. QED
    BY <2>2, <2>3
<1>3. CASE Wake \/ Drain \/ Collect \/ Execute \/ Quit \/ CloseStop
  BY <1>3 DEF Wake, Drain, Collect, ReadDepth, CollectStop, CollectTimeout,
              CollectSignal, Recheck, Execute, ExecuteOk, ExecuteError,
              DeliverResponse, DeliverError, Undelivered, FinishBatch,
              LoopTop, Quit, CloseStop, Goto
<1>4. CASE UNCHANGED vars
  BY <1>4 DEF vars
<1>5. QED
  BY <1>1, <1>2, <1>3, <1>4 DEF Next, Batcher, Terminated

-----------------------------------------------------------------------------
(***************************************************************************)
(* The safety theorems.                                                    *)
(***************************************************************************)

(***************************************************************************)
(* Every request is in one place, answers are their own, and the batch in  *)
(* hand is consistent.                                                     *)
(***************************************************************************)
THEOREM WorkerBookkeeping == Spec => []Bookkeeping
PROOF
<1>1. ASSUME Init PROVE Bookkeeping
  BY <1>1 DEF Init, Bookkeeping, NoRequestLost, AnswerIsOwn, BatchInHand,
              InQueue, InBatch, Answered, Unanswered
<1>2. QED
  BY <1>1, WorkerTypeCorrect, BookkeepingInductive, PTL DEF Spec

(***************************************************************************)
(* No request is lost or answered twice between the handler that enqueues  *)
(* it and the batcher that answers it (server.go 81-107, queue.go 43-58,   *)
(* batcher.go 135-190).                                                    *)
(***************************************************************************)
THEOREM RequestsAreKept == Spec => []NoRequestLost
PROOF
  BY WorkerBookkeeping, PTL DEF Bookkeeping

(***************************************************************************)
(* Every answer was computed from the request it answers, whatever the     *)
(* order of the batch (batcher.go 139-186).                                *)
(***************************************************************************)
THEOREM AnswersAreOwn == Spec => []AnswerIsOwn
PROOF
  BY WorkerBookkeeping, PTL DEF Bookkeeping

(***************************************************************************)
(* The batcher is never stuck on a channel of a call that has gone         *)
(* (server.go 87-88 and 104, batcher.go 170 and 185).                      *)
(***************************************************************************)
THEOREM AnswersFindRoom == Spec => []SendNeverBlocks
PROOF
<1>1. TypeOK /\ Bookkeeping => SendNeverBlocks
  <2> SUFFICES ASSUME TypeOK, Bookkeeping, Undelivered
               PROVE  HasRoom(doneCh[batch[next]]) /\ HasRoom(errCh[batch[next]])
    BY DEF SendNeverBlocks
  <2>1. batch[next] \in Requests /\ batch[next] \in Unanswered
    BY DEF TypeOK, Undelivered, Unanswered
  <2>2. doneCh[batch[next]] = <<>> /\ errCh[batch[next]] = <<>>
    BY <2>1 DEF Bookkeeping, NoRequestLost, InBatch, Answered
  <2>3. QED
    BY <2>2 DEF HasRoom
<1>2. QED
  BY <1>1, WorkerTypeCorrect, WorkerBookkeeping, PTL

(***************************************************************************)
(* A shutdown goes through its stages in order (main.go 62-69, batcher.go  *)
(* 61-65 and 210-218), provided batches may hold a request at all.         *)
(***************************************************************************)
THEOREM ShutdownIsOrdered ==
  ASSUME MaxBatchSize >= 1
  PROVE  Spec => []ShutdownOrder
PROOF
<1>1. Init => ShutdownOrder
  BY DEF Init, ShutdownOrder, StopClosed
<1>2. QED
  BY <1>1, WorkerTypeCorrect, ShutdownInductive, PTL DEF Spec

(***************************************************************************)
(* A graceful shutdown leaves nothing behind: the same proviso.            *)
(***************************************************************************)
THEOREM ShutdownLeavesNothing ==
  ASSUME MaxBatchSize >= 1
  PROVE  Spec => []ShutdownDrains
PROOF
<1>1. TypeOK /\ Bookkeeping /\ ShutdownOrder => ShutdownDrains
  BY DEF ShutdownDrains, Stopped, ShutdownOrder, Bookkeeping, BatchInHand,
         TypeOK, Unanswered
<1>2. QED
  BY <1>1, WorkerTypeCorrect, WorkerBookkeeping, ShutdownIsOrdered, PTL

-----------------------------------------------------------------------------
(***************************************************************************)
(* No lost wakeup.  D is the depth of the queue, U the number of handlers  *)
(* about to signal, T the signals buffered.                                *)
(***************************************************************************)

\* The numbers of the credit argument are natural numbers.
LEMMA Counts ==
  ASSUME TypeOK
  PROVE  /\ IsFiniteSet(queue) /\ Cardinality(queue) \in Nat
         /\ Cardinality(queue) <= Cardinality(Requests)
         /\ IsFiniteSet(Signalling) /\ Cardinality(Signalling) \in Nat
         /\ Cardinality(Requests) \in Nat
         /\ notify \in Nat /\ NotifyCap \in Nat /\ MaxBatchSize \in Nat
         /\ MaxBatchSize * notify \in Nat
PROOF
<1>1. queue \in SUBSET Requests /\ Signalling \in SUBSET Requests
  BY DEF TypeOK, Signalling
<1>2. /\ IsFiniteSet(queue) /\ Cardinality(queue) \in Nat
      /\ Cardinality(queue) <= Cardinality(Requests)
  BY <1>1, RequestAssumption, FS_Subset, FS_CardinalityType
<1>3. IsFiniteSet(Signalling) /\ Cardinality(Signalling) \in Nat
  BY <1>1, RequestAssumption, FS_Subset, FS_CardinalityType
<1>4. Cardinality(Requests) \in Nat
  BY RequestAssumption, FS_CardinalityType
<1>5. notify \in Nat /\ NotifyCap \in Nat /\ MaxBatchSize \in Nat
  BY WorkerAssumption DEF TypeOK
<1>6. MaxBatchSize * notify \in Nat
  BY <1>5
<1>7. QED
  BY <1>2, <1>3, <1>4, <1>5, <1>6

\* An accepted call adds one to D and to U.
LEMMA CreditInfer ==
  ASSUME TypeOK, WakeupCredit, NEW r \in Requests, Infer(r)
  PROVE  WakeupCredit'
PROOF
<1>1. Signalling' = Signalling \cup {r} /\ r \notin Signalling
  BY DEF TypeOK, Infer, Free, Signalling
<1>2. queue' = queue \cup {r} /\ r \notin queue
  BY DEF Infer, Free
<1>3. Cardinality(Signalling') = Cardinality(Signalling) + 1
  BY <1>1, Counts, FS_AddElement
<1>4. Cardinality(queue') = Cardinality(queue) + 1
  BY <1>2, Counts, FS_AddElement
<1>5. UNCHANGED <<pc, notify>>
  BY DEF Infer, batcherVars
<1>6. QED
  BY <1>3, <1>4, <1>5, Counts DEF WakeupCredit, Credit

\* A signal that is buffered raises the credit; one that is dropped finds the
\* buffer full.
LEMMA CreditSignal ==
  ASSUME SignalsSuffice, TypeOK, WakeupCredit, NEW r \in Requests, Signal(r)
  PROVE  WakeupCredit'
PROOF
<1>1. Signalling' = Signalling \ {r} /\ r \in Signalling
  BY DEF TypeOK, Signal, Signalling
<1>2. Cardinality(Signalling') = Cardinality(Signalling) - 1
  BY <1>1, Counts, FS_RemoveElement
<1>3. Cardinality(Signalling') \in Nat
  BY <1>1, Counts, FS_RemoveElement, FS_CardinalityType
<1>4. UNCHANGED <<pc, queue>>
  BY DEF Signal, batcherVars
<1>5. CASE notify < NotifyCap
  <2>1. notify' = notify + 1
    BY <1>5 DEF Signal
  <2>2. MaxBatchSize * notify' = MaxBatchSize * notify + MaxBatchSize
    BY <2>1, Counts
  <2>3. QED
    BY <1>2, <1>4, <2>1, <2>2, Counts
       DEF WakeupCredit, Credit, SignalsSuffice
<1>6. CASE notify >= NotifyCap
  <2>1. notify' = notify /\ notify = NotifyCap
    BY <1>6, Counts DEF Signal, TypeOK
  <2>2. Cardinality(queue) <= MaxBatchSize * notify
    BY <2>1, Counts DEF SignalsSuffice
  <2>3. QED
    BY <1>3, <1>4, <2>1, <2>2, Counts DEF WakeupCredit, Credit
<1>7. QED
  BY <1>5, <1>6, Counts

\* A signal taken becomes one batch of credit in the collection.
LEMMA CreditTakeSignal ==
  ASSUME SignalsSuffice, TypeOK, WakeupCredit, Wake \/ CollectSignal
  PROVE  WakeupCredit'
PROOF
<1>1. /\ notify' = notify - 1 /\ notify > 0 /\ notify' \in Nat
      /\ UNCHANGED <<queue, handler>>
      /\ pc \in {"idle", "select"} /\ pc' \in {"collect", "recheck"}
  BY Counts DEF Wake, CollectSignal, TakeSignal, Goto, handlerVars
<1>2. Signalling' = Signalling
  BY <1>1 DEF Signalling
<1>3. /\ MaxBatchSize * notify' \in Nat
      /\ MaxBatchSize * notify' + MaxBatchSize = MaxBatchSize * notify
  BY <1>1, Counts
<1>4. notify' <= MaxBatchSize * notify'
  BY <1>1, Counts DEF SignalsSuffice
<1>5. Cardinality(queue)
        <= MaxBatchSize * notify' + Cardinality(Signalling) + MaxBatchSize
  <2>1. CASE Cardinality(queue) <= Credit
    BY <1>3, <2>1, Counts DEF Credit
  <2>2. CASE Cardinality(queue)
               <= MaxBatchSize - 1 + notify + Cardinality(Signalling)
    <3>1. Cardinality(queue)
            <= MaxBatchSize + notify' + Cardinality(Signalling)
      BY <1>1, <2>2, Counts
    <3>2. QED
      BY <1>1, <1>3, <1>4, <3>1, Counts
  <2>3. QED
    BY <1>1, <2>1, <2>2 DEF WakeupCredit
<1>6. QED
  BY <1>1, <1>2, <1>5 DEF WakeupCredit, Credit

\* A collection ends with a batch of credit, or with less than a batch queued.
LEMMA CreditCollect ==
  ASSUME SignalsSuffice, TypeOK, WakeupCredit,
         ReadDepth \/ CollectStop \/ CollectTimeout \/ Recheck
  PROVE  WakeupCredit'
PROOF
<1>1. UNCHANGED <<queue, notify, handler>>
  BY DEF ReadDepth, CollectStop, CollectTimeout, Recheck, handlerVars
<1>2. Signalling' = Signalling /\ Credit' = Credit
  BY <1>1 DEF Signalling, Credit
<1>3. Credit \in Nat /\ notify + Cardinality(Signalling) <= Credit
  BY Counts DEF Credit, SignalsSuffice
<1>4. CASE ReadDepth
  <2>1. CASE BatchIsFull
    BY <1>1, <1>2, <1>4, <2>1 DEF ReadDepth, Goto, WakeupCredit
  <2>2. CASE ~BatchIsFull
    <3>1. Cardinality(queue) <= MaxBatchSize - 1
      BY <2>2, Counts DEF BatchIsFull
    <3>2. pc' = "select"
      BY <1>4, <2>2 DEF ReadDepth, Goto
    <3>3. QED
      BY <1>1, <1>2, <3>1, <3>2, Counts DEF WakeupCredit
  <2>3. QED
    BY <2>1, <2>2
<1>5. CASE CollectStop \/ CollectTimeout
  <2>1. pc = "select" /\ pc' = "flush"
    BY <1>5 DEF CollectStop, CollectTimeout, Goto
  <2>2. Cardinality(queue) <= Credit + MaxBatchSize
    BY <1>3, <2>1, Counts DEF WakeupCredit
  <2>3. QED
    BY <1>1, <1>2, <2>1, <2>2 DEF WakeupCredit
<1>6. CASE Recheck
  BY <1>1, <1>2, <1>6 DEF Recheck, Goto, WakeupCredit
<1>7. QED
  BY <1>4, <1>5, <1>6

\* DequeueN takes MaxBatchSize requests out of D, or all of them.
LEMMA FlushCount ==
  ASSUME NEW q \in SUBSET Requests, NEW b \in Dequeues(q, MaxBatchSize)
  PROVE  Cardinality(q \ Range(b))
           = Cardinality(q) - DequeueCount(MaxBatchSize, Cardinality(q))
PROOF
<1> DEFINE n == Len(b)
<1>1. /\ IsFiniteSet(q) /\ b \in Seq(q) /\ n \in Nat
      /\ b \in [1 .. n -> Range(b)]
      /\ n = DequeueCount(MaxBatchSize, Cardinality(q))
      /\ \A i, j \in 1 .. n : i # j => b[i] # b[j]
      /\ Range(b) = { b[i] : i \in 1 .. n }
  BY DequeuesType
<1> HIDE DEF n
<1>2. b \in Bijection(1 .. n, Range(b))
  BY <1>1 DEF Bijection, Injection, Surjection, IsInjective
<1>3. Cardinality(Range(b)) = n
  BY <1>1, <1>2, FS_CountingElements DEF ExistsBijection
<1>4. q \cap Range(b) = Range(b)
  <2>1. Range(b) \subseteq q
    BY <1>1 DEF n
  <2>2. QED
    BY <2>1
<1>5. Cardinality(q \ Range(b))
        = Cardinality(q) - Cardinality(q \cap Range(b))
  BY <1>1, FS_Difference
<1>6. QED
  BY <1>1, <1>3, <1>4, <1>5

\* A batch dequeued uses up the credit of its collection.
LEMMA CreditFlush ==
  ASSUME TypeOK, WakeupCredit, Flush
  PROVE  WakeupCredit'
PROOF
<1>1. PICK b \in Dequeues(queue, MaxBatchSize) :
        /\ queue' = queue \ Range(b)
        /\ pc' \in {"idle", "execute", "exited"}
  BY DEF Flush, LeftBehind, Goto, AfterEmpty
<1>2. Cardinality(queue') = Cardinality(queue)
        - DequeueCount(MaxBatchSize, Cardinality(queue))
  BY <1>1, FlushCount DEF TypeOK
<1>3. Cardinality(queue) <= Credit + MaxBatchSize
  BY DEF Flush, Goto, WakeupCredit
<1>4. Credit' = Credit /\ Credit \in Nat
  <2>1. notify' = notify /\ Signalling' = Signalling
    BY DEF Flush, handlerVars, Signalling
  <2>2. QED
    BY <2>1, Counts DEF Credit
<1>5. Cardinality(queue') <= Credit
  BY <1>2, <1>3, <1>4, Counts DEF DequeueCount
<1>6. QED
  BY <1>1, <1>4, <1>5 DEF WakeupCredit

\* The other steps leave the queue and the signals alone, or remove a handler
\* that has signalled already.
LEMMA CreditOther ==
  ASSUME TypeOK, WakeupCredit,
         \/ \E r \in Requests :
              ReturnResponse(r) \/ ReturnError(r) \/ ReturnCancelled(r)
         \/ Drain \/ Execute \/ Quit \/ CloseStop \/ UNCHANGED vars
  PROVE  WakeupCredit'
PROOF
<1>1. UNCHANGED <<queue, notify>>
  BY DEF ReturnResponse, ReturnError, ReturnCancelled, Return, Drain, Execute,
         ExecuteOk, ExecuteError, DeliverResponse, DeliverError, FinishBatch,
         Quit, CloseStop, vars
<1>2. Signalling' = Signalling
  BY DEF ReturnResponse, ReturnError, ReturnCancelled, Return, Drain, Execute,
         ExecuteOk, ExecuteError, DeliverResponse, DeliverError, FinishBatch,
         Quit, CloseStop, vars, handlerVars, Signalling, TypeOK
<1>3. \/ pc' = pc
      \/ pc = "idle" /\ pc' = "flush"
      \/ pc = "execute" /\ pc' = "deliver"
      \/ pc = "deliver" /\ pc' \in {"idle", "flush"}
  BY DEF ReturnResponse, ReturnError, ReturnCancelled, Return, Drain, Execute,
         ExecuteOk, ExecuteError, DeliverResponse, DeliverError, FinishBatch,
         LoopTop, Quit, CloseStop, vars, batcherVars, Goto
<1>4. Credit' = Credit /\ Credit \in Nat
  BY <1>1, <1>2, Counts DEF Credit
<1>5. QED
  BY <1>1, <1>2, <1>3, <1>4, Counts DEF WakeupCredit

(***************************************************************************)
(* The credit argument: with a buffer of at least Cardinality(Requests) /  *)
(* MaxBatchSize signals, the queue never outgrows the signals for it       *)
(* (batcher.go 67-74 and 99-133).                                          *)
(***************************************************************************)
THEOREM SignalsCoverQueue ==
  ASSUME SignalsSuffice
  PROVE  Spec => []WakeupCredit
PROOF
<1>1. ASSUME Init PROVE WakeupCredit
  <2>1. TypeOK
    BY <1>1, InitTypeOK
  <2>2. queue = {} /\ pc = "idle"
    BY <1>1 DEF Init
  <2>3. QED
    BY <2>1, <2>2, Counts, FS_EmptySet DEF WakeupCredit, Credit
<1>2. TypeOK /\ WakeupCredit /\ [Next]_vars => WakeupCredit'
  BY CreditInfer, CreditSignal, CreditTakeSignal, CreditCollect, CreditFlush,
     CreditOther
     DEF Next, Handler, Batcher, Collect, Terminated
<1>3. QED
  BY <1>1, <1>2, WorkerTypeCorrect, PTL DEF Spec

(***************************************************************************)
(* No wakeup is lost, although Signal drops signals (batcher.go:71) and    *)
(* collections swallow them (batcher.go 124-131).                          *)
(***************************************************************************)
THEOREM WakeupsAreNotLost ==
  ASSUME SignalsSuffice
  PROVE  Spec => []NoLostWakeup
PROOF
<1>1. TypeOK /\ WakeupCredit => NoLostWakeup
  <2> SUFFICES ASSUME TypeOK, WakeupCredit, pc = "idle", queue # {},
                      notify = 0, Signalling = {}
               PROVE  FALSE
    BY Counts DEF NoLostWakeup
  <2>1. Cardinality(queue) # 0
    BY Counts, FS_EmptySet
  <2>2. Credit = 0
    BY Counts, FS_EmptySet DEF Credit
  <2>3. QED
    BY <2>1, <2>2, Counts DEF WakeupCredit
<1>2. QED
  BY <1>1, WorkerTypeCorrect, SignalsCoverQueue, PTL

-----------------------------------------------------------------------------
(***************************************************************************)
(* Refinement of BatchService.                                             *)
(***************************************************************************)

\* What the mapping needs besides the books: a batch that is executed is not
\* empty and not too large, and a channel holds one answer.
Mapped ==
  /\ pc = "execute" => Len(batch) \in 1 .. MaxBatchSize
  /\ \A r \in Requests : Len(doneCh[r]) <= 1 /\ Len(errCh[r]) <= 1

LEMMA MappedInductive ==
  TypeOK /\ Mapped /\ [Next]_vars => Mapped'
PROOF
<1> SUFFICES ASSUME TypeOK, Mapped, [Next]_vars PROVE Mapped'
  OBVIOUS
<1>1. CASE UNCHANGED vars
  BY <1>1 DEF vars, handlerVars, batcherVars, Mapped
<1>2. ASSUME NEW r \in Requests, Handler(r) PROVE Mapped'
  <2>1. UNCHANGED <<pc, batch>>
    BY <1>2 DEF Handler, Infer, Signal, ReturnResponse, ReturnError, ReturnCancelled, Return,
                batcherVars
  <2>2. \A x \in Requests \ {r} : doneCh'[x] = doneCh[x] /\ errCh'[x] = errCh[x]
    BY <1>2 DEF Handler, Infer, Signal, ReturnResponse, ReturnError, ReturnCancelled, TypeOK
  <2>3. /\ doneCh'[r] \in {doneCh[r], <<>>} \/ (doneCh[r] # <<>> /\ doneCh'[r] = Tail(doneCh[r]))
        /\ errCh'[r] \in {errCh[r], <<>>} \/ (errCh[r] # <<>> /\ errCh'[r] = Tail(errCh[r]))
    BY <1>2 DEF Handler, Infer, Signal, ReturnResponse, ReturnError, ReturnCancelled, TypeOK
  <2>4. Len(doneCh'[r]) <= 1 /\ Len(errCh'[r]) <= 1
    BY <2>3 DEF TypeOK, Mapped
  <2> QED
    BY <2>1, <2>2, <2>4 DEF Mapped
<1>3. CASE Flush
  <2>1. PICK b \in Dequeues(queue, MaxBatchSize) :
          batch' = b /\ (pc' = "execute" => b # <<>>)
    BY <1>3 DEF Flush, Goto, AfterEmpty
  <2>2. /\ b \in Seq(queue) /\ Cardinality(queue) \in Nat
        /\ Len(b) = DequeueCount(MaxBatchSize, Cardinality(queue))
    BY <2>1, DequeuesType DEF TypeOK
  <2>3. Len(b) <= MaxBatchSize
    BY <2>2, WorkerAssumption DEF DequeueCount
  <2>4. b # <<>> => Len(b) \in 1 .. MaxBatchSize
    BY <2>2, <2>3, WorkerAssumption
  <2> QED
    BY <1>3, <2>1, <2>4 DEF Flush, handlerVars, Mapped
<1>4. CASE DeliverResponse \/ DeliverError
  <2> DEFINE r == batch[next]
  <2>1. r \in Requests /\ pc' # "execute"
    BY <1>4 DEF DeliverResponse, DeliverError, Undelivered, TypeOK
  <2>2. /\ \A x \in Requests \ {r} : doneCh'[x] = doneCh[x] /\ errCh'[x] = errCh[x]
        /\ doneCh'[r] = doneCh[r] \/ (Len(doneCh[r]) < 1 /\ \E v : doneCh'[r] = Append(doneCh[r], v))
        /\ errCh'[r] = errCh[r] \/ (Len(errCh[r]) < 1 /\ \E v : errCh'[r] = Append(errCh[r], v))
    BY <1>4, <2>1 DEF DeliverResponse, DeliverError, HasRoom, TypeOK
  <2> HIDE DEF r
  <2>3. Len(doneCh'[r]) <= 1 /\ Len(errCh'[r]) <= 1
    BY <2>1, <2>2 DEF TypeOK, Mapped
  <2> QED
    BY <2>1, <2>2, <2>3 DEF Mapped
<1>5. CASE \/ Wake \/ Drain \/ Collect \/ ExecuteOk \/ ExecuteError \/ FinishBatch
           \/ Quit \/ CloseStop
  BY <1>5 DEF Wake, Drain, Collect, ReadDepth, CollectStop, CollectTimeout, CollectSignal,
              Recheck, ExecuteOk, ExecuteError, FinishBatch, LoopTop, Quit, CloseStop, Goto,
              handlerVars, batcherVars, Mapped
<1> QED
  BY <1>1, <1>2, <1>3, <1>4, <1>5 DEF Next, Batcher, Execute, Terminated

Open(r) == IF handler[r] = "idle" THEN "closed" ELSE "open"

\* The steps of BatchService, in terms of the worker.
LEMMA ServiceSteps ==
  /\ (\A r \in Requests : Open(r)' = Open(r) /\ Work(r)' = Work(r))
       => UNCHANGED Service!vars
  /\ \A r \in Requests :
       /\ \A x \in Requests \ {r} : Open(x)' = Open(x) /\ Work(x)' = Work(x)
       /\ \/ /\ Open(r) = "closed" /\ Work(r) # "pending"
             /\ Open(r)' = "open" /\ Work(r)' = "pending"
          \/ /\ Open(r) = "open" /\ Work(r) \in {"ok", "failed"}
             /\ Open(r)' = "closed" /\ Work(r)' = "none"
          \/ Open(r) = "open" /\ Open(r)' = "closed" /\ Work(r)' = Work(r)
       => Service!Next
  /\ \A S \in SUBSET Requests, outcome \in {"ok", "failed"} :
       /\ S # {} /\ Cardinality(S) <= MaxBatchSize
       /\ \A r \in S : Work(r) = "pending" /\ Work(r)' = outcome
       /\ \A r \in Requests \ S : Work(r)' = Work(r)
       /\ \A r \in Requests : Open(r)' = Open(r)
       => Service!Next
PROOF
<1> DEFINE o == [r \in Requests |-> Open(r)]
           k == [r \in Requests |-> Work(r)]
<1>1. \A r \in Requests : o[r] = Open(r) /\ k[r] = Work(r)
  OBVIOUS
<1>2. /\ o = [r \in Requests |-> Open(r)] /\ o' = [r \in Requests |-> Open(r)']
      /\ k = [r \in Requests |-> Work(r)] /\ k' = [r \in Requests |-> Work(r)']
  OBVIOUS
<1>3. UNCHANGED Service!vars <=> o' = o /\ k' = k
  BY DEF Service!vars, Open
<1>4. \A r \in Requests :
        /\ Service!Accept(r) <=> /\ o[r] = "closed" /\ k[r] # "pending"
                                 /\ o' = [o EXCEPT ![r] = "open"]
                                 /\ k' = [k EXCEPT ![r] = "pending"]
        /\ Service!Return(r) <=> /\ o[r] = "open" /\ k[r] \in {"ok", "failed"}
                                 /\ o' = [o EXCEPT ![r] = "closed"]
                                 /\ k' = [k EXCEPT ![r] = "none"]
        /\ Service!Abandon(r) <=> /\ o[r] = "open"
                                  /\ o' = [o EXCEPT ![r] = "closed"]
                                  /\ k' = k
  BY DEF Service!Accept, Service!Return, Service!Abandon, Service!Outcomes, Open
<1>c. \A S : Service!Cardinality(S) = Cardinality(S)
  BY DEF Service!Cardinality, Cardinality, Service!IsFiniteSet, IsFiniteSet
<1>5. ASSUME NEW S \in SUBSET Requests, NEW outcome
      PROVE  Service!ExecuteBatch(S, outcome) <=>
               /\ S # {} /\ Cardinality(S) <= MaxBatchSize
               /\ \A r \in S : k[r] = "pending"
               /\ k' = [r \in Requests |-> IF r \in S THEN outcome ELSE k[r]]
               /\ o' = o
  BY <1>c DEF Service!ExecuteBatch, Open
<1> HIDE DEF o, k
<1>6. (\A r \in Requests : Open(r)' = Open(r) /\ Work(r)' = Work(r))
        => UNCHANGED Service!vars
  BY <1>2, <1>3
<1>7. ASSUME NEW r \in Requests,
             \A x \in Requests \ {r} : Open(x)' = Open(x) /\ Work(x)' = Work(x),
             \/ /\ Open(r) = "closed" /\ Work(r) # "pending"
                /\ Open(r)' = "open" /\ Work(r)' = "pending"
             \/ /\ Open(r) = "open" /\ Work(r) \in {"ok", "failed"}
                /\ Open(r)' = "closed" /\ Work(r)' = "none"
             \/ Open(r) = "open" /\ Open(r)' = "closed" /\ Work(r)' = Work(r)
      PROVE  Service!Next
  <2>1. /\ o' = [o EXCEPT ![r] = Open(r)'] /\ k' = [k EXCEPT ![r] = Work(r)']
        /\ Work(r)' = Work(r) => k' = k
    BY <1>2, <1>7
  <2> QED
    BY <1>1, <1>4, <1>7, <2>1 DEF Service!Next
<1>8. ASSUME NEW S \in SUBSET Requests, NEW outcome \in {"ok", "failed"},
             S # {}, Cardinality(S) <= MaxBatchSize,
             \A r \in S : Work(r) = "pending" /\ Work(r)' = outcome,
             \A r \in Requests \ S : Work(r)' = Work(r),
             \A r \in Requests : Open(r)' = Open(r)
      PROVE  Service!Next
  <2>1. o' = o /\ k' = [r \in Requests |-> IF r \in S THEN outcome ELSE k[r]]
    BY <1>1, <1>2, <1>8
  <2>2. Service!ExecuteBatch(S, outcome)
    BY <1>1, <1>5, <1>8, <2>1
  <2> QED
    BY <2>2 DEF Service!Next, Service!Outcomes
<1> QED
  BY <1>6, <1>7, <1>8

Books == TypeOK /\ ResultsMatch /\ Bookkeeping /\ Mapped

\* What Work says where the request is in one place.
LEMMA WorkValues ==
  ASSUME Books, NEW r \in Requests
  PROVE  /\ InQueue(r) => Work(r) = "pending"
         /\ InBatch(r) => pc \in {"execute", "deliver"}
         /\ InBatch(r) /\ pc = "execute" => Work(r) = "pending"
         /\ InBatch(r) /\ pc = "deliver" =>
              Work(r) = IF BatchFailed THEN "failed" ELSE "ok"
         /\ doneCh[r] # <<>> => Work(r) = "ok"
         /\ errCh[r] # <<>> => Work(r) = "failed"
         /\ ~InQueue(r) /\ ~InBatch(r) /\ ~Answered(r) => Work(r) = "none"
PROOF
<1>1. /\ ~(InQueue(r) /\ InBatch(r)) /\ ~(InQueue(r) /\ Answered(r))
      /\ ~(InBatch(r) /\ Answered(r)) /\ ~(doneCh[r] # <<>> /\ errCh[r] # <<>>)
  BY DEF Books, Bookkeeping, NoRequestLost
<1>2. InBatch(r) => pc \in {"execute", "deliver"}
  BY DEF Books, Bookkeeping, BatchInHand, InBatch, Unanswered, TypeOK
<1> QED
  BY <1>1, <1>2 DEF Work, Answered

LEMMA BooksInductive == Books /\ [Next]_vars => Books'
PROOF
  BY TypeInductive, BookkeepingInductive, MappedInductive DEF Books

\* A handler's step is a step of its own call, or none.
LEMMA HandlerServes ==
  ASSUME Books, Books', NEW r \in Requests, Handler(r)
  PROVE  Service!Next \/ UNCHANGED Service!vars
PROOF
<1>1. UNCHANGED <<pc, results, Unanswered>>
  BY DEF Handler, Infer, Signal, ReturnResponse, ReturnError, ReturnCancelled, Return,
         batcherVars, Unanswered
<1>2. \A x \in Requests \ {r} : Open(x)' = Open(x) /\ Work(x)' = Work(x)
  <2> SUFFICES ASSUME NEW x \in Requests \ {r}
               PROVE  Open(x)' = Open(x) /\ Work(x)' = Work(x)
    OBVIOUS
  <2>1. /\ handler'[x] = handler[x] /\ doneCh'[x] = doneCh[x] /\ errCh'[x] = errCh[x]
        /\ x \in queue' <=> x \in queue
    BY DEF Handler, Infer, Signal, ReturnResponse, ReturnError, ReturnCancelled, Return,
           Books, TypeOK
  <2> QED
    BY <1>1, <2>1 DEF Open, Work, InQueue, InBatch, BatchFailed
<1>3. CASE Infer(r)
  <2>1. /\ ~InQueue(r) /\ ~InBatch(r) /\ handler[r] = "idle" /\ handler'[r] # "idle"
        /\ InQueue(r)' /\ ~InBatch(r)' /\ doneCh'[r] = <<>> /\ errCh'[r] = <<>>
    BY <1>1, <1>3 DEF Infer, Free, InQueue, InBatch, Books, TypeOK
  <2>2. Work(r)' = "pending"
    BY <2>1 DEF Work
  <2>3. Work(r) # "pending"
    BY <2>1 DEF Work
  <2> QED
    BY <1>2, <2>1, <2>2, <2>3, ServiceSteps DEF Open
<1>4. CASE Signal(r)
  <2>1. /\ Open(r)' = Open(r) /\ UNCHANGED <<doneCh, errCh, queue>>
    BY <1>4 DEF Signal, Open, Books, TypeOK
  <2>2. Work(r)' = Work(r)
    BY <1>1, <2>1 DEF Work, InQueue, InBatch, BatchFailed
  <2> QED
    BY <1>2, <2>1, <2>2, ServiceSteps
<1>5. CASE ReturnResponse(r) \/ ReturnError(r)
  <2>1. Open(r) = "open" /\ Open(r)' = "closed" /\ queue' = queue
    BY <1>5 DEF ReturnResponse, ReturnError, Return, Open, Books, TypeOK
  <2>2. Answered(r) /\ Work(r) \in {"ok", "failed"}
    BY <1>5, WorkValues DEF ReturnResponse, ReturnError, Answered
  <2>3. ~InQueue(r) /\ ~InBatch(r)
    BY <2>2 DEF Books, Bookkeeping, NoRequestLost
  <2>4. doneCh'[r] = <<>> /\ errCh'[r] = <<>>
    <3>1. /\ doneCh[r] \in Seq(Requests) /\ Len(doneCh[r]) <= 1
          /\ errCh[r] \in Seq({Failed}) /\ Len(errCh[r]) <= 1
          /\ doneCh[r] = <<>> \/ errCh[r] = <<>>
      BY DEF Books, TypeOK, Mapped, Bookkeeping, NoRequestLost
    <3>2. CASE ReturnResponse(r)
      <4>1. Tail(doneCh[r]) = <<>>
        BY <3>1, <3>2 DEF ReturnResponse
      <4> QED
        BY <3>1, <3>2, <4>1 DEF ReturnResponse, Books, TypeOK
    <3>3. CASE ReturnError(r)
      <4>1. Tail(errCh[r]) = <<>>
        BY <3>1, <3>3 DEF ReturnError
      <4> QED
        BY <3>1, <3>3, <4>1 DEF ReturnError, Books, TypeOK
    <3> QED
      BY <1>5, <3>2, <3>3
  <2>5. Work(r)' = "none"
    BY <1>1, <2>1, <2>3, <2>4 DEF Work, InQueue, InBatch
  <2> QED
    BY <1>2, <2>1, <2>2, <2>5, ServiceSteps
<1>6. CASE ReturnCancelled(r)
  <2>1. /\ Open(r) = "open" /\ Open(r)' = "closed" /\ UNCHANGED <<doneCh, errCh, queue>>
    BY <1>6 DEF ReturnCancelled, Return, Open, Books, TypeOK
  <2>2. Work(r)' = Work(r)
    BY <1>1, <2>1 DEF Work, InQueue, InBatch, BatchFailed
  <2> QED
    BY <1>2, <2>1, <2>2, ServiceSteps
<1> QED
  BY <1>3, <1>4, <1>5, <1>6 DEF Handler

\* The executor's return decides the batch; the batcher's other steps only
\* move requests and answers.
LEMMA ExecuteServes ==
  ASSUME Books, Books', ExecuteOk \/ ExecuteError
  PROVE  Service!Next
PROOF
<1> DEFINE S == Unanswered
           outcome == IF ExecuteOk THEN "ok" ELSE "failed"
<1>1. /\ pc = "execute" /\ pc' = "deliver" /\ next = 1
      /\ UNCHANGED <<handler, doneCh, errCh, queue, batch, next>>
      /\ Len(batch) \in 1 .. MaxBatchSize /\ batch \in Seq(Requests)
  BY DEF ExecuteOk, ExecuteError, Goto, handlerVars, Books, Bookkeeping, BatchInHand, Mapped,
         TypeOK
<1>2. /\ S' = S /\ S \in SUBSET Requests /\ batch[1] \in S
      /\ S = { batch[i] : i \in 1 .. Len(batch) }
  BY <1>1 DEF Unanswered
<1>3. S # {} /\ Cardinality(S) <= MaxBatchSize
  <2>1. batch \in Surjection(1 .. Len(batch), S)
    BY <1>1, <1>2 DEF Surjection
  <2>2. Cardinality(S) <= Len(batch) /\ Len(batch) \in Nat
    BY <1>1, <2>1, FS_SurjCardinalityBound DEF ExistsSurjection
  <2>3. IsFiniteSet(S)
    BY <1>2, RequestAssumption, FS_Subset
  <2> QED
    BY <1>1, <1>2, <2>2, <2>3, FS_CardinalityType, WorkerAssumption
<1>4. BatchFailed' <=> outcome = "failed"
  BY <1>1 DEF ExecuteOk, ExecuteError, BatchFailed
<1>5. ASSUME NEW r \in Requests, r \in S
      PROVE  Work(r) = "pending" /\ Work(r)' = outcome
  <2>1. /\ InBatch(r) /\ InBatch(r)' /\ ~InQueue(r) /\ ~InQueue(r)'
        /\ doneCh[r] = <<>> /\ errCh[r] = <<>> /\ UNCHANGED <<doneCh, errCh>>
    BY <1>1, <1>2, <1>5 DEF InBatch, InQueue, Answered, Books, Bookkeeping, NoRequestLost
  <2> HIDE DEF S
  <2> QED
    BY <1>1, <1>4, <2>1 DEF Work
<1>6. ASSUME NEW r \in Requests \ S PROVE Work(r)' = Work(r)
  BY <1>1, <1>2, <1>6 DEF Work, InBatch, InQueue
<1>7. \A r \in Requests : Open(r)' = Open(r)
  BY <1>1 DEF Open
<1> HIDE DEF S, outcome
<1>8. outcome \in {"ok", "failed"}
  BY DEF outcome
<1> QED
  BY <1>2, <1>3, <1>5, <1>6, <1>7, <1>8, ServiceSteps

LEMMA MovesHide ==
  ASSUME Books, Books', Flush \/ DeliverResponse \/ DeliverError
  PROVE  UNCHANGED Service!vars
PROOF
<1> SUFFICES ASSUME NEW r \in Requests PROVE Open(r)' = Open(r) /\ Work(r)' = Work(r)
  BY ServiceSteps
<1>0. TypeOK /\ Bookkeeping
  BY DEF Books
<1>1. Open(r)' = Open(r)
  BY DEF Flush, DeliverResponse, DeliverError, handlerVars, Open
<1>2. /\ ~(InQueue(r) /\ InBatch(r)) /\ ~(InQueue(r) /\ Answered(r))
      /\ ~(InBatch(r) /\ Answered(r)) /\ ~(doneCh[r] # <<>> /\ errCh[r] # <<>>)
      /\ (InBatch(r) => pc \in {"execute", "deliver"})
  BY WorkValues DEF Books, Bookkeeping, NoRequestLost
<1>3. ASSUME Flush PROVE Work(r)' = Work(r)
  <2>1. PICK b \in Dequeues(queue, MaxBatchSize) :
          /\ batch' = b /\ next' = 1
          /\ queue' = queue \ Range(b)
          /\ pc' = IF b = <<>> THEN AfterEmpty ELSE "execute"
    BY <1>3 DEF Flush, LeftBehind, Goto
  <2>2. /\ b \in Seq(queue) /\ Range(b) = { b[i] : i \in 1 .. Len(b) }
    BY <1>0, <2>1, DequeuesType DEF TypeOK
  <2>3. Unanswered' = Range(b) /\ Range(b) \subseteq queue /\ pc = "flush"
    BY <1>3, <2>1, <2>2 DEF Unanswered, Flush, Goto
  <2>4. UNCHANGED <<doneCh, errCh>> /\ (b # <<>> => pc' = "execute")
    BY <1>3, <2>1 DEF Flush, handlerVars
  <2>5. ~InBatch(r) /\ (r \in Range(b) => b # <<>>)
    BY <1>2, <2>2, <2>3
  <2>6. CASE r \in Range(b)
    <3>1. /\ InQueue(r) /\ InBatch(r)' /\ pc' = "execute"
          /\ ~InQueue(r)' /\ doneCh[r] = <<>> /\ errCh[r] = <<>>
      BY <1>2, <2>1, <2>3, <2>4, <2>5, <2>6 DEF InQueue, InBatch, Answered
    <3> QED
      BY <2>4, <2>5, <3>1 DEF Work
  <2>7. CASE r \notin Range(b)
    <3>1. InQueue(r)' = InQueue(r) /\ ~InBatch(r)'
      BY <2>1, <2>3, <2>7 DEF InQueue, InBatch
    <3> QED
      BY <2>4, <2>5, <3>1 DEF Work
  <2> QED
    BY <2>6, <2>7
<1>4. ASSUME DeliverResponse \/ DeliverError PROVE Work(r)' = Work(r)
  <2>1. PICK a \in Unanswered \cap Requests :
          /\ Unanswered' = Unanswered \ {a}
          /\ a \notin queue /\ doneCh[a] = <<>> /\ errCh[a] = <<>>
          /\ \A x \in Requests \ {a} : doneCh'[x] = doneCh[x] /\ errCh'[x] = errCh[x]
          /\ \/ ~BatchFailed /\ doneCh'[a] = <<a>> /\ errCh'[a] = <<>>
             \/ BatchFailed /\ doneCh'[a] = <<>> /\ errCh'[a] = <<Failed>>
    BY <1>4, OneAnswered DEF Books
  <2>2. UNCHANGED <<queue, pc, results>> /\ pc = "deliver"
    BY <1>4 DEF DeliverResponse, DeliverError, Undelivered
  <2>3. CASE r = a
    <3>1. InBatch(r) /\ ~InQueue(r) /\ ~InBatch(r)' /\ ~InQueue(r)'
      BY <2>1, <2>2, <2>3 DEF InBatch, InQueue
    <3>2. <<a>> # <<>> /\ <<Failed>> # <<>>
      OBVIOUS
    <3> QED
      BY <2>1, <2>2, <2>3, <3>1, <3>2 DEF Work
  <2>4. CASE r # a
    <3>1. /\ doneCh'[r] = doneCh[r] /\ errCh'[r] = errCh[r]
          /\ InQueue(r)' = InQueue(r) /\ InBatch(r)' = InBatch(r)
          /\ BatchFailed' = BatchFailed
      BY <2>1, <2>2, <2>4 DEF InBatch, InQueue, BatchFailed
    <3> QED
      BY <2>2, <3>1 DEF Work
  <2> QED
    BY <2>3, <2>4
<1> QED
  BY <1>1, <1>3, <1>4

LEMMA OthersHide ==
  ASSUME Books, Books',
         Wake \/ Drain \/ Collect \/ FinishBatch \/ Quit \/ CloseStop \/ UNCHANGED vars
  PROVE  UNCHANGED Service!vars
PROOF
<1> SUFFICES ASSUME NEW r \in Requests PROVE Open(r)' = Open(r) /\ Work(r)' = Work(r)
  BY ServiceSteps
<1>1. UNCHANGED <<handler, queue, doneCh, errCh>>
  BY DEF Wake, Drain, Collect, ReadDepth, CollectStop, CollectTimeout,
         CollectSignal, Recheck, FinishBatch, Quit, CloseStop, handlerVars, vars
<1>2. Open(r)' = Open(r) /\ InQueue(r)' = InQueue(r)
  BY <1>1 DEF Open, InQueue
<1>3. CASE UNCHANGED <<pc, batch, next, results>>
  BY <1>1, <1>3 DEF Open, Work, InQueue, InBatch, Unanswered, BatchFailed
<1>4. CASE Wake \/ Drain \/ Collect \/ FinishBatch
  <2>1. ~InBatch(r) /\ ~InBatch(r)'
    <3>1. CASE FinishBatch
      BY <3>1 DEF FinishBatch, InBatch, Unanswered, Books, TypeOK
    <3>2. CASE Wake \/ Drain \/ Collect
      <4>1. /\ pc \notin {"execute", "deliver"} /\ UNCHANGED <<batch, next>>
        BY <3>2 DEF Wake, Drain, Collect, ReadDepth, CollectStop, CollectTimeout,
                    CollectSignal, Recheck, Goto
      <4> QED
        BY <4>1 DEF Books, Bookkeeping, BatchInHand, InBatch, Unanswered, TypeOK
    <3> QED
      BY <1>4, <3>1, <3>2
  <2> QED
    BY <1>1, <1>2, <2>1 DEF Work
<1> QED
  BY <1>2, <1>3, <1>4 DEF Quit, CloseStop, vars, batcherVars

(***************************************************************************)
(* A worker does to its callers what BatchService promises: a request runs *)
(* once, in one batch that succeeds or fails as a whole, and a call that   *)
(* waits gets that batch's outcome (server.go 81-107, batcher.go 135-190). *)
(***************************************************************************)
THEOREM ServiceIsImplemented == Spec => ImplementsService
PROOF
<1>1. Init => Books
  <2> SUFFICES ASSUME Init PROVE Books
    OBVIOUS
  <2>1. Bookkeeping
    BY DEF Init, Bookkeeping, NoRequestLost, AnswerIsOwn, BatchInHand,
           InQueue, InBatch, Answered, Unanswered
  <2>2. Mapped
    BY DEF Init, Mapped
  <2> QED
    BY <2>1, <2>2, InitTypeOK DEF Books
<1>2. Init => Service!Init
  BY DEF Init, Service!Init, Work, InQueue, InBatch, Unanswered
<1>3. Books /\ Books' /\ [Next]_vars => [Service!Next]_(Service!vars)
  BY HandlerServes, ExecuteServes, MovesHide, OthersHide
     DEF Next, Batcher, Execute, Terminated
<1> QED
  BY <1>1, <1>2, <1>3, BooksInductive, PTL DEF Spec, ImplementsService, Service!Spec
=============================================================================
