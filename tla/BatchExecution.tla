--------------------------- MODULE BatchExecution ---------------------------
(***************************************************************************)
(* executeBatch (pkg/worker/batcher.go): the executor and the counters of  *)
(* BatchCounters, which go on when it has returned, with results or with   *)
(* an error.                                                               *)
(***************************************************************************)
EXTENDS BatchCounters, OnnxExecutor

BatchInit == Init /\ ExecutorInit

\* The batcher extracts the payloads of a batch and calls the executor.
CallExecutor(b) ==
  /\ Len(b) \in BatchSizes
  /\ Execute(Len(b))
  /\ ExecuteBatch(b)

\* It is counted whether or not there was an error.
GoOn == CountBatch /\ Return

BatchNext ==
  \/ Boot /\ UNCHANGED vars
  \/ Advance /\ UNCHANGED vars
  \/ \E b \in BoundedSeq(Payloads, MaxBatchSize) : CallExecutor(b)
  \/ GoOn
  \/ /\ \/ CountRequests \/ StoreSize \/ Scrape
        \/ \E latency \in Latencies : UpdateAverage(latency)
     /\ UNCHANGED executorVars

BatchSpec == BatchInit /\ [][BatchNext]_<<vars, executorVars>>
=============================================================================
