--------------------------- MODULE BatchCounters ---------------------------
(***************************************************************************)
(* The counters that executeBatch (pkg/worker/batcher.go) keeps for the    *)
(* metrics, one atomic variable each, and a scrape of /metrics             *)
(* (pkg/worker/metrics.go ServePrometheus and GetMetrics), which reads     *)
(* them one after the other meanwhile.  The average latency is an int64 of *)
(* milliseconds.                                                           *)
(***************************************************************************)
EXTENDS Integers

CONSTANTS
  MaxBatchSize,  \* MAX_BATCH_SIZE
  Latencies,     \* what a batch may take, in whole milliseconds
  MaxBatches     \* bound: batches in a behaviour

ASSUME CountersAssumption ==
  /\ MaxBatchSize \in Nat \ {0}
  /\ Latencies \subseteq Nat
  /\ MaxBatches \in Nat

VARIABLES
  pc,             \* the batcher: "idle", then the next counter it updates:
                  \* "batches", "requests", "size", "average"
  batchSize,      \* requests in the batch
  TotalBatches, TotalRequests, LastBatchSize,
  AvgLatencyMs,   \* 0 also stands for no average yet
  scrape,         \* the scrape: "idle", then the next counter it reads:
                  \* "size", "batches", "requests"
  shownAverage, shownSize,      \* what the scrape has read
  shownBatches, shownRequests,
  measured        \* history: the latencies so far

batcherVars == <<pc, batchSize, TotalBatches, TotalRequests, LastBatchSize,
                 AvgLatencyMs, measured>>
shown == <<shownAverage, shownSize, shownBatches, shownRequests>>
scrapeVars == <<scrape, shown>>
vars == <<batcherVars, scrapeVars>>

TypeOK ==
  /\ pc \in {"idle", "batches", "requests", "size", "average"}
  /\ batchSize \in 0 .. MaxBatchSize
  /\ TotalBatches \in 0 .. MaxBatches
  /\ TotalRequests \in Nat
  /\ LastBatchSize \in 0 .. MaxBatchSize
  /\ AvgLatencyMs \in Nat
  /\ scrape \in {"idle", "size", "batches", "requests"}
  /\ shownAverage \in Nat
  /\ shownSize \in 0 .. MaxBatchSize
  /\ shownBatches \in 0 .. MaxBatches
  /\ shownRequests \in Nat
  /\ measured \subseteq Latencies

Init ==
  /\ pc = "idle" /\ batchSize = 0
  /\ TotalBatches = 0 /\ TotalRequests = 0 /\ LastBatchSize = 0
  /\ AvgLatencyMs = 0
  /\ scrape = "idle"
  /\ shownAverage = 0 /\ shownSize = 0 /\ shownBatches = 0 /\ shownRequests = 0
  /\ measured = {}

-----------------------------------------------------------------------------
(***************************************************************************)
(* The batcher.                                                            *)
(***************************************************************************)

\* loop and drainRemaining do not execute an empty batch.
BatchSizes == 1 .. MaxBatchSize

\* A batch has been taken and goes through the executor.
Execute(n) ==
  /\ pc = "idle"
  /\ TotalBatches < MaxBatches
  /\ pc' = "batches"
  /\ batchSize' = n
  /\ UNCHANGED <<TotalBatches, TotalRequests, LastBatchSize, AvgLatencyMs,
                 measured, scrapeVars>>

\* Mutated form: the size is stored before the requests are counted.
CountBatchAfterSize ==
  /\ pc = "batches"
  /\ pc' = "requests"
  /\ TotalBatches' = TotalBatches + 1
  /\ LastBatchSize' = batchSize
  /\ UNCHANGED <<batchSize, TotalRequests, AvgLatencyMs, measured, scrapeVars>>

CountBatch ==
  /\ pc = "batches"
  /\ pc' = "requests"
  /\ TotalBatches' = TotalBatches + 1
  /\ UNCHANGED <<batchSize, TotalRequests, LastBatchSize, AvgLatencyMs,
                 measured, scrapeVars>>

CountRequests ==
  /\ pc = "requests"
  /\ pc' = "size"
  /\ TotalRequests' = TotalRequests + batchSize
  /\ UNCHANGED <<batchSize, TotalBatches, LastBatchSize, AvgLatencyMs,
                 measured, scrapeVars>>

StoreSize ==
  /\ pc = "size"
  /\ pc' = "average"
  /\ LastBatchSize' = batchSize
  /\ UNCHANGED <<batchSize, TotalBatches, TotalRequests, AvgLatencyMs,
                 measured, scrapeVars>>

\* Mutated form: weights that do not add up to one.
WeightedHeavy(old, latency) == (8 * old + 3 * latency) \div 10

\* int64(old * 0.7 + latency * 0.3).  The conversion cuts off the fraction,
\* and where the exact sum is a whole number, the floating-point sum may be
\* a little less (3 * 0.7 + 3 * 0.3 is 2.9999999999999996).
Weighted(old, latency) == (7 * old + 3 * latency) \div 10
RoundedLow(old, latency) ==
  IF (7 * old + 3 * latency) % 10 = 0 /\ Weighted(old, latency) > 0
    THEN {Weighted(old, latency) - 1} ELSE {}

AverageAfter(old, latency) ==
  IF old = 0 THEN {latency}
             ELSE {Weighted(old, latency)} \cup RoundedLow(old, latency)

\* Load and Store of AvgLatencyMs are one step: only the batcher stores.
UpdateAverage(latency) ==
  /\ pc = "average"
  /\ pc' = "idle"
  /\ batchSize' = 0
  /\ AvgLatencyMs' \in AverageAfter(AvgLatencyMs, latency)
  /\ measured' = measured \cup {latency}
  /\ UNCHANGED <<TotalBatches, TotalRequests, LastBatchSize, scrapeVars>>

-----------------------------------------------------------------------------
(***************************************************************************)
(* A scrape.                                                               *)
(***************************************************************************)
ScrapeAverage ==
  /\ scrape = "idle"
  /\ scrape' = "size"
  /\ shownAverage' = AvgLatencyMs
  /\ UNCHANGED <<batcherVars, shownSize, shownBatches, shownRequests>>

ScrapeSize ==
  /\ scrape = "size"
  /\ scrape' = "batches"
  /\ shownSize' = LastBatchSize
  /\ UNCHANGED <<batcherVars, shownAverage, shownBatches, shownRequests>>

ScrapeBatches ==
  /\ scrape = "batches"
  /\ scrape' = "requests"
  /\ shownBatches' = TotalBatches
  /\ UNCHANGED <<batcherVars, shownAverage, shownSize, shownRequests>>

ScrapeRequests ==
  /\ scrape = "requests"
  /\ scrape' = "idle"
  /\ shownRequests' = TotalRequests
  /\ UNCHANGED <<batcherVars, shownAverage, shownSize, shownBatches>>

Scrape == ScrapeAverage \/ ScrapeSize \/ ScrapeBatches \/ ScrapeRequests

-----------------------------------------------------------------------------
Batcher ==
  \/ \E n \in BatchSizes : Execute(n)
  \/ CountBatch \/ CountRequests \/ StoreSize
  \/ \E latency \in Latencies : UpdateAverage(latency)

Next == Batcher \/ Scrape

Spec == Init /\ [][Next]_vars

-----------------------------------------------------------------------------
(***************************************************************************)
(* A scrape reads the batches before the requests (metrics.go 162, 165),   *)
(* and the batcher counts them in the same order (batcher.go 150-151), so  *)
(* what is shown does not fit together exactly.  But no executed batch is  *)
(* empty, and one batch at most is counted without its requests: there     *)
(* are never fewer requests than batches but one.                          *)
(***************************************************************************)
ScrapeAddsUp == scrape = "idle" => shownRequests >= shownBatches - 1

(***************************************************************************)
(* A scrape shows nothing without what came before it: the batcher counts  *)
(* a batch and its requests before it stores the size, and that before the *)
(* average (batcher.go 150-163); a scrape reads in the opposite order      *)
(* (metrics.go 80, 83, 162, 165), with batches ending in between.  So an   *)
(* average has a size, and a size has a batch and that many requests.      *)
(***************************************************************************)
ScrapeHasCause ==
  scrape = "idle" =>
    /\ shownAverage # 0 => shownSize # 0
    /\ shownSize # 0 => shownBatches # 0 /\ shownRequests >= shownSize

(***************************************************************************)
(* The truncation, which loses up to one millisecond on every batch        *)
(* (batcher.go 161), does not add up: the average never exceeds the        *)
(* longest batch, and is never more than three milliseconds below the      *)
(* shortest.                                                               *)
(***************************************************************************)
AverageInRange ==
  measured # {} => /\ \E longest \in measured : AvgLatencyMs <= longest
                   /\ \E shortest \in measured : AvgLatencyMs >= shortest - 3

=============================================================================
