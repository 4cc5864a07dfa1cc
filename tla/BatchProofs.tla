---------------------------- MODULE BatchProofs -----------------------------
(***************************************************************************)
(* Proofs about BatchExecution and its two parts: the counters, for any    *)
(* batch sizes, latencies and number of batches, and the executors, for    *)
(* any payloads, batch sizes and number of pixels.                         *)
(***************************************************************************)
EXTENDS BatchExecution, TLAPS

-----------------------------------------------------------------------------
(***************************************************************************)
(* The counters.                                                           *)
(***************************************************************************)
\* The batch in hand has a size from the moment it is taken, and the bound
\* has room for it.
Taken ==
  /\ pc # "idle" => batchSize \in BatchSizes
  /\ pc = "batches" => TotalBatches < MaxBatches

Typed == TypeOK /\ Taken

(***************************************************************************)
(* What ScrapeAddsUp needs: the requests counted keep up with the batches  *)
(* counted but for the one in between, and a scrape has read no batch that *)
(* was not there.                                                          *)
(***************************************************************************)
CountsKeepUp ==
  /\ TotalRequests + (IF pc = "requests" THEN 1 ELSE 0) >= TotalBatches
  /\ shownBatches <= TotalBatches

Counted == ScrapeAddsUp /\ CountsKeepUp

\* An average above 0 has been measured.
Averaged == AverageInRange /\ (AvgLatencyMs # 0 => measured # {})

(***************************************************************************)
(* The new average lies between the old one and the latency, and loses     *)
(* less than two milliseconds to the rounding.                             *)
(***************************************************************************)
LEMMA AverageBetween ==
  ASSUME NEW old \in Nat, NEW latency \in Nat,
         NEW new \in AverageAfter(old, latency)
  PROVE /\ new \in Nat
        /\ new <= old \/ new <= latency
        /\ \/ new = latency
           \/ /\ old # 0
              /\ 10 * new > 7 * old + 3 * latency - 11
<1>1. CASE old = 0
  BY <1>1 DEF AverageAfter
<1>2. CASE old # 0 /\ new = Weighted(old, latency)
  BY <1>2 DEF Weighted
<1>3. CASE old # 0 /\ new \in RoundedLow(old, latency)
  BY <1>3 DEF RoundedLow, Weighted
<1> QED
  BY <1>1, <1>2, <1>3 DEF AverageAfter

-----------------------------------------------------------------------------
(***************************************************************************)
(* Types.                                                                  *)
(***************************************************************************)
LEMMA TypeInit == Init => Typed
  BY CountersAssumption DEF Init, Typed, TypeOK, Taken

LEMMA TypeStep == Typed /\ [Next]_vars => Typed'
<1> SUFFICES ASSUME Typed, [Next]_vars PROVE Typed'
  OBVIOUS
<1> USE CountersAssumption DEF Typed, TypeOK, Taken
<1>1. ASSUME NEW n \in BatchSizes, Execute(n) PROVE Typed'
  BY <1>1 DEF Execute, BatchSizes, scrapeVars, shown
<1>2. CASE CountBatch
  BY <1>2 DEF CountBatch, scrapeVars, shown
<1>3. CASE CountRequests
  BY <1>3 DEF CountRequests, BatchSizes, scrapeVars, shown
<1>4. CASE StoreSize
  BY <1>4 DEF StoreSize, scrapeVars, shown
<1>5. ASSUME NEW latency \in Latencies, UpdateAverage(latency) PROVE Typed'
  <2>1. AvgLatencyMs' \in Nat
    BY <1>5, AverageBetween DEF UpdateAverage
  <2> QED
    BY <1>5, <2>1 DEF UpdateAverage, scrapeVars, shown
<1>6. CASE ScrapeAverage
  BY <1>6 DEF ScrapeAverage, batcherVars
<1>7. CASE ScrapeSize
  BY <1>7 DEF ScrapeSize, batcherVars
<1>8. CASE ScrapeBatches
  BY <1>8 DEF ScrapeBatches, batcherVars
<1>9. CASE ScrapeRequests
  BY <1>9 DEF ScrapeRequests, batcherVars
<1>10. CASE UNCHANGED vars
  BY <1>10 DEF vars, batcherVars, scrapeVars, shown
<1> QED
  BY <1>1, <1>2, <1>3, <1>4, <1>5, <1>6, <1>7, <1>8, <1>9, <1>10
  DEF Next, Batcher, Scrape

(***************************************************************************)
(* The counters and what a scrape has read of them have their types.       *)
(***************************************************************************)
THEOREM CountersTypeCorrect == Spec => []TypeOK
<1>1. Spec => []Typed
  BY TypeInit, TypeStep, PTL DEF Spec
<1> QED
  BY <1>1, PTL DEF Typed

-----------------------------------------------------------------------------
(***************************************************************************)
(* The scrape.                                                             *)
(***************************************************************************)
LEMMA CountedStep == Typed /\ Counted /\ [Next]_vars => Counted'
<1> SUFFICES ASSUME Typed, Counted, [Next]_vars PROVE Counted'
  OBVIOUS
<1> USE CountersAssumption
    DEF Typed, TypeOK, Taken, Counted, ScrapeAddsUp, CountsKeepUp
<1>1. ASSUME NEW n \in BatchSizes, Execute(n) PROVE Counted'
  BY <1>1 DEF Execute, scrapeVars, shown
<1>2. CASE CountBatch
  BY <1>2 DEF CountBatch, scrapeVars, shown
<1>3. CASE CountRequests
  BY <1>3 DEF CountRequests, BatchSizes, scrapeVars, shown
<1>4. CASE StoreSize
  BY <1>4 DEF StoreSize, scrapeVars, shown
<1>5. ASSUME NEW latency \in Latencies, UpdateAverage(latency) PROVE Counted'
  BY <1>5 DEF UpdateAverage, scrapeVars, shown
<1>6. CASE ScrapeAverage
  BY <1>6 DEF ScrapeAverage, batcherVars
<1>7. CASE ScrapeSize
  BY <1>7 DEF ScrapeSize, batcherVars
<1>8. CASE ScrapeBatches
  BY <1>8 DEF ScrapeBatches, batcherVars
<1>9. CASE ScrapeRequests
  BY <1>9 DEF ScrapeRequests, batcherVars
<1>10. CASE UNCHANGED vars
  BY <1>10 DEF vars, batcherVars, scrapeVars, shown
<1> QED
  BY <1>1, <1>2, <1>3, <1>4, <1>5, <1>6, <1>7, <1>8, <1>9, <1>10
  DEF Next, Batcher, Scrape

(***************************************************************************)
(* A scrape never shows fewer requests than batches but one, however the   *)
(* batcher's two additions fall between its two reads.                     *)
(***************************************************************************)
THEOREM ScrapesAddUp == Spec => []ScrapeAddsUp
<1>1. Init => Counted
  BY DEF Init, Counted, ScrapeAddsUp, CountsKeepUp
<1>2. Spec => [](Typed /\ Counted)
  BY <1>1, TypeInit, TypeStep, CountedStep, PTL DEF Spec
<1> QED
  BY <1>2, PTL DEF Counted

-----------------------------------------------------------------------------
(***************************************************************************)
(* What a scrape shows has its cause.  What is stored has: the counters    *)
(* are ahead of the size, and the size of the average.  What a scrape has  *)
(* read so far is therefore there when it reads on.                        *)
(***************************************************************************)
StoredHasCause ==
  /\ LastBatchSize <= TotalRequests
  /\ LastBatchSize # 0 => TotalBatches # 0
  /\ AvgLatencyMs # 0 => LastBatchSize # 0
  /\ pc \in {"requests", "size"} => TotalBatches # 0
  /\ pc = "size" => TotalRequests >= batchSize
  /\ pc = "average" => LastBatchSize # 0

ReadHasCause ==
  /\ scrape = "size" => (shownAverage # 0 => LastBatchSize # 0)
  /\ scrape # "size" => (shownAverage # 0 => shownSize # 0)
  /\ scrape = "batches" => (shownSize # 0 => TotalBatches # 0)
  /\ scrape = "requests" => (shownSize # 0 => shownBatches # 0)
  /\ scrape \in {"batches", "requests"} => TotalRequests >= shownSize

Caused == ScrapeHasCause /\ StoredHasCause /\ ReadHasCause

LEMMA CausedStep == Typed /\ Caused /\ [Next]_vars => Caused'
<1> SUFFICES ASSUME Typed, Caused, [Next]_vars PROVE Caused'
  OBVIOUS
<1> USE CountersAssumption
    DEF Typed, TypeOK, Taken, Caused, ScrapeHasCause, StoredHasCause,
        ReadHasCause
<1>1. ASSUME NEW n \in BatchSizes, Execute(n) PROVE Caused'
  BY <1>1 DEF Execute, scrapeVars, shown
<1>2. CASE CountBatch
  BY <1>2 DEF CountBatch, scrapeVars, shown
<1>3. CASE CountRequests
  BY <1>3 DEF CountRequests, BatchSizes, scrapeVars, shown
<1>4. CASE StoreSize
  BY <1>4 DEF StoreSize, BatchSizes, scrapeVars, shown
<1>5. ASSUME NEW latency \in Latencies, UpdateAverage(latency) PROVE Caused'
  BY <1>5 DEF UpdateAverage, scrapeVars, shown
<1>6. CASE ScrapeAverage
  BY <1>6 DEF ScrapeAverage, batcherVars
<1>7. CASE ScrapeSize
  BY <1>7 DEF ScrapeSize, batcherVars
<1>8. CASE ScrapeBatches
  BY <1>8 DEF ScrapeBatches, batcherVars
<1>9. CASE ScrapeRequests
  BY <1>9 DEF ScrapeRequests, batcherVars
<1>10. CASE UNCHANGED vars
  BY <1>10 DEF vars, batcherVars, scrapeVars, shown
<1> QED
  BY <1>1, <1>2, <1>3, <1>4, <1>5, <1>6, <1>7, <1>8, <1>9, <1>10
  DEF Next, Batcher, Scrape

(***************************************************************************)
(* However the batcher's updates fall between the reads of a scrape, it    *)
(* shows an average only with a size, and a size only with a batch and as  *)
(* many requests.                                                          *)
(***************************************************************************)
THEOREM ScrapesHaveCause == Spec => []ScrapeHasCause
<1>1. Init => Caused
  BY DEF Init, Caused, ScrapeHasCause, StoredHasCause, ReadHasCause
<1>2. Spec => [](Typed /\ Caused)
  BY <1>1, TypeInit, TypeStep, CausedStep, PTL DEF Spec
<1> QED
  BY <1>2, PTL DEF Caused

-----------------------------------------------------------------------------
(***************************************************************************)
(* The average.                                                            *)
(***************************************************************************)
LEMMA AveragedStep == Typed /\ Averaged /\ [Next]_vars => Averaged'
<1> SUFFICES ASSUME Typed, Averaged, [Next]_vars PROVE Averaged'
  OBVIOUS
<1>1. ASSUME NEW latency \in Latencies, UpdateAverage(latency) PROVE Averaged'
  <2> DEFINE old == AvgLatencyMs
             new == AvgLatencyMs'
  <2>1. /\ old \in Nat /\ latency \in Nat
        /\ measured \subseteq Nat
        /\ measured' = measured \cup {latency}
        /\ new \in AverageAfter(old, latency)
    BY <1>1, CountersAssumption DEF UpdateAverage, Typed, TypeOK
  <2>2. /\ new \in Nat
        /\ new <= old \/ new <= latency
        /\ \/ new = latency
           \/ old # 0 /\ 10 * new > 7 * old + 3 * latency - 11
    BY <2>1, AverageBetween
  <2>3. CASE new = latency
    BY <2>1, <2>3 DEF Averaged, AverageInRange
  <2>4. CASE old # 0 /\ 10 * new > 7 * old + 3 * latency - 11
    <3>1. PICK longest \in measured : old <= longest
      BY <2>4 DEF Averaged, AverageInRange
    <3>2. PICK shortest \in measured : old >= shortest - 3
      BY <2>4 DEF Averaged, AverageInRange
    <3>3. \E l \in measured' : new <= l
      BY <2>1, <2>2, <3>1
    <3>4. \E s \in measured' : new >= s - 3
      <4>1. shortest \in Nat
        BY <2>1
      <4>2. new >= shortest - 3 \/ new >= latency - 3
        <5> HIDE DEF old, new
        <5>1. old \in Nat /\ latency \in Nat /\ new \in Nat
          BY <2>1, <2>2
        <5>2. 10 * new > 7 * old + 3 * latency - 11
          BY <2>4
        <5>3. CASE shortest <= latency
          BY <3>2, <4>1, <5>1, <5>2, <5>3
        <5>4. CASE latency < shortest
          BY <3>2, <4>1, <5>1, <5>2, <5>4
        <5> QED
          BY <4>1, <5>1, <5>3, <5>4
      <4> QED
        BY <2>1, <4>2
    <3> QED
      BY <2>1, <3>3, <3>4 DEF Averaged, AverageInRange
  <2> QED
    BY <2>2, <2>3, <2>4
<1>2. CASE UNCHANGED <<AvgLatencyMs, measured>>
  BY <1>2 DEF Averaged, AverageInRange
<1> QED
  BY <1>1, <1>2 DEF Next, Batcher, Execute, CountBatch, CountRequests,
     StoreSize, Scrape, ScrapeAverage, ScrapeSize, ScrapeBatches,
     ScrapeRequests, vars, batcherVars

(***************************************************************************)
(* Truncation and floating-point rounding keep the average no more than    *)
(* three milliseconds below the shortest batch, whatever the latencies.    *)
(***************************************************************************)
THEOREM AverageStaysInRange == Spec => []AverageInRange
<1>1. Init => Averaged
  BY DEF Init, Averaged, AverageInRange
<1>2. Spec => [](Typed /\ Averaged)
  BY <1>1, TypeInit, TypeStep, AveragedStep, PTL DEF Spec
<1> QED
  BY <1>2, PTL DEF Averaged

-----------------------------------------------------------------------------
(***************************************************************************)
(* The executors.                                                          *)
(***************************************************************************)
OnnxSteps == {"fill", "tensor", "names", "run", "copy", "decode"}

-----------------------------------------------------------------------------
(***************************************************************************)
(* The runtime.  An executor is only made of a runtime that has all its    *)
(* parts, and nothing is taken from it again.                              *)
(***************************************************************************)
Started == /\ executor = "onnx" => loaded = Len(Parts)
           /\ step \in OnnxSteps => executor = "onnx"

LEMMA StartedInit == BatchInit => Started
  BY DEF BatchInit, ExecutorInit, Started, OnnxSteps

LEMMA StartedStep == Started /\ [BatchNext]_<<vars, executorVars>> => Started'
<1> SUFFICES ASSUME Started, [BatchNext]_<<vars, executorVars>> PROVE Started'
  OBVIOUS
<1> USE DEF Started, OnnxSteps
<1>1. CASE Boot
  BY <1>1 DEF Boot, UseSimulated, LoadPart, LoadFails, UseOnnx
<1>2. CASE Advance
  BY <1>2 DEF Advance, Simulate, FillRow, CreateTensor, GetNames, RunModel, Copy,
              DecodeRow, ForRow, Fail, Go, bootVars
<1>3. ASSUME NEW b, CallExecutor(b) PROVE Started'
  BY <1>3 DEF CallExecutor, ExecuteBatch, FirstStep, bootVars
<1>4. CASE GoOn
  BY <1>4 DEF GoOn, Return, bootVars
<1>5. CASE UNCHANGED executorVars
  BY <1>5 DEF executorVars, bootVars
<1> QED
  BY <1>1, <1>2, <1>3, <1>4, <1>5 DEF BatchNext

(***************************************************************************)
(* No batch goes to a runtime that a failed start has left half-made       *)
(* (onnx.go 47-57, 66).                                                    *)
(***************************************************************************)
THEOREM RuntimesAreComplete == BatchSpec => []RuntimeIsComplete
<1>1. BatchSpec => []Started
  BY StartedInit, StartedStep, PTL DEF BatchSpec
<1>2. Started => RuntimeIsComplete
  BY DEF Started, OnnxSteps, RuntimeIsComplete
<1> QED
  BY <1>1, <1>2, PTL

-----------------------------------------------------------------------------
(***************************************************************************)
(* What a batch may hold at each step.                                     *)
(***************************************************************************)
HeldByStep ==
  /\ BatchesReleaseAll
  /\ step \in {"fill", "tensor", "decode", "sleep"} => held = {}
  /\ step = "names" => held = {"tensor"}
  /\ step = "run" => held \subseteq {"tensor"} \cup Names \cup Statuses
  /\ step = "run" => (Names \subseteq held => held = {"tensor"} \cup Names)
  /\ step = "copy" => held = {"output"}
  /\ step \in {"idle", "fill", "tensor", "names", "run", "copy", "sleep"} => results = <<>>

LEMMA HeldStep ==
  HeldByStep /\ [BatchNext]_<<vars, executorVars>> => HeldByStep'
<1> SUFFICES ASSUME HeldByStep, [BatchNext]_<<vars, executorVars>>
             PROVE  HeldByStep'
  OBVIOUS
<1> USE DEF HeldByStep, BatchesReleaseAll
<1>1. CASE Boot
  BY <1>1 DEF Boot, UseSimulated, LoadPart, LoadFails, UseOnnx
<1>2. CASE Advance
  <2>1. CASE Simulate \/ FillRow \/ DecodeRow
    BY <2>1 DEF Simulate, FillRow, DecodeRow, ForRow
  <2>2. CASE CreateTensor
    BY <2>2 DEF CreateTensor, Go, Fail
  <2>3. CASE GetNames
    <3>1. PICK input \in {"input_name", "input_status"},
               output \in {"output_name", "output_status"} :
            held' = {"tensor", input, output}
      BY <2>3 DEF GetNames, Go
    <3>2. /\ held' \subseteq {"tensor"} \cup Names \cup Statuses
          /\ Names \subseteq held' => held' = {"tensor"} \cup Names
      BY <3>1 DEF Names, Statuses
    <3> QED
      BY <2>3, <3>2 DEF GetNames, Go
  <2>4. CASE RunModel
    BY <2>4 DEF RunModel, Go, Fail
  <2>5. CASE Copy
    BY <2>5 DEF Copy, Go
  <2> QED
    BY <1>2, <2>1, <2>2, <2>3, <2>4, <2>5 DEF Advance
<1>3. ASSUME NEW b, CallExecutor(b) PROVE HeldByStep'
  BY <1>3 DEF CallExecutor, ExecuteBatch, FirstStep
<1>4. CASE GoOn
  BY <1>4 DEF GoOn, Return
<1>5. CASE UNCHANGED executorVars
  BY <1>5 DEF executorVars
<1> QED
  BY <1>1, <1>2, <1>3, <1>4, <1>5 DEF BatchNext

(***************************************************************************)
(* Whichever calls of the runtime fail, each of the two name lookups on    *)
(* its own, a batch with results leaves nothing allocated behind, and a    *)
(* failed one only the statuses of names not found (onnx.go 79-115).       *)
(***************************************************************************)
THEOREM NothingLeaks == BatchSpec => []BatchesReleaseAll
<1>1. BatchInit => HeldByStep
  BY DEF BatchInit, ExecutorInit, HeldByStep, BatchesReleaseAll
<1>2. BatchSpec => []HeldByStep
  BY <1>1, HeldStep, PTL DEF BatchSpec
<1> QED
  BY <1>2, PTL DEF HeldByStep

-----------------------------------------------------------------------------
(***************************************************************************)
(* The counters go on as in BatchCounters, whichever executor there is.    *)
(***************************************************************************)
THEOREM CountersGoOn == BatchSpec => Spec
<1>1. BatchInit => Init
  BY DEF BatchInit
<1>2. [BatchNext]_<<vars, executorVars>> => [Next]_vars
  BY DEF BatchNext, CallExecutor, GoOn, Next, Batcher
<1> QED
  BY <1>1, <1>2, PTL DEF BatchSpec, Spec

(***************************************************************************)
(* So what scrapes show and what the average is holds of executeBatch with *)
(* either executor, in the specification that is model-checked.            *)
(***************************************************************************)
THEOREM BatchesAreCounted == BatchSpec => [](ScrapeHasCause /\ AverageInRange)
  BY CountersGoOn, ScrapesHaveCause, AverageStaysInRange, PTL

-----------------------------------------------------------------------------
(***************************************************************************)
(* Refinement of Executor.  Until a batch is done it has no results but    *)
(* those of the rows decoded so far, and the inputs of the rows filled so  *)
(* far are the images of their payloads.                                   *)
(***************************************************************************)
FilledRows == CASE step = "fill" -> row
                [] step \in OnnxSteps \ {"fill"} -> Len(batch)
                [] OTHER -> 0

Filled ==
  step \in OnnxSteps =>
    /\ DOMAIN inputData = 0 .. Len(batch) * Pixels - 1
    /\ \A i \in 0 .. FilledRows - 1, j \in 0 .. Pixels - 1 :
         inputData[i * Pixels + j] = Pixel(batch[i + 1], j)

Rows ==
  /\ batch \in Seq(Payloads)
  /\ row \in Nat
  /\ batch = <<>> <=> step = "idle"
  /\ step \in {"fill", "decode"} => row < Len(batch)
  /\ step \in OnnxSteps \ {"fill", "decode"} => row = 0

Computed ==
  /\ DOMAIN results = 1 .. Len(results) /\ Len(results) \in Nat
  /\ step \notin {"decode", "done"} => results = <<>>
  /\ step = "decode" => Len(results) = row
  /\ step = "done" /\ results # <<>> => Len(results) = Len(batch)
  /\ \A i \in DOMAIN results :
       i <= Len(batch) => results[i] \in PossibleResults(batch[i])

Faithful == Rows /\ Filled /\ Computed

(***************************************************************************)
(* Rows do not overlap in the flat slice.                                  *)
(***************************************************************************)
LEMMA RowsApart ==
  ASSUME NEW P \in Nat \ {0}, NEW i \in Nat, NEW r \in Nat, i < r
  PROVE  i * P + P <= r * P
<1>1. PICK d \in Nat : r = i + 1 + d
  <2>1. r - i - 1 \in Nat /\ r = i + 1 + (r - i - 1)
    OBVIOUS
  <2> QED
    BY <2>1
<1>2. r * P = i * P + P + d * P
  BY <1>1
<1>3. d * P \in Nat /\ i * P \in Nat
  OBVIOUS
<1> QED
  BY <1>2, <1>3

(***************************************************************************)
(* A batch that the batcher executes is not empty.                         *)
(***************************************************************************)
LEMMA PayloadBatches ==
  ASSUME NEW b \in BoundedSeq(Payloads, MaxBatchSize), Len(b) \in BatchSizes
  PROVE  b \in Seq(Payloads) \ {<<>>} /\ Len(b) \in Nat \ {0}
<1>1. PICK m \in 0 .. MaxBatchSize : b \in [1 .. m -> Payloads]
  BY DEF BoundedSeq, SeqOf
<1>2. b \in Seq(Payloads)
  BY <1>1, CountersAssumption
<1> QED
  BY <1>2, CountersAssumption DEF BatchSizes

LEMMA FaithfulInit == BatchInit => Faithful
  BY DEF BatchInit, ExecutorInit, Faithful, Rows, Filled, Computed, OnnxSteps

(***************************************************************************)
(* Filling a row makes it the image of its payload and leaves the others.  *)
(***************************************************************************)
LEMMA FillStep == Faithful /\ FillRow => Filled'
<1> SUFFICES ASSUME Faithful, FillRow PROVE Filled'
  OBVIOUS
<1> USE OnnxAssumption
<1> DEFINE n == Len(batch)
<1>1. /\ n \in Nat /\ row \in Nat /\ row < n /\ step = "fill" /\ batch' = batch
      /\ DOMAIN inputData = 0 .. n * Pixels - 1 /\ FilledRows = row
  BY DEF Faithful, Rows, Filled, FillRow, ForRow, FilledRows, OnnxSteps
<1>2. DOMAIN inputData' = 0 .. n * Pixels - 1
  BY <1>1 DEF FillRow
<1>3. ASSUME NEW k \in DOMAIN inputData, k \in Offset .. Offset + Pixels - 1
      PROVE  inputData'[k] = Pixel(batch[row + 1], k - Offset)
  BY <1>3 DEF FillRow
<1>4. ASSUME NEW i \in 0 .. row, NEW j \in 0 .. Pixels - 1
      PROVE  inputData'[i * Pixels + j] = Pixel(batch[i + 1], j)
  <2>0. i \in Nat /\ j \in Nat /\ i < n /\ i * Pixels \in Nat /\ row * Pixels \in Nat
        /\ i * Pixels + Pixels <= n * Pixels
    BY <1>1, RowsApart
  <2>1. i * Pixels + j \in DOMAIN inputData
    <3>1. n * Pixels \in Nat
      BY <1>1
    <3> QED
      BY <1>1, <2>0, <3>1
  <2>2. CASE i = row
    <3>1. i * Pixels + j \in Offset .. Offset + Pixels - 1
          /\ (i * Pixels + j) - Offset = j
      BY <2>0, <2>2 DEF Offset
    <3>2. inputData'[i * Pixels + j] = Pixel(batch[row + 1], (i * Pixels + j) - Offset)
      BY <2>1, <3>1, <1>3
    <3> QED
      BY <2>2, <3>1, <3>2
  <2>3. CASE i < row
    <3>1. i * Pixels + Pixels <= row * Pixels
      BY <1>1, <2>0, <2>3, RowsApart
    <3>2. i * Pixels + j \notin Offset .. Offset + Pixels - 1
      BY <2>0, <3>1 DEF Offset
    <3>3. inputData'[i * Pixels + j] = inputData[i * Pixels + j]
      BY <2>1, <3>2 DEF FillRow
    <3>4. inputData[i * Pixels + j] = Pixel(batch[i + 1], j)
      <4>1. i \in 0 .. FilledRows - 1
        BY <1>1, <2>0, <2>3
      <4> QED
        BY <1>1, <4>1 DEF Faithful, Filled, OnnxSteps
    <3> QED
      BY <3>3, <3>4
  <2> QED
    BY <1>1, <2>2, <2>3
<1>5. FilledRows' = row + 1
  BY <1>1 DEF FillRow, ForRow, FilledRows, OnnxSteps
<1> QED
  BY <1>1, <1>2, <1>4, <1>5 DEF Filled

(***************************************************************************)
(* Decoding a row gives a result that its payload may have.                *)
(***************************************************************************)
LEMMA DecodeStep ==
  Faithful /\ DecodeRow =>
    /\ Computed'
    /\ step' \in {"decode", "done"}
    /\ step' = "done" => results' # <<>> /\ Len(results') = Len(batch)
<1> SUFFICES ASSUME Faithful, DecodeRow
             PROVE  /\ Computed'
                    /\ step' \in {"decode", "done"}
                    /\ step' = "done" => results' # <<>> /\ Len(results') = Len(batch)
  OBVIOUS
<1> USE OnnxAssumption
<1> DEFINE inputs == [j \in 1 .. Pixels |-> inputData[Offset + j - 1]]
<1>1. /\ Len(batch) \in Nat /\ row \in Nat /\ row < Len(batch) /\ batch' = batch
      /\ step = "decode" /\ DOMAIN results = 1 .. row /\ Len(results) = row
      /\ FilledRows = Len(batch)
  BY DEF Faithful, Rows, Computed, DecodeRow, ForRow, FilledRows, OnnxSteps
<1>2. inputs = Image(batch[row + 1])
  <2>1. ASSUME NEW j \in 1 .. Pixels
        PROVE  inputData[Offset + j - 1] = Pixel(batch[row + 1], j - 1)
    <3>1. row \in 0 .. FilledRows - 1 /\ j - 1 \in 0 .. Pixels - 1
      BY <1>1
    <3>2. inputData[row * Pixels + (j - 1)] = Pixel(batch[row + 1], j - 1)
      BY <1>1, <3>1 DEF Faithful, Filled, OnnxSteps
    <3>3. Offset + j - 1 = row * Pixels + (j - 1)
      BY <1>1 DEF Offset
    <3> QED
      BY <3>2, <3>3
  <2> QED
    BY <2>1 DEF Image
<1> HIDE DEF inputs
<1>3. results' = Append(results, Decoded(inputs))
  BY DEF DecodeRow, inputs
<1>4. /\ DOMAIN results' = 1 .. row + 1 /\ Len(results') = row + 1
      /\ \A i \in 1 .. row : results'[i] = results[i]
      /\ results'[row + 1] = Decoded(inputs)
  BY <1>1, <1>3
<1>5. Decoded(inputs) \in PossibleResults(batch[row + 1])
  BY <1>2 DEF PossibleResults
<1>6. \A i \in DOMAIN results' :
        i <= Len(batch) => results'[i] \in PossibleResults(batch[i])
  BY <1>1, <1>4, <1>5 DEF Faithful, Computed
<1>7. /\ step' \in {"decode", "done"} /\ row' \in Nat
      /\ step' = "decode" => row' = row + 1
      /\ step' = "done" => row + 1 = Len(batch)
  BY <1>1 DEF DecodeRow, ForRow
<1>8. results' # <<>>
  BY <1>1, <1>4
<1>9. Len(results') \in Nat /\ DOMAIN results' = 1 .. Len(results')
  BY <1>1, <1>4
<1> QED
  BY <1>1, <1>4, <1>6, <1>7, <1>8, <1>9 DEF Computed

LEMMA FaithfulStep ==
  Faithful /\ [BatchNext]_<<vars, executorVars>> => Faithful'
<1> SUFFICES ASSUME Faithful, [BatchNext]_<<vars, executorVars>> PROVE Faithful'
  OBVIOUS
<1> USE DEF Faithful, Rows, Filled, Computed, FilledRows, OnnxSteps
<1>1. CASE Boot
  BY <1>1 DEF Boot, UseSimulated, LoadPart, LoadFails, UseOnnx
<1>2. CASE Simulate
  BY <1>2 DEF Simulate, PossibleResults
<1>3. CASE FillRow
  <2>1. Filled'
    BY <1>3, FillStep
  <2>2. Rows' /\ Computed'
    BY <1>3 DEF FillRow, ForRow
  <2> QED
    BY <2>1, <2>2
<1>4. CASE CreateTensor \/ GetNames \/ RunModel \/ Copy
  BY <1>4 DEF CreateTensor, GetNames, RunModel, Copy, Go, Fail
<1>5. CASE DecodeRow
  <2>1. Computed'
    BY <1>5, DecodeStep
  <2>2. Rows' /\ Filled'
    BY <1>5 DEF DecodeRow, ForRow
  <2> QED
    BY <2>1, <2>2
<1>6. ASSUME NEW b \in BoundedSeq(Payloads, MaxBatchSize), CallExecutor(b)
      PROVE  Faithful'
  BY <1>6, PayloadBatches DEF CallExecutor, ExecuteBatch, FirstStep
<1>7. CASE GoOn
  BY <1>7 DEF GoOn, Return
<1>8. CASE UNCHANGED executorVars
  BY <1>8 DEF executorVars
<1> QED
  BY <1>1, <1>2, <1>3, <1>4, <1>5, <1>6, <1>7, <1>8 DEF BatchNext, Advance

(***************************************************************************)
(* The reply that a batch has got, as Contract maps it.                    *)
(***************************************************************************)
Reply == CASE step # "done" -> <<"none">>
           [] step = "done" /\ results = <<>> -> <<"error">>
           [] OTHER -> <<"ok", results>>

LEMMA SucceedStep ==
  ASSUME Faithful, step # "done", step # "idle", step' = "done",
         UNCHANGED batch, results' # <<>>, Len(results') = Len(batch),
         \A i \in DOMAIN batch : results'[i] \in PossibleResults(batch[i])
  PROVE  Contract!Succeed
<1>1. Reply = <<"none">> /\ Reply' = <<"ok", results'>>
  BY DEF Reply
<1>2. batch # <<>>
  BY DEF Faithful, Rows
<1> QED
  BY <1>1, <1>2 DEF Contract!Succeed, Reply

LEMMA FailStep ==
  ASSUME Faithful, NEW from, from \notin {"done", "idle"}, Fail(from)
  PROVE  Contract!Fail
<1>1. Reply = <<"none">> /\ Reply' = <<"error">>
  BY DEF Reply, Fail
<1>2. batch # <<>> /\ batch' = batch
  BY DEF Faithful, Rows, Fail
<1> QED
  BY <1>1, <1>2 DEF Contract!Fail, Reply

LEMMA ContractStep ==
  Faithful /\ Faithful' /\ [BatchNext]_<<vars, executorVars>>
    => [Contract!Next]_<<batch, Reply>>
<1> SUFFICES ASSUME Faithful, Faithful', [BatchNext]_<<vars, executorVars>>
             PROVE  Contract!Next \/ UNCHANGED <<batch, Reply>>
  OBVIOUS
<1> USE DEF Contract!Next
<1>1. CASE Boot
  BY <1>1 DEF Boot, UseSimulated, LoadPart, LoadFails, UseOnnx, Reply
<1>2. CASE Simulate
  <2>1. /\ step = "sleep" /\ step' = "done" /\ UNCHANGED batch
        /\ results' = [i \in DOMAIN batch |-> <<"simulated">>]
    BY <1>2 DEF Simulate
  <2>2. batch \in Seq(Payloads) /\ batch # <<>>
    BY <2>1 DEF Faithful, Rows
  <2>3. /\ results' # <<>> /\ Len(results') = Len(batch)
        /\ \A i \in DOMAIN batch : results'[i] \in PossibleResults(batch[i])
    BY <2>1, <2>2 DEF PossibleResults
  <2> QED
    BY <2>1, <2>3, SucceedStep
<1>3. CASE FillRow
  BY <1>3 DEF FillRow, ForRow, Reply
<1>4. CASE CreateTensor
  BY <1>4, FailStep DEF CreateTensor, Go, Reply
<1>5. CASE GetNames \/ Copy
  BY <1>5 DEF GetNames, Copy, Go, Reply
<1>6. CASE RunModel
  BY <1>6, FailStep DEF RunModel, Go, Reply
<1>7. CASE DecodeRow
  <2>1. step = "decode" /\ UNCHANGED batch /\ batch \in Seq(Payloads)
    BY <1>7 DEF DecodeRow, ForRow, Faithful, Rows
  <2>2. CASE step' = "decode"
    BY <2>1, <2>2 DEF Reply
  <2>3. CASE step' = "done"
    <3>1. results' # <<>> /\ Len(results') = Len(batch)
      BY <1>7, <2>3, DecodeStep
    <3>2. \A i \in DOMAIN results' :
            i <= Len(batch) => results'[i] \in PossibleResults(batch[i])
      BY <1>7, <2>1, DecodeStep DEF Computed
    <3>3. DOMAIN results' = 1 .. Len(results')
      BY <1>7, DecodeStep DEF Computed
    <3> QED
      BY <2>1, <2>3, <3>1, <3>2, <3>3, SucceedStep
  <2> QED
    BY <1>7, <2>2, <2>3, DecodeStep
<1>8. ASSUME NEW b \in BoundedSeq(Payloads, MaxBatchSize), CallExecutor(b)
      PROVE  Contract!ExecuteBatch
  <2>1. step = "idle" /\ batch' = b /\ step' # "done" /\ b \in Seq(Payloads) \ {<<>>}
    BY <1>8, PayloadBatches DEF CallExecutor, ExecuteBatch, FirstStep
  <2>2. batch = <<>> /\ Reply = <<"none">> /\ Reply' = <<"none">>
    BY <2>1 DEF Faithful, Rows, Reply
  <2> QED
    BY <2>1, <2>2 DEF Contract!ExecuteBatch, Reply
<1>9. CASE GoOn
  <2>1. step = "done" /\ step' = "idle" /\ batch' = <<>>
    BY <1>9 DEF GoOn, Return
  <2>2. Reply # <<"none">> /\ Reply' = <<"none">>
    BY <2>1 DEF Reply
  <2> QED
    BY <2>1, <2>2 DEF Contract!Return, Reply
<1>10. CASE UNCHANGED executorVars
  BY <1>10 DEF executorVars, Reply
<1> QED
  BY <1>1, <1>2, <1>3, <1>4, <1>5, <1>6, <1>7, <1>8, <1>9, <1>10 DEF BatchNext, Advance

(***************************************************************************)
(* Whichever executor a worker has, and whatever fails, what it returns is *)
(* what Executor promises: one result per payload, each computed from its  *)
(* own, or an error (interface.go 3-12, onnx.go 186-280).                  *)
(***************************************************************************)
THEOREM ExecutorIsImplemented == BatchSpec => ImplementsExecutor
<1>1. BatchInit => Contract!Init
  BY DEF BatchInit, ExecutorInit, Contract!Init
<1>2. BatchSpec => []Faithful
  BY FaithfulInit, FaithfulStep, PTL DEF BatchSpec
<1> QED
  BY <1>1, <1>2, ContractStep, PTL
  DEF BatchSpec, ImplementsExecutor, Contract!Spec, Reply

-----------------------------------------------------------------------------
(***************************************************************************)
(* The executors' variables have their types.                              *)
(***************************************************************************)
Inputs == inputData \in [0 .. Len(batch) * Pixels - 1 -> 0 .. 255]

Sized ==
  /\ loaded \in 0 .. Len(Parts)
  /\ executor \in {"none", "simulated", "onnx"}
  /\ step \in OnnxSteps \cup {"idle", "sleep", "done"}
  /\ step \notin OnnxSteps => row = 0
  /\ Inputs
  /\ held \subseteq Holdings

LEMMA PixelIsByte ==
  ASSUME NEW p \in Payloads, NEW j \in Nat PROVE Pixel(p, j) \in 0 .. 255
<1>1. p \in Seq(0 .. 255) /\ Len(p) \in Nat
  BY OnnxAssumption
<1>2. CASE j < Len(p) \div 4
  <2>1. j < Len(p)
    <3>1. \A n \in Nat : j < n \div 4 => j < n
      OBVIOUS
    <3> QED
      BY <1>1, <1>2, <3>1
  <2>2. j % Len(p) \in 0 .. Len(p) - 1
    BY <1>1, <2>1
  <2>3. Pixel(p, j) = p[(j % Len(p)) + 1] /\ (j % Len(p)) + 1 \in 1 .. Len(p)
    BY <1>1, <1>2, <2>2 DEF Pixel
  <2>4. \A i \in 1 .. Len(p) : p[i] \in 0 .. 255
    <3>1. \A S : p \in Seq(S) => \A i \in 1 .. Len(p) : p[i] \in S
      OBVIOUS
    <3> QED
      BY <1>1, <3>1
  <2> QED
    BY <2>3, <2>4
<1>3. CASE ~(j < Len(p) \div 4)
  BY <1>3 DEF Pixel, Pad
<1> QED
  BY <1>2, <1>3

LEMMA SizedInit == BatchInit => Sized
<1> SUFFICES ASSUME BatchInit PROVE Sized
  OBVIOUS
<1>1. Len(batch) * Pixels - 1 = -1
  BY OnnxAssumption DEF BatchInit, ExecutorInit
<1>2. Inputs
  <2>1. 0 .. Len(batch) * Pixels - 1 = {}
    BY <1>1
  <2> QED
    BY <2>1 DEF BatchInit, ExecutorInit, Inputs, NoInput
<1> QED
  BY <1>2 DEF BatchInit, ExecutorInit, Sized, OnnxSteps, Parts

LEMMA SizedStep ==
  Faithful /\ Sized /\ [BatchNext]_<<vars, executorVars>> => Sized'
<1> SUFFICES ASSUME Faithful, Sized, [BatchNext]_<<vars, executorVars>>
             PROVE  Sized'
  OBVIOUS
<1>0. UNCHANGED <<batch, inputData>> => Inputs'
  BY DEF Sized, Inputs
<1>10. Len(Parts) = 5
  BY DEF Parts
<1> USE DEF Sized, OnnxSteps
<1>1. CASE Boot
  <2>1. Inputs'
    BY <1>0, <1>1 DEF Boot, UseSimulated, LoadPart, LoadFails, UseOnnx
  <2>2. loaded' \in 0 .. Len(Parts)
    BY <1>10, <1>1 DEF Boot, UseSimulated, LoadPart, LoadFails, UseOnnx
  <2> QED
    BY <1>10, <1>1, <2>1, <2>2 DEF Boot, UseSimulated, LoadPart, LoadFails, UseOnnx
<1>2. CASE FillRow
  <2>1. batch[row + 1] \in Payloads
    BY <1>2 DEF FillRow, ForRow, Faithful, Rows
  <2>2. row * Pixels \in Nat
    BY OnnxAssumption DEF Faithful, Rows
  <2>3. ASSUME NEW k \in DOMAIN inputData PROVE inputData'[k] \in 0 .. 255
    <3>1. CASE k \in Offset .. Offset + Pixels - 1
      <4>1. k - Offset \in Nat
        BY <2>2, <2>3, <3>1 DEF Offset
      <4> QED
        BY <1>2, <2>1, <2>3, <3>1, <4>1, PixelIsByte DEF FillRow
    <3>2. CASE k \notin Offset .. Offset + Pixels - 1
      BY <1>2, <2>3, <3>2 DEF FillRow, Inputs
    <3> QED
      BY <3>1, <3>2
  <2>4. inputData' \in [DOMAIN inputData -> 0 .. 255]
    BY <1>2, <2>3 DEF FillRow
  <2>5. Inputs'
    BY <1>2, <2>4 DEF FillRow, Inputs
  <2> QED
    BY <1>2, <2>5 DEF FillRow, ForRow, bootVars
<1>3. CASE Simulate \/ DecodeRow
  BY <1>0, <1>3 DEF Simulate, DecodeRow, ForRow, bootVars
<1>7. CASE CreateTensor \/ GetNames
  <2>1. Inputs'
    BY <1>0, <1>7 DEF CreateTensor, GetNames, Go, Fail
  <2>2. held' \subseteq Holdings
    BY <1>0, <1>7 DEF CreateTensor, GetNames, Go, Fail, Holdings, Names, Statuses
  <2> QED
    BY <1>7, <2>1, <2>2 DEF CreateTensor, GetNames, Go, Fail, bootVars, Faithful, Rows
<1>8. CASE RunModel \/ Copy
  <2>1. Inputs'
    BY <1>0, <1>8 DEF RunModel, Copy, Go, Fail
  <2>2. held' \subseteq Holdings
    BY <1>0, <1>8 DEF RunModel, Copy, Go, Fail, Holdings
  <2> QED
    BY <1>8, <2>1, <2>2 DEF RunModel, Copy, Go, Fail, bootVars, Faithful, Rows
<1>4. ASSUME NEW b, CallExecutor(b) PROVE Sized'
  <2>1. Inputs'
    BY <1>4 DEF CallExecutor, ExecuteBatch, Inputs
  <2> QED
    BY <1>4, <2>1 DEF CallExecutor, ExecuteBatch, FirstStep, bootVars
<1>5. CASE GoOn
  <2>1. batch' = <<>> /\ Len(batch') * Pixels - 1 = -1
    BY <1>5, OnnxAssumption DEF GoOn, Return
  <2>2. 0 .. Len(batch') * Pixels - 1 = {}
    BY <2>1
  <2>3. Inputs'
    BY <1>5, <2>1, <2>2 DEF GoOn, Return, NoInput, Inputs
  <2> QED
    BY <1>5, <2>3 DEF GoOn, Return, bootVars
<1>6. CASE UNCHANGED executorVars
  BY <1>0, <1>6 DEF executorVars, bootVars
<1> QED
  BY <1>1, <1>2, <1>3, <1>4, <1>5, <1>6, <1>7, <1>8 DEF BatchNext, Advance

(***************************************************************************)
(* Type correctness of the executors, whichever call of the runtime fails: *)
(* there are as many inputs as the rows of the batch need, all of them     *)
(* bytes, and never more results than payloads.                            *)
(***************************************************************************)
THEOREM ExecutorTypeCorrect == BatchSpec => []ExecutorTypeOK
<1>1. BatchSpec => [](Faithful /\ Sized)
  BY FaithfulInit, FaithfulStep, SizedInit, SizedStep, PTL DEF BatchSpec
<1>2. Faithful /\ Sized => ExecutorTypeOK
  <2> SUFFICES ASSUME Faithful, Sized PROVE ExecutorTypeOK
    OBVIOUS
  <2>1. batch \in Seq(Payloads) /\ Len(batch) \in Nat /\ row \in Nat
    BY DEF Faithful, Rows
  <2>2. row <= Len(batch)
    BY <2>1 DEF Faithful, Rows, Sized, OnnxSteps
  <2>3. Len(results) <= Len(batch)
    <3>1. CASE results = <<>>
      BY <2>1, <3>1
    <3>2. CASE results # <<>>
      <4>1. step \in {"decode", "done"}
        BY <3>2 DEF Faithful, Computed
      <4>2. Len(results) = row \/ Len(results) = Len(batch)
        BY <3>2, <4>1 DEF Faithful, Computed
      <4> QED
        BY <2>1, <2>2, <4>2
    <3> QED
      BY <3>1, <3>2
  <2>4. \A x \in ToSet(batch) : x \in Payloads
    BY <2>1 DEF ToSet
  <2>5. /\ DOMAIN inputData = 0 .. Len(batch) * Pixels - 1
        /\ \A k \in DOMAIN inputData : inputData[k] \in 0 .. 255
    BY DEF Sized, Inputs
  <2> QED
    BY <2>1, <2>2, <2>3, <2>4, <2>5 DEF ExecutorTypeOK, Sized, OnnxSteps
<1> QED
  BY <1>1, <1>2, PTL
=============================================================================
