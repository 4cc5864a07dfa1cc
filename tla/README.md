# GPU-Aware Batch Router: verification project

TLA+ modules for the concurrent core of the router and its workers, the TLC
configurations that check them on small instances, and TLAPS proofs for every
value of the constants. Paths are relative to the repository (`src/` is its
root here); line numbers refer to the commit beside this directory.

## 1. The system

A client calls `Infer` on the **router**, which forwards the call to one of its
**workers**; the worker queues the request, executes it in a batch, and answers.

| Component | State | Operations | Interacts with |
|---|---|---|---|
| Priority queue (`pkg/worker/queue.go`) | heap in a slice, index fields, mutex | `Enqueue`, `DequeueN`, `Depth` | handlers and batcher of the worker, through one mutex |
| Batcher (`pkg/worker/batcher.go`) | goroutine, `notify` channel (256), `stopCh`, `currentWait`, counters | `Start`, `Stop`, `Signal`, `loop`, `collectBatch`, `executeBatch`, `adaptWait`, `drainRemaining` | takes signals, dequeues, calls the executor, answers on `DoneCh`/`ErrCh` |
| Worker handlers (`pkg/worker/server.go`) | one goroutine per call, `DoneCh`, `ErrCh` (one place each) | `Infer`, `GetMetrics` | enqueue, signal, wait for answer or cancellation |
| Executor (`pkg/worker/executor`, `executor_*.go`) | simulated: none; ONNX: the globals of the runtime, the slices of a batch | `createExecutor`, `ExecuteBatch` | called by the batcher, one batch at a time |
| Worker metrics (`pkg/worker/metrics.go`) | simulated gauges, `inFlight` | `GetMetrics`, `simulationLoop`, `ServePrometheus` | reads queue depth and batcher counters |
| Router handlers (`pkg/router/router.go`) | attempt loop per call, routing counters | `Infer`, `pickBestWorker`, `broadcastState` | registry, workers |
| Registry (`pkg/router/registry.go`) | `Healthy`, `FailCount`, `Metrics` per worker, RW mutex | `Connect`, `GetHealthy`, `UpdateMetrics`, `MarkFailed`, `Close` | written by handlers and polls |
| Poller (`pkg/router/poller.go`) | one round at a time, `stopCh` | `pollAll`, `Stop` | one goroutine per worker and round |
| Scorer (`pkg/router/scorer.go`) | none | `Score` | reads metrics |
| Broadcaster (`pkg/router/broadcast.go`) | set of WebSocket clients | `HandleWS`, `Broadcast` | ticks every 500 ms |
| Configuration (`pkg/config`) | none | `Load`, `envInt` | both processes, at their start |
| Processes (`cmd/worker`, `cmd/router`) | the step of `main`, goroutines of the servers | start, signal, `GracefulStop`, `Stop`, `log.Fatalf` | all of the above |
| Load test (`scripts/loadtest.go`) | client goroutines, atomic totals, latencies under a mutex | one call after the other, report | a router or a worker, by `Infer` |
| NVML binding, dashboard page, generated code, deployment | | | not modelled, see section 7 |

What makes each part correct, and what is hard about it:

* **Queue.** `DequeueN` returns the most urgent requests in order and loses
  none. Hard: a long sequence of pushes and pops through an index-juggling heap.
* **Worker.** An accepted request is answered exactly once, with its own
  result, or its caller has gone; the batcher never blocks and never sleeps
  while there is work; a shutdown drains. Hard: signals are dropped when the
  buffer is full and swallowed by collections that do not dequeue, depth and
  dequeue are separate critical sections, cancelled calls leave their requests
  and channels behind, batches fail as a whole, `stopCh` closes at any point.
* **Router and registry.** A worker that is gone is excluded, one that is back
  is used, calls return. Hard: calls and polls report on a worker concurrently,
  reports are late, and the worker crashes and restarts meanwhile.
* **Router with workers.** What a client is told and the router counts was
  executed, and a request is executed again only after an attempt that ended
  without an answer. Hard: attempts time out while their copies stay queued,
  batches mix copies of several calls, workers crash and forget.
* **Executor.** A result per payload, from its own payload, or an error; what a
  batch allocates it gives back. Hard: each of the C calls may fail, the rows
  of a batch share one slice, a start that fails half-way leaves globals set.
* **Processes and load test.** A shutdown cuts no call off and ends; the report
  of a test adds up and comes. Hard: signals before `Notify`, failing servers,
  settings out of range, calls that outlive their clients.
* **Metrics.** Counts that a scrape reads one by one fit together, the moving
  average stays among what was measured, gauges stay in range and follow the
  load. Hard: no lock spans two counters, integers are truncated at every step,
  the caps are only reached under heavy load.
* **Choice of the worker.** The best are offered and each of them can get the
  call. Hard: workers are scored without the lock while polls and failures
  change what is read; ties.
* **Dashboard.** Nothing is written to a closed connection, clients that read
  are shown every change, snapshots are consistent enough. Hard: a map changed
  under a read lock, two goroutines that both notice a broken connection, a
  write that may never return while the lock is held.

`PROJECT.json` lists each hazard at its line with the properties aimed at it.

## 2. Modules

| Module | What it is |
|---|---|
| `RequestOrder` | the order `Less` and `Dequeues(q, n)`, the sequences `DequeueN(n)` may return from a set `q` |
| `RequestQueue` | abstract queue: a set, `Enqueue`, `DequeueN` |
| `HeapQueue`, `HeapQueueProofs` | the slice, `Less`, `Swap`, `Push`, `Pop`, with `container/heap`; implements `RequestQueue`; proofs |
| `Loops`, `Induction` | a loop as the sequence of its states; induction, loops and sums for the proofs |
| `BatchService` | what a worker promises its callers, without queue, channels or goroutines |
| `Worker` | handlers, batcher and shutdown of one worker; implements `BatchService` |
| `WorkerInvariants` | the inductive strengthenings of `Worker`'s invariants |
| `WorkerProofs` | TLAPS proofs about `Worker` |
| `Router` | handlers, registry, poller and shutdown of the router; workers as environment |
| `RouterBudget`, `RouterHistory` | `Router` with history variables |
| `InferenceService` | what router and workers together promise the clients, without attempts, workers or batches |
| `Cluster`, `ClusterProofs` | `Router` composed with `BatchService` workers that crash; implements `InferenceService`; proofs about it, `Router` and `RouterBudget` |
| `Score`, `Picker`, `PickerProofs` | the score of a worker, and the choice among the best while polls go on; proofs, also about `GpuGauges`, which makes the metrics |
| `Dashboard`, `DashboardProofs` | clients of the broadcaster and the snapshots they are sent; proofs |
| `BatchCounters` | the batcher's counters, its moving average, a scrape |
| `Executor` | what `GPUExecutor` promises the batcher |
| `OnnxExecutor` | the start of the runtime, `ExecuteBatch` and `ort_run_batch` call by call, and the simulated executor |
| `BatchExecution`, `BatchProofs` | `OnnxExecutor` composed with `BatchCounters`; implements `Executor`; proofs about executor and counters |
| `GpuGauges` | the simulated utilization and memory of a worker under its load |
| `Config` | the settings, as far as they decide whether a process works |
| `Process` | `main` of the router or the worker, from start to exit |
| `LoadTest`, `LoadTestProofs` | the load test against a `Process`; proofs |
| `MC...` | instances for TLC |

What is composed with what: `Worker` uses `RequestOrder` for its queue, of which
`HeapQueue` is the implementation (refinement of `RequestQueue`), and implements
`BatchService`; `Cluster` puts `Router` in front of `BatchService`, and
implements `InferenceService`; `BatchExecution` joins executor and counters;
`LoadTest` drives `Process`.

### Worker and the code

Each Go statement that touches shared state is one action: `Infer(r)` is lines
81-93 of `server.go` up to the enqueue, `Signal(r)` the non-blocking send, and
`ReturnResponse`, `ReturnError`, `ReturnCancelled` are the cases of the select.
The batcher's `pc` names the places where it can be interrupted: `idle` is the
select of `loop`, `collect` the read of the depth at `batcher.go:108`, `select`
the select of `collectBatch`, `recheck` the second read at line 126, `flush`
the call of `DequeueN`, `execute` the executor, `deliver` the loop that
answers, one step per request. `collectBatch` and `drainRemaining` share
`Flush`; `draining` tells where to go afterwards. Both end the loop in the same
way as the code: an empty batch sends `loop` back to its select, and
`drainRemaining` home.

A member of `Requests` is a call with its `PendingRequest`. An identity is used
again when nothing refers to it any more, so `Cardinality(Requests)` bounds the
requests *outstanding*, cancelled ones still queued included, and behaviours
serve any number of requests. A result is represented by the request whose
payload it was computed from, which is what lets `AnswerIsOwn` tell a swapped
answer from a right one. Batch timers may fire at any time: no clock.

### Router and the code

`Forward(c, w)` is `pickBestWorker` with the start of the remote call: the
scores are left out, so any healthy worker may be chosen. This allows more than
the code, which chooses among the three best; with up to three healthy workers
it is the same set. A failed attempt takes two steps, the error and then
`MarkFailed` (`Retry`, `GiveUp`), because polls and crashes can fall between
them; so does a poll, the answer and then `PollDone`. `failCount` saturates at
`FailLimit`, which is all the code tests, so nothing is lost. `UpdateMetrics`
sets `healthy` because a worker reports itself healthy in every answer
(`worker/metrics.go:84`). `connected` may leave out workers whose client could
not be made.

### Cluster and the code

Every attempt of a call sends a copy of its request, `<<c, attempt>>`, to one
worker. The copy lives on when the router has given the attempt up
(`LoseTouch`, the ten seconds of `router.go:132` or a broken connection): it
stays in the worker's queue and may be executed (`Run`) or answered to nobody
(`Abandon`). The workers are one instance of `BatchService` over all copies,
and each batch holds copies that are at one worker. `Send` either arrives or
does not. `WorkerCrash` forgets what is at the worker; `executed` and `silent`
are history. Of the poller only what it records is here, at any time
(`Polled`); rounds and shutdown are in `Router`.

`InferenceService` has a call that is open, answered or failed, and how often
its request was executed. It does not promise exactly one execution: a request
may be executed once more for each attempt that ended in silence, also after
the call has returned.

### HeapQueue and the code

Operations hold `mu` and are one step each. `Up` and `Down` are
`container/heap`, outside the repository, modelled from its documentation and
the calls at `queue.go:39` and `55`; they work only through the repository's
`Less` and `Swap`. Each of the two is a loop that moves an item to its parent or
to its first child, and the loop of `DequeueN` pops one request per round; a
loop is the sequence of its states (`Rounds`), which stays where it is once the
loop is over, and which needs no recursive operator.

### Dashboard and the code

`sock[c]` is the state of a connection and `reader[c]` how far `HandleWS` and
its goroutine are with it. `Register` and `Remove` take `mu` for writing and
wait while `Broadcast` holds it for reading (`push = "writing"`). `Broadcast`
writes to one client at a time: `WriteOk` when the message goes out or into a
buffer, `WriteError` when the connection is broken, which closes and deletes
it. A stalled peer does not read; once the buffers are full a write to it
waits, which is a `WriteOk` that does not happen. `broadcastState` reads the
total first and then one counter per worker, each in a step of its own.
The entries about workers in a snapshot (health, metrics) are left out, and so
is the error of `json.Marshal` (`broadcast.go:83`), which a snapshot
without infinite or undefined numbers does not cause.

### Executor, OnnxExecutor, BatchExecution and the code

`step` is where the batch is: `fill` the loop over the rows of `onnx.go:204`,
`tensor` to `copy` the calls of `ort_run_batch`, `decode` the loop over the rows
of the output, `sleep` the simulated executor. Each call of ONNX Runtime
succeeds or fails, each of the two name lookups (`GetNames`) on its own; `held`
is what has been allocated for the batch and not released. Rows
share the flat slice `inputData`, with bytes in place of floats, and an output
row stands for the input row it was computed from, so that `ImplementsExecutor`
tells whether a result belongs to its payload. A row whose outputs are not all
numbers gives an empty result, since the error of `json.Marshal` is ignored.
`ort_init` makes five parts one after the other, and a start that fails falls
back to the simulation with the parts still there. The result also tells the
place of the payload in its batch (`batch_pos`), which is left out: with it two
equal payloads would differ. CUDA or not makes no difference here.

`BatchExecution` is `executeBatch`: counters go on when the executor returns,
whether with results or with an error.

### BatchCounters, GpuGauges and the code

`executeBatch` updates four atomic variables, in the order of `pc`; a request
of `/metrics` reads all four in the opposite order (`GetMetrics`, then
`ServePrometheus`), each in a step of its own. The EMA is `7/10 * old + 3/10 *
new` in a float, truncated: `RoundedLow` allows for the result one lower that
float arithmetic gives when the exact one is whole.

`GpuGauges` keeps the utilization in whole points, where the code has a float,
and lets a tick round down or up. Rounding either way stays within a point of
the exact value, and one of the two choices keeps some behaviour less than a
point from the float, so three points in `GaugesSettled` stand for four in the
code. The temperature is left out: a tenth of the way to a function of the
utilization per tick, plus noise.

### Score, Picker and the code

Scores are whole tenths of a point. `NewRegistry` gives an entry metrics of
5 GB free of 5 before the first poll (`Unpolled`), which score 100. No entry
has metrics that are missing or unhealthy, so that branch of `Score` is left
out. `ScoreNext` reads one entry at a time, in any order as Go's map ranges do;
`UpdateMetrics` and `Exclude` come in between. The random number is abstracted
to the set of workers it may hit.

### Config, Process, LoadTest and the code

Both `main` functions take the same steps; `role` tells which one it is. `main`
is the step that comes next, `exit` how the process ended: at a `log.Fatalf`
(`create`, `listen`, `web`, `serve`), by a panic, by a signal before `Notify`,
or by returning. `Config` keeps the three settings that decide what happens:
without `WORKER_ENDPOINTS` the router does not start, `POLL_INTERVAL_MS` below 1
makes `NewTicker` panic, `MAX_BATCH_SIZE` of 0 answers nobody and below 0 panics
at the first request. A load-test client sends one call after the other; a call
it has given up may still arrive or be answered. `Calls` bounds what it sends:
after its last call it waits for the time to be over. Of the report the totals
are modelled, not the percentiles.

## 3. Runs

| Run | Bounds | Question and answer |
|---|---|---|
| `Worker` | 3 requests (one HIGH, two exchangeable LOW), batches of 2, 2 signals | All safety invariants and the refinement of `BatchService` hold in 280,000 states; with the smallest buffer `SignalsSuffice` allows, requests are picked up, a HIGH one is served however many LOW ones arrive, and a shutdown ends. Signals get dropped, batches are full and partial, fail and succeed. |
| `WorkerStranded` | 2 requests, batches of 1, 1 signal | Violated: beyond `SignalsSuffice` a request stays queued with the batcher asleep. |
| `HeapQueue` | 6 requests, 2 priorities, ties, `n` in {1, 2, 4} | The heap implements `RequestQueue`, and between operations it is a heap whose requests know their places; heaps of three levels, dequeues of a part and of all. |
| `Router` | 2 workers, `FailLimit` 2, `MaxAttempts` 3; one call at a time with both workers connected, two calls with one | Registry consistency and the order of shutdown hold; a dead worker fails at most `2 * (FailLimit + calls - 1)` attempts; exclusion, recovery, return of calls, end of a shutdown. |
| `RouterConsecutive` | 2 workers, 2 calls, `FailLimit` 3 | Violated: failures need not be consecutive. |
| `Cluster` | 2 calls, 2 workers, `MaxAttempts` 2, `FailLimit` 1, one retry at a time, one crash, batches of 2 | The router counts and clients get what was executed; what a call leaves behind is bounded by its silent attempts; `InferenceService` is implemented. |
| `Dashboard` | 2 connections, 2 workers, 1 call | The map and the snapshots are consistent; if writes return, readers are shown every change and peers that left are forgotten. |
| `DashboardStalled` | 2 connections, 1 worker, 1 call | Violated: without a write deadline, one stalled client keeps the other from being shown a change. |
| `BatchExecution` | 3 batches of 1 or 2 payloads of 4 kinds, 2 pixels, latencies 1, 4 and 13 | Results stay with their payloads, a half-started runtime is not used, batches release what they allocate whichever name is not found, a scrape has no effect without its cause, the average stays in range. 3 million states. |
| `GpuGauges` | 1 call at a time, up to 52 requests queued, batches of 1 and 52 | Gauges stay in range and settle where queue, calls in flight and the last batch put them. |
| `Picker` | 4 workers, 3 kinds of metrics | The best are offered, by the report on which each was scored, and each may be chosen. |
| `LoadTest` | 2 clients, 3 calls, any settings, either process | A shutdown cuts no call off and ends, the test ends, the report adds up and counts answers only. |

Why the bounds are enough. Three requests are the fewest for which a batch of
two leaves one behind, a signal for it can have been dropped, and one can be
cancelled while another is answered. The thresholds 100 and 10 of `adaptWait`
become 1 and 1, so that all its cases occur. The capacity 256 of the buffer becomes
1 or 2; what matters is whether `NotifyCap * MaxBatchSize` covers the requests,
and the proofs hold for all values that satisfy it. Two workers allow failover
to another one, and one worker is enough for two calls to fail on it at the
same time; `MaxAttempts` has the value of the source, `FailLimit` 2 is the
smallest for which a count can be reset half-way. In `Cluster` a single failure
excludes, so that a second attempt goes elsewhere, and one retry at a time
leaves an orphan that meets copies of the other call in a batch; polls fail
only at workers that are down, to keep the instance small. `ClusterProofs` has none of these bounds.

`Cluster` and `Picker` check invariants and (`Cluster`) a refinement whose
mapping treats all workers and all calls alike; no liveness, so their symmetry
is sound. The other runs use none.

Connections of `Dashboard` come and go without bound, and two of them are
enough for one to hold up the other; one call changes both a total and a
counter between any two reads. The latencies include those that truncation
affects most, near 3 ms, and a long one to fall from. Three batches are enough
for one to end, one to be counted and one to be executed during a scrape; the
payloads are too short for a pixel, long enough for one, one that spoils its
row, and longer than the image. 52 is the first batch size that reaches the cap
on memory (`80 + 52 * 250 / 32` is above 480) and its queue reaches the cap on
utilization. Requests stay queued after their call is cancelled, so one call at
a time fills the queue. Four workers are one more than the three that `Picker`
offers; the metrics are of an idle worker, a busy hot one, and a loaded one so
slow that its score is far below zero. In `LoadTest` one client makes a second
call while the first may still be open, which is all that one call can do to
another.

No run disables deadlock checking. `Terminated` and `Over` stand for a process
that has ended; the batcher and handlers can otherwise always go on.

Type invariants are proved (section 5); those of `HeapQueue` and `GpuGauges`
are part of `HeapIsSound` and `GaugesInRange`.

### Disagreements found

1. `batcher.go:72` says a dropped signal is harmless because the batcher picks
   the request up on its next iteration. With more than
   `NotifyCap * MaxBatchSize` requests outstanding there may be no next
   iteration until another call arrives (`WorkerStranded`). In the source that
   is more than 8192 requests by default, more than 256 with `MAX_BATCH_SIZE=1`.
2. `registry.go:107`: three failures need not be consecutive
   (`RouterConsecutive`).
3. `router.go:101` promises a push every 500 ms. `broadcast.go:91` writes
   without a deadline and with `mu` held, so one client that stops reading
   stops the pushes to all, and new clients cannot connect
   (`DashboardStalled`).

Read in the code while modelling it, and not checked by a run:

* `README.md:119`: `MAX_WAIT_MS` is not the maximum wait. Below 10 queued
  requests `adaptWait` makes it 80 ms, above 100 it makes it 20 ms.
* `queue.go:21`: not FIFO within a priority. Requests are ordered by a
  timestamp that clients set, and a heap is not stable when they are equal.
* `router.go:149`: "all workers failed" may be reported with a healthy worker
  untried, since a retry may choose the worker that has just failed.
* `batcher.go:156`: an average of 0 stands for no average yet, but is also that
  of batches faster than a millisecond; the next batch then sets it.
* `metrics.go:112` bases the utilization on queue depth and calls in flight.
  `LastBatchSize` counts as well and is never reset, so after a batch of 32 an
  idle worker reports 64 points, and does not cool to idle. `GaugesFollowLoad`
  counts the last batch, as the code does.
* `onnx.go:185` says that inputs are padded with zeros; `onnx.go:213` pads
  with 0.5. And `onnx.go:207` uses a quarter of the bytes, one for a pixel.
* `config.go:26`: `EXECUTOR_TYPE` is read and never used; the build tag decides.
* `README.md:147`: with `USE_NVML=true` no simulation runs and nothing calls
  NVML, so the gauges stay at their initial values.
* `context.md:24` multiplies queue depth and latency by 10 where
  `scorer.go:29` divides by 10.

## 4. Fairness

*Worker.* Weak fairness of the batcher: a goroutine that can run does, its
timer fires, the executor returns. Weak fairness of a handler's signal and of
its return once an answer is there, and of `CloseStop`. No call must arrive, be
cancelled, or be told to quit, and batches may fail for ever.

*Router.* Weak fairness of each call's progress: `ForwardError` is always
possible for a forwarded call, since a context of ten seconds bounds it; of
rounds and polls, bounded by five seconds; of the shutdown. Strong fairness of
`PollerExits`, because Go's select picks at random between `stopCh` and the
ticker, so the ticker does not win for ever. Strong fairness of `PollAnswer`:
a worker that is up at infinitely many polls answers infinitely many. Crashes,
restarts, calls and the signal to quit are not fair.

*Process and load test.* Weak fairness of `main`, of the server goroutine, of a
panic that is due and of the end of an open call: whoever made it waits ten
seconds (`router.go:132`, `loadtest.go:75`), and the handler of a worker notices
when that is over. Weak fairness of the clock of the test and of its clients.
Nothing makes the process answer, or keeps it alive.

*Dashboard.* Weak fairness of the broadcast loop, of the readers and of a write
to a broken connection, which fails. Strong fairness of `Register` and
`Remove`: they wait for `mu`, which is free between two broadcasts only, and an
`RWMutex` lets a waiting writer in before the next reader. Strong fairness of a
write to a peer that reads. That a write to a stalled peer returns is an
assumption of its own, `WritesReturn`, which the code does not justify: run
`Dashboard` makes it, `DashboardStalled` does not.

*GpuGauges.* Weak fairness of the ticker; calls need not come nor batches be
taken.

## 5. Proofs

TLAPS checks the following for every value of the constants that satisfies the
named assumptions of the modules. Every safety property of a run that passes,
and every refinement, is stated by a theorem. Of types alone, most are proved
and not checked.

### Worker (`WorkerProofs`)

For any finite set of requests, any priorities and timestamps, any batch size
and buffer:

| Theorem | Property | Assumes |
|---|---|---|
| `WorkerTypeCorrect` | `TypeOK` | |
| `RequestsAreKept` | `NoRequestLost` | |
| `AnswersAreOwn` | `AnswerIsOwn` | |
| `AnswersFindRoom` | `SendNeverBlocks` | |
| `ServiceIsImplemented` | `ImplementsService` | |
| `ShutdownIsOrdered` | `ShutdownOrder` | `MaxBatchSize >= 1` |
| `ShutdownLeavesNothing` | `ShutdownDrains` | `MaxBatchSize >= 1` |
| `SignalsCoverQueue` | `WakeupCredit` | `SignalsSuffice` |
| `WakeupsAreNotLost` | `NoLostWakeup` | `SignalsSuffice` |

*Types.* `TypeOK` is not inductive: `DeliverResponse` indexes `results`, so
`ResultsMatch` (nothing, or as long as the batch) goes with it.

*Requests.* `Bookkeeping` adds `BatchInHand` to `NoRequestLost` and
`AnswerIsOwn`: unanswered requests of a batch are all different, so that
answering one removes one, and there are none outside `executeBatch`, so that a
dequeue does not overwrite any. `DequeuesType` says what `DequeueN` returns.
`SendNeverBlocks` follows: a request in the batch has empty channels.

*Refinement.* What became of a request (`Work`) is read off queue, batch and
channels. With `Mapped`, channels hold one answer at most and a batch in the
executor has between one and `MaxBatchSize` requests. Then an execution is the
one step that changes the work of a whole batch (`ExecuteServes`), handlers are
calls of the service (`HandlerServes`), and moving a request from the queue to
the batch, or an answer to a channel, changes nothing that `BatchService` sees
(`MovesHide`, `OthersHide`).

*Shutdown.* `ShutdownOrder` is inductive by itself given types; the batcher
exits only after an empty dequeue, which means an empty queue when batches may
hold a request at all (`EmptyDequeue`).

*Wakeups.* One signal per request is not what holds: signals are dropped, and
one batch answers several. `WakeupCredit` counts instead. With
`Credit = MaxBatchSize * notify + Cardinality(Signalling)`, the depth is at most
`Credit` between batches, at most `Credit + MaxBatchSize` while a signal has
been taken and no batch yet, and in the select of `collectBatch`, where less
than a batch was counted, at most `Credit` or at most one short of a batch plus
one request for every signal since. A dropped signal means a full buffer,
hence credit for `NotifyCap * MaxBatchSize` requests, and `SignalsSuffice` says
that there are no more. `WorkerStranded` shows that the assumption is needed.

### Queue (`HeapQueueProofs`, on `Induction`)

For any finite set of requests, any priorities and timestamps, and any limits:

| Theorem | Property |
|---|---|
| `HeapStaysSound` | `HeapIsSound`: types, `IndexIsPlace`, `ParentsComeFirst` |
| `HeapIsAPriorityQueue` | `ImplementsRequestQueue` |

`HeapIsSound` holds between operations and is inductive. Inside an operation
the heap is out of order in one place, and each loop has an invariant of its
own. `UpInv`: the only item that may come before its parent is the one that
moves, and its children do not come before its parent. `DownInv`: the same for
the item that moves down, among the items that are not to be popped. Both keep
the set of requests (`SameRequests`) and their places (`Placed`), which is what
`Swap`, `Push` and `Pop` have to see to (`SwapPlaced`, `PushPlaced`,
`PopPlaced`). `Up` makes as many rounds as the place it starts at, `Down` as
many as there are items, and both come to rest before that. The root comes
before everything else (`RootIsFirst`, by induction over the places), so that
what `DequeueN` has popped after each round (`Taken`) is in order and before
all that is left.

Induction. The library's theorems take the property as an operator, which the
provers cannot instantiate. `Induction` takes it as a set instead, that of the
numbers or sets for which it holds, and goes back to the well-foundedness of
`<` on `Nat` (`LeastNatural`, `Induct`, `InductOnSubsets`). That a recursive
function is what its definition says is proved from the finite tables of its
first values (`RoundsDef`); sums over finite sets likewise.

### Router (`ClusterProofs`)

For any workers, finite set of calls, number of attempts and `FailLimit`:

| Theorem | Property | Inductive invariant |
|---|---|---|
| `RouterTypeCorrect` | `TypeOK` | itself |
| `HealthAgrees` | `HealthFollowsCount` | with `TargetsConnected`: failures are charged to workers that have a client |
| `ConnectionsCloseLast` | `ClosedLast` | with `CallsEndFirst`: the poller is stopped after the last call |
| `BudgetIsKept` | `DeadWorkerBudget` | `Budget`, below |

`DeadWorkerBudget` is a bound on a number that only grows while a worker is
down, so the invariant adds what the worker can still waste: while it is
healthy, a forward for each failure that it takes to exclude it and one for
each other call; once it is excluded, one for each call on its way to it
(`ToCome`); and as much as another exclusion takes while a poll that it
answered before it went is not recorded (`Restorable`). The sum never exceeds
`2 * PerExclusion`: a recorded failure moves one from `ToCome` to `wasted`
(`ChargedStep`), the late poll spends `Restorable` (`BudgetStep`).
`CountingChangesNothing` takes the other two to `BudgetSpec`, which is what the
run checks.

### Router with workers (`ClusterProofs`)

For any workers, finite set of calls, attempts, batch size, crashes and
`FailLimit`, without the bounds of the run:

| Theorem | Property | Inductive invariant |
|---|---|---|
| `ClusterTypeCorrect` | `ClusterTypeOK` | `Invariant` |
| `CreditIsEarned` | `RoutedIsExecuted` | with `Credit`: a worker is credited once per call it answered |
| `OrphansBounded` | `OrphansAreSilent` | with `Orphans`, the bound for each phase of a call |
| `PromiseIsKept` | `ImplementsPromise` | both |

`Invariant` relates router and workers: `Phases`, how far a call is and how
many of its attempts were silent; `Sending`, attempts not made yet are at no
worker and the awaited one is at the worker on record; `Running`, nothing runs
that is nowhere, and an answer at hand has run. While an attempt is awaited its
copy is not counted among those left behind; that makes the bound inductive.

### Executor (`BatchProofs`)

For any payloads, image size, batch size and any rows that are spoiled:
`ExecutorTypeCorrect` (`ExecutorTypeOK`); `RuntimesAreComplete`
(`RuntimeIsComplete`), since an executor is only made of a complete runtime;
`NothingLeaks` (`BatchesReleaseAll`), from `HeldByStep`: what may be held at
each step, and that no status is held when both names are; `ExecutorIsImplemented` (`ImplementsExecutor`), from `Faithful`: the
rows filled so far are the images of their payloads, and the results so far are
results of theirs. Its arithmetic is `RowsApart`: rows do not overlap in the
flat slice. `CountersGoOn` shows that `BatchExecution` is `BatchCounters` with
an executor, and `BatchesAreCounted` that what is proved of the counters holds
there.

### Counters, choice, dashboard, processes

`BatchProofs`, for any batch sizes, latencies and bounds:
`CountersTypeCorrect` (`TypeOK`); `ScrapesAddUp` (`ScrapeAddsUp`), from
`CountsKeepUp`, that requests lag behind batches by one between two updates
only; `ScrapesHaveCause` (`ScrapeHasCause`), from `Caused`, the same for what is
stored and what a scrape has read so far; and `AverageStaysInRange`
(`AverageInRange`), where the lemma `AverageBetween` is the arithmetic of one
step: truncation loses less than a millisecond, and of an average three below
the shortest latency three tenths are made up for.

`PickerProofs`, for any finite set of workers, whole numbers as metrics and any
`MaxTop`: `PickerTypeCorrect` (`TypeOK`) and `TopIsShared` (`TopShareCalls`),
from `Chosen`: a call that has chosen had at least one candidate, has scored all
of them, and offers the best in order. The last of them then has a weight of
ten points, and the others no less. `TheBestAreOffered` (`BestAreOffered`) is
about scores: lemmas such as `HeadroomGrows` show, term by term, that a worker
no worse in any metric scores no less, and more if it is better in one by what
makes a tenth of a point. Less than that may be rounded away, and `Dominates`
leaves it out.

`GaugesStayInRange` (`GaugesInRange`, in the same module): for any batch size,
queue and load, what a worker reports is what the scorer expects. Its
strengthening is `EnteringInFlight`, without which `DecrInFlight` could go below
zero: a handler that has not queued its request yet is one of those in flight.

`DashboardProofs`, for any connections, workers and number of calls:

| Theorem | Property | Inductive invariant |
|---|---|---|
| `DashboardTypeCorrect` | `TypeOK` | with `RangeEnds`: between broadcasts no client is left to visit |
| `RegisteredAreLive` | `ClientsAreLive` | with `ConnStages`, how `sock` and `reader` go together |
| `MapStaysStable` | `MapIsStable` | none: an action property of every step |
| `NumbersOnlyGrow` | `SnapshotsGrow` | with `ReadIsPast`: what was read is not above what is there now |
| `SnapshotsAreClose` | `SnapshotsOverlap` | with `RoutedWereOpen`: a routed call is in the total and no longer open |

`LoadTestProofs`, for any clients, calls and settings: `LoadTypeCorrect`
(`LoadTypeOK`); `CutOffsHaveCause` (`CutOffHasCause`), from `Stages`, how far
`main` is whenever servers or engine run, or a call is open; and, for finitely
many clients and calls, `CountsAreAnswered` (`CountsAreAnswers`), from
`Attributed`: there is a set of answered calls, as many as were counted, none of
which its client has still to count. `ReportsAddUp` (`ReportAddsUp`), for
finitely many clients, is from `Accounted`: the counts are complete but for what
the clients have still to add, which is nothing once all of them are done.

### Only proved, only model-checked

Only proved: most type invariants, `ShutdownOrder`, `WakeupCredit`,
`MapIsStable`, `SnapshotsGrow` and `ScrapeAddsUp`.

Only model-checked: liveness, which needs fairness and is beyond this prover
(`QueueIsPickedUp`, `UrgentIsServed`, the two `ShutdownCompletes`,
`DeadIsExcluded`, `RecoveredIsUsed`, `CallReturns`, `PushReachesReaders`,
`GoneAreForgotten`, `GaugesFollowLoad`, `LoadIsReported`, `ShutdownEnds`,
`LoadTestEnds`); and the three violations, which are counterexamples.

## 6. Plan

Done: everything planned, with its runs; the composition of router and workers;
executor, configuration, processes and load test; the refinements of
`RequestQueue`, `BatchService`, `InferenceService` and `Executor`, checked and
proved; a theorem for each safety property.

What could follow:

1. `Process` around `Cluster`: a shutdown of a worker under a router that
   retries. Each half is modelled, their product is large.
2. A batcher with a clock, for how long a request can wait.

## 7. Not modelled

* NVML binding (`pkg/worker/nvml`): CGo calls into a driver library, and no Go
  file calls the package.
* Generated code: marshalling. The two sides of `Infer`
  (`inference_grpc.pb.go`) are calls that arrive, return, break off and time out.
* Of the ONNX executor: what ONNX Runtime and CUDA compute; `Cleanup`, which
  nothing calls; a failure of `GetTensorMutableData` and outputs of another
  shape, which `ort_run_batch` does not expect either; softmax as numbers.
* Of the registry: `MarkHealthy`, which nothing calls.
* Of the metrics: the temperature, and the text of `/metrics`.
* Of the configuration: settings that are only printed or passed on; the
  constants of the modules stand for those that matter.
* The dashboard page, scripts that start things, deployment files: no behaviour
  of the program.
* Time. Timers of the batcher, of calls and of polls may fire whenever they are
  running. So nothing is said about how long anything takes.
* Two data races on values that are only displayed: the number of clients in a
  log line (`broadcast.go:40`), and metrics copied into a snapshot
  (`router.go:214`).
