----------------------------- MODULE GpuGauges -----------------------------
(***************************************************************************)
(* The GPU gauges of a worker: MetricsCollector (pkg/worker/metrics.go)    *)
(* derives them from the load of the worker, which the handlers            *)
(* (server.go Infer) and the batcher (batcher.go executeBatch) change.     *)
(*                                                                         *)
(* simGPUUtil is a float that moves three tenths of the way to its target  *)
(* on every tick.  Here it is a whole number of points, and a tick leads   *)
(* to the exact value rounded down or up: whatever the float does, some    *)
(* behaviour here stays less than a point away from it.  Memory is in      *)
(* hundredths of a GB.  simTempC is left out: it moves a tenth of the way  *)
(* to a function of the utilization on every tick, with some noise.        *)
(* USE_NVML is not "true": NVML is never there (tryNVML), and simulationLoop*)
(* runs unless it is asked for (metrics.go 56-59).                         *)
(***************************************************************************)
EXTENDS Integers, FiniteSetsExt

CONSTANTS
  MaxCalls,   \* bound: calls open at the same time
  MaxQueued,  \* bound: requests queued, those of cancelled calls included
  BatchSizes  \* sizes of the batches that may be taken

ASSUME GaugesAssumption ==
  /\ MaxCalls \in Nat /\ MaxQueued \in Nat
  /\ BatchSizes \subseteq Nat \ {0}

VARIABLES
  entering,       \* handlers between IncrInFlight and Enqueue
  inFlight,       \* MetricsCollector.inFlight
  depth,          \* queue.Depth()
  executing,      \* size of the batch in the executor, 0 if there is none
  LastBatchSize,  \* Batcher.LastBatchSize
  simGPUUtil,     \* in points, 0 to 100
  simVRAMUsed     \* in hundredths of a GB

load == <<inFlight, depth, LastBatchSize>>
gaugesVars == <<entering, executing, load, simGPUUtil, simVRAMUsed>>
gauges == <<simGPUUtil, simVRAMUsed>>

BaseVRAM == 80        \* 0.8 GB
TotalVRAM == 500      \* 5 GB
ReservedVRAM == 20    \* 0.2 GB

GaugesTypeOK ==
  /\ entering \in 0 .. MaxCalls
  /\ inFlight \in 0 .. MaxCalls
  /\ depth \in 0 .. MaxQueued
  /\ executing \in BatchSizes \cup {0}
  /\ LastBatchSize \in BatchSizes \cup {0}
  /\ simGPUUtil \in Int
  /\ simVRAMUsed \in Int

GaugesInit ==
  /\ entering = 0 /\ inFlight = 0 /\ depth = 0 /\ executing = 0
  /\ LastBatchSize = 0
  /\ simGPUUtil = 0
  /\ simVRAMUsed = BaseVRAM

-----------------------------------------------------------------------------
(***************************************************************************)
(* The load.                                                               *)
(***************************************************************************)
IncrInFlight ==
  /\ inFlight < MaxCalls
  /\ inFlight' = inFlight + 1
  /\ entering' = entering + 1
  /\ UNCHANGED <<depth, executing, LastBatchSize, gauges>>

Enqueue ==
  /\ entering > 0
  /\ depth < MaxQueued
  /\ entering' = entering - 1
  /\ depth' = depth + 1
  /\ UNCHANGED <<inFlight, executing, LastBatchSize, gauges>>

\* A call that has been queued returns, answered or cancelled.
DecrInFlight ==
  /\ inFlight > entering
  /\ inFlight' = inFlight - 1
  /\ UNCHANGED <<entering, depth, executing, LastBatchSize, gauges>>

TakeBatch(n) ==
  /\ executing = 0
  /\ n <= depth
  /\ executing' = n
  /\ depth' = depth - n
  /\ UNCHANGED <<entering, inFlight, LastBatchSize, gauges>>

\* The executor has returned; nothing ever resets the size.
StoreSize ==
  /\ executing > 0
  /\ LastBatchSize' = executing
  /\ executing' = 0
  /\ UNCHANGED <<entering, inFlight, depth, gauges>>

-----------------------------------------------------------------------------
(***************************************************************************)
(* The gauges: simulationLoop.                                             *)
(***************************************************************************)

\* Mutated form: the calls in flight do not count.
TargetUtilOfQueue == Min({100, depth * 3 + LastBatchSize * 2})

TargetUtil == Min({100, depth * 3 + inFlight * 15 + LastBatchSize * 2})

UtilsAfter(util) ==
  { (7 * util + 3 * TargetUtil) \div 10,
    (7 * util + 3 * TargetUtil + 9) \div 10 }

\* Mutated form: no memory is kept in reserve.
VRAMAfterUnlimited == BaseVRAM + (LastBatchSize * 250) \div 32

VRAMAfter ==
  Min({BaseVRAM + (LastBatchSize * 250) \div 32, TotalVRAM - ReservedVRAM})

\* Mutated form: the gauges are left alone while nothing is queued.
SimulationTickLoaded ==
  /\ depth > 0
  /\ simGPUUtil' \in UtilsAfter(simGPUUtil)
  /\ simVRAMUsed' = VRAMAfter
  /\ UNCHANGED <<entering, inFlight, depth, executing, LastBatchSize>>

SimulationTick ==
  /\ simGPUUtil' \in UtilsAfter(simGPUUtil)
  /\ simVRAMUsed' = VRAMAfter
  /\ UNCHANGED <<entering, inFlight, depth, executing, LastBatchSize>>

-----------------------------------------------------------------------------
Load ==
  \/ IncrInFlight \/ Enqueue \/ DecrInFlight
  \/ (\E n \in BatchSizes : TakeBatch(n)) \/ StoreSize

GaugesNext == Load \/ SimulationTick

GaugesSpec == GaugesInit /\ [][GaugesNext]_gaugesVars

\* The ticker goes on; calls need not come, nor batches be taken.
FairGaugesSpec == GaugesSpec /\ WF_gaugesVars(SimulationTick)

-----------------------------------------------------------------------------
(***************************************************************************)
(* What GetMetrics reports is what the scorer can use: utilization is a    *)
(* percentage and some memory is free, whatever MAX_BATCH_SIZE is and      *)
(* however the load changed on the way (metrics.go 113-119, router         *)
(* scorer.go 23-36: 0 to 100 points for memory, 0 to 50 for utilization).  *)
(***************************************************************************)
GaugesInRange ==
  /\ GaugesTypeOK
  /\ simGPUUtil \in 0 .. 100
  /\ simVRAMUsed \in BaseVRAM .. TotalVRAM - ReservedVRAM

(***************************************************************************)
(* The gauges follow the load: when it no longer changes, the utilization  *)
(* comes and stays within three points of what the load is worth (metrics  *)
(* .go 112-115), and the memory is what the last batch takes (117-119).    *)
(***************************************************************************)
GaugesSettled ==
  /\ simGPUUtil - TargetUtil \in -3 .. 3
  /\ simVRAMUsed = VRAMAfter

GaugesFollowLoad == []<><<load' # load>>_gaugesVars \/ <>[]GaugesSettled

(***************************************************************************)
(* A worker that always has a call to answer does not go on reporting a    *)
(* utilization of zero, however its load changes meanwhile and even if     *)
(* nothing is ever queued when the ticker fires (metrics.go 109-115).      *)
(***************************************************************************)
LoadIsReported == <>[](inFlight > 0) => []<>(simGPUUtil # 0)
=============================================================================
