------------------------------- MODULE Score -------------------------------
(***************************************************************************)
(* The score of a worker (pkg/router/scorer.go), in tenths of a point.     *)
(* Metrics are a record of what Score reads: vramFree and vramTotal in     *)
(* tenths of a GB, queueDepth, avgLatencyMs, gpuUtil in points, and hot,   *)
(* whether the temperature is above 80.                                    *)
(*                                                                         *)
(* The test for missing or unhealthy metrics is left out: NewRegistry      *)
(* gives every entry metrics, UpdateMetrics replaces them by others, and   *)
(* all of them say that the worker is healthy (registry.go 37-41,          *)
(* worker/metrics.go 84).                                                  *)
(***************************************************************************)
EXTENDS Integers

\* What may be reported; the scorer does not look at it more closely.
Reports ==
  [vramFree : Int, vramTotal : Int, queueDepth : Int, avgLatencyMs : Int,
   gpuUtil : Int, hot : BOOLEAN]

\* The metrics of a worker that has not been polled yet.
Unpolled ==
  [vramFree |-> 50, vramTotal |-> 50, queueDepth |-> 0, avgLatencyMs |-> 0,
   gpuUtil |-> 0, hot |-> FALSE]

\* Memory headroom, 0 to 100 points.
Headroom(m) ==
  IF m.vramTotal > 0 THEN (m.vramFree * 1000) \div m.vramTotal ELSE 0

Score(m) ==
  Headroom(m) - m.queueDepth - m.avgLatencyMs - 5 * m.gpuUtil
    - (IF m.hot THEN 500 ELSE 0)
=============================================================================
