----------------------------- MODULE MCPicker -----------------------------
(***************************************************************************)
(* Instances of Picker for TLC.  Nothing tells one worker from another.    *)
(***************************************************************************)
EXTENDS Picker, TLC

CONSTANTS w1, w2, w3, w4

Worker(free, depth, latency, util, hot) ==
  [vramFree |-> free, vramTotal |-> 50, queueDepth |-> depth,
   avgLatencyMs |-> latency, gpuUtil |-> util, hot |-> hot]

\* Idle; busy and hot; loaded and very slow.
Idle == Worker(42, 0, 8, 0, FALSE)
Busy == Worker(17, 40, 30, 90, TRUE)
Slow == Worker(17, 0, 12000, 90, FALSE)

Unequal == {Idle, Busy, Slow}

Identical == Permutations(Workers)
=============================================================================
