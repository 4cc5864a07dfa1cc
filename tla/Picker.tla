------------------------------- MODULE Picker -------------------------------
(***************************************************************************)
(* The choice of a worker for one call after the other: pickBestWorker     *)
(* (pkg/router/router.go).  It takes the healthy workers from the          *)
(* registry, scores them one by one without the lock while polls and       *)
(* failures go on, and chooses among the three best at random, by weight.  *)
(***************************************************************************)
EXTENDS Score, FiniteSets, Sequences, SequencesExt

CONSTANTS
  Workers,   \* workers whose clients Connect has made
  Metrics,   \* what polls may return
  MaxTop,    \* topN in pickBestWorker (3)
  None       \* no worker

ASSUME PickerAssumption ==
  /\ IsFiniteSet(Workers)
  /\ Metrics \subseteq Reports
  /\ MaxTop \in Nat \ {0}
  /\ None \notin Workers

VARIABLES
  metrics,     \* metrics[w]: WorkerEntry.Metrics
  healthy,     \* healthy[w]: WorkerEntry.Healthy
  pc,          \* the call: "idle", "scoring", "picked", "none"
  candidates,  \* GetHealthy, when the call asked
  read,        \* the metrics that the candidates were scored on, so far
  top,         \* the best of them, best first
  chosen       \* the worker returned

entries == <<metrics, healthy>>
pick == <<pc, candidates, read, top, chosen>>
vars == <<entries, pick>>

TypeOK ==
  /\ metrics \in [Workers -> Metrics \cup {Unpolled}]
  /\ healthy \in [Workers -> BOOLEAN]
  /\ pc \in {"idle", "scoring", "picked", "none"}
  /\ candidates \subseteq Workers
  /\ DOMAIN read \subseteq candidates
  /\ \A w \in DOMAIN read : read[w] \in Metrics \cup {Unpolled}
  /\ IsInjective(top) /\ Len(top) <= MaxTop /\ ToSet(top) \subseteq Workers
  /\ chosen \in Workers \cup {None}

\* NewRegistry and Connect.
Init ==
  /\ metrics = [w \in Workers |-> Unpolled]
  /\ healthy = [w \in Workers |-> TRUE]
  /\ pc = "idle"
  /\ candidates = {}
  /\ read = << >>
  /\ top = << >>
  /\ chosen = None

-----------------------------------------------------------------------------
(***************************************************************************)
(* The registry, as polls and failed calls change it.                      *)
(***************************************************************************)
UpdateMetrics(w, m) ==
  /\ metrics' = [metrics EXCEPT ![w] = m]
  /\ healthy' = [healthy EXCEPT ![w] = TRUE]
  /\ UNCHANGED pick

\* The failure that excludes w; the metrics stay.
Exclude(w) ==
  /\ healthy' = [healthy EXCEPT ![w] = FALSE]
  /\ UNCHANGED <<metrics, pick>>

-----------------------------------------------------------------------------
(***************************************************************************)
(* pickBestWorker.                                                         *)
(***************************************************************************)

GetHealthy == { w \in Workers : healthy[w] }

Start ==
  /\ pc = "idle"
  /\ candidates' = GetHealthy
  /\ pc' = IF candidates' = {} THEN "none" ELSE "scoring"
  /\ read' = << >>
  /\ UNCHANGED <<entries, top, chosen>>

\* The candidates are scored in the order of the registry's map: in any.
ScoreNext(w) ==
  /\ pc = "scoring" /\ w \in candidates \ DOMAIN read
  /\ read' = [v \in DOMAIN read \cup {w} |-> IF v = w THEN metrics[w] ELSE read[v]]
  /\ UNCHANGED <<entries, pc, candidates, top, chosen>>

TopN == Min({Cardinality(candidates), MaxTop})

\* Mutated form: the comparison scores again what the registry holds now.
BetterNow(v, w) == Score(metrics[v]) >= Score(metrics[w])

Better(v, w) == Score(read[v]) >= Score(read[w])

\* What sort.Slice may leave in front: scores descend, ties in any order.
BestFirst(s) ==
  /\ \A i, j \in 1 .. Len(s) : i < j => Better(s[i], s[j])
  /\ \A v \in ToSet(s), w \in candidates \ ToSet(s) : Better(v, w)

\* Mutated form: without the added point.
WeightBare(s, i) == Score(read[s[i]]) - Score(read[s[Len(s)]])

Weight(s, i) == Score(read[s[i]]) - Score(read[s[Len(s)]]) + 10

\* The random number falls anywhere in [0, totalWeight), and the place it
\* falls on is cumulative: the first may always be hit, another one if it
\* has a weight.
CanBeHit(s, i) == i = 1 \/ Weight(s, i) > 0

Hit(s) == { s[i] : i \in { j \in 1 .. Len(s) : CanBeHit(s, j) } }

Pick ==
  /\ pc = "scoring" /\ DOMAIN read = candidates
  /\ top' \in { s \in Injection(1 .. TopN, candidates) : BestFirst(s) }
  /\ chosen' \in Hit(top')
  /\ pc' = "picked"
  /\ UNCHANGED <<entries, candidates, read>>

\* The call goes its way; the next one begins.
Return ==
  /\ pc \in {"picked", "none"}
  /\ pc' = "idle"
  /\ candidates' = {}
  /\ read' = << >>
  /\ top' = << >>
  /\ chosen' = None
  /\ UNCHANGED entries
-----------------------------------------------------------------------------
Next ==
  \/ \E w \in Workers, m \in Metrics : UpdateMetrics(w, m)
  \/ \E w \in Workers : Exclude(w) \/ ScoreNext(w)
  \/ Start \/ Pick \/ Return

Spec == Init /\ [][Next]_vars

-----------------------------------------------------------------------------
(***************************************************************************)
(* Metric by metric, m is at least as good as n, and in one it is better   *)
(* by what makes a tenth of a point: a thousandth of the memory, a request,*)
(* a millisecond, a point of utilization, or the thermal threshold.        *)
(***************************************************************************)
MoreMemory(m, n) == m.vramFree * n.vramTotal - n.vramFree * m.vramTotal

Dominates(m, n) ==
  /\ m.vramTotal > 0 /\ n.vramTotal > 0
  /\ MoreMemory(m, n) >= 0
  /\ m.queueDepth <= n.queueDepth
  /\ m.avgLatencyMs <= n.avgLatencyMs
  /\ m.gpuUtil <= n.gpuUtil
  /\ m.hot => n.hot
  /\ \/ 1000 * MoreMemory(m, n) >= m.vramTotal * n.vramTotal
     \/ m.queueDepth < n.queueDepth
     \/ m.avgLatencyMs < n.avgLatencyMs
     \/ m.gpuUtil < n.gpuUtil
     \/ n.hot /\ ~m.hot

(***************************************************************************)
(* "Scores workers by: VRAM, queue depth, latency, GPU util, temperature"  *)
(* (README.md:18): no worker is passed over for one that it beats in every *)
(* respect, by the metrics that were current when each of them was read,   *)
(* although polls change them between two reads.  A worker that has not    *)
(* been polled yet counts as idle, with all its memory free.               *)
(***************************************************************************)
BestAreOffered ==
  pc = "picked" =>
    \A v \in candidates \ ToSet(top), w \in ToSet(top) : ~Dominates(read[v], read[w])

(***************************************************************************)
(* "Anti-thundering-herd: weighted random among top-3" (README.md:19): each*)
(* of the three best, or of all candidates if there are fewer, may get the *)
(* call, however far apart their scores are and also if all are equal.     *)
(***************************************************************************)
TopShareCalls ==
  pc = "picked" =>
    /\ Hit(top) = ToSet(top)
    /\ Cardinality(Hit(top)) = TopN

=============================================================================
