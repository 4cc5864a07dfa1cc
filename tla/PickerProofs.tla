---------------------------- MODULE PickerProofs ----------------------------
(***************************************************************************)
(* Proofs about the metrics of the workers and the choice by them: Picker, *)
(* for any workers, any metrics that they may report and any number of     *)
(* best workers among which the choice is made, and GpuGauges, for any     *)
(* load and any sizes of batches.                                          *)
(***************************************************************************)
EXTENDS Picker, GpuGauges, FiniteSetTheorems, TLAPS

LEMMA UnpolledReports == Unpolled \in Reports
  BY DEF Unpolled, Reports

LEMMA ScoreIsInt == ASSUME NEW m \in Reports PROVE Score(m) \in Int
<1>1. Headroom(m) \in Int
  <2>1. CASE m.vramTotal > 0
    <3>1. m.vramFree * 1000 \in Int /\ m.vramTotal \in Int
      BY DEF Reports
    <3>2. \A a, b \in Int : b > 0 => a \div b \in Int
      OBVIOUS
    <3> QED
      BY <2>1, <3>1, <3>2 DEF Headroom
  <2>2. CASE ~(m.vramTotal > 0)
    BY <2>2 DEF Headroom
  <2> QED
    BY <2>1, <2>2
<1> QED
  BY <1>1 DEF Score, Reports

(***************************************************************************)
(* The quotient is the greatest number that fits.                          *)
(***************************************************************************)
LEMMA Quotient ==
  ASSUME NEW a \in Int, NEW b \in Int, b > 0
  PROVE  /\ a \div b \in Int
         /\ (a \div b) * b <= a /\ a < (a \div b) * b + b
  OBVIOUS

LEMMA QuotientIsGreatest ==
  ASSUME NEW a \in Int, NEW b \in Int, b > 0, NEW q \in Int, q * b <= a
  PROVE  q <= a \div b
<1>1. a \div b \in Int /\ a < (a \div b) * b + b
  BY Quotient
<1>2. \A x \in Int : q * b < x * b + b => q < x + 1
  OBVIOUS
<1> QED
  BY <1>1, <1>2

(***************************************************************************)
(* More memory never scores less, and a thousandth more scores more.       *)
(***************************************************************************)
LEMMA HeadroomGrows ==
  ASSUME NEW m \in Reports, NEW n \in Reports,
         m.vramTotal > 0, n.vramTotal > 0, MoreMemory(m, n) >= 0
  PROVE  /\ Headroom(m) \in Int /\ Headroom(n) \in Int
         /\ Headroom(m) >= Headroom(n)
         /\ 1000 * MoreMemory(m, n) >= m.vramTotal * n.vramTotal => Headroom(m) > Headroom(n)
<1> DEFINE a == m.vramFree
           b == m.vramTotal
           c == n.vramFree
           d == n.vramTotal
           q == (c * 1000) \div d
<1>1. a \in Int /\ b \in Int /\ c \in Int /\ d \in Int /\ b > 0 /\ d > 0
  BY DEF Reports
<1>2. Headroom(m) = (a * 1000) \div b /\ Headroom(n) = q
  BY DEF Headroom
<1>3. a * d - c * b >= 0
  BY DEF MoreMemory
<1>4. MoreMemory(m, n) = a * d - c * b
  BY DEF MoreMemory
<1> HIDE DEF a, b, c, d
<1>5. q \in Int /\ q * d <= c * 1000 /\ (a * 1000) \div b \in Int
  <2>1. c * 1000 \in Int /\ a * 1000 \in Int
    BY <1>1
  <2> QED
    BY <1>1, <2>1, Quotient
<1> HIDE DEF q
\* What a number p has to fulfil to be no more than the headroom of m.
<1>6. ASSUME NEW p \in Int, (p * b) * d <= (a * 1000) * d PROVE p <= (a * 1000) \div b
  <2>1. \A x, y \in Int : x * d <= y * d => x <= y
    BY <1>1
  <2>2. p * b \in Int /\ a * 1000 \in Int
    BY <1>1
  <2>3. p * b <= a * 1000
    BY <1>6, <2>1, <2>2
  <2> QED
    BY <1>1, <2>2, <2>3, QuotientIsGreatest
<1>7. (q * d) * b <= (c * 1000) * b
  BY <1>1, <1>5
<1>8. (q * b) * d <= (a * 1000) * d
  BY <1>1, <1>3, <1>5, <1>7
<1>9. ASSUME 1000 * (a * d - c * b) >= b * d PROVE ((q + 1) * b) * d <= (a * 1000) * d
  BY <1>1, <1>5, <1>7, <1>9
<1>10. /\ q <= (a * 1000) \div b
       /\ 1000 * (a * d - c * b) >= b * d => q + 1 <= (a * 1000) \div b
  BY <1>5, <1>6, <1>8, <1>9
<1> QED
  BY <1>2, <1>4, <1>5, <1>10 DEF b, d

LEMMA DominatesScoresMore ==
  ASSUME NEW m \in Reports, NEW n \in Reports, Dominates(m, n)
  PROVE  Score(m) > Score(n)
<1>1. /\ Headroom(m) \in Int /\ Headroom(n) \in Int
      /\ Headroom(m) >= Headroom(n)
      /\ 1000 * MoreMemory(m, n) >= m.vramTotal * n.vramTotal => Headroom(m) > Headroom(n)
  BY HeadroomGrows DEF Dominates
<1>2. /\ m.queueDepth \in Int /\ m.avgLatencyMs \in Int /\ m.gpuUtil \in Int
      /\ n.queueDepth \in Int /\ n.avgLatencyMs \in Int /\ n.gpuUtil \in Int
      /\ m.hot \in BOOLEAN /\ n.hot \in BOOLEAN
  BY DEF Reports
<1>3. /\ m.queueDepth <= n.queueDepth /\ m.avgLatencyMs <= n.avgLatencyMs
      /\ m.gpuUtil <= n.gpuUtil /\ (m.hot => n.hot)
      /\ \/ Headroom(m) > Headroom(n)
         \/ m.queueDepth < n.queueDepth \/ m.avgLatencyMs < n.avgLatencyMs
         \/ m.gpuUtil < n.gpuUtil \/ (n.hot /\ ~m.hot)
  BY <1>1 DEF Dominates
<1> QED
  BY <1>1, <1>2, <1>3 DEF Score

(***************************************************************************)
(* The smaller of two numbers, as Min finds it.                            *)
(***************************************************************************)
LEMMA MinOfTwo ==
  ASSUME NEW a \in Int, NEW b \in Int
  PROVE  Min({a, b}) = IF a <= b THEN a ELSE b
<1>1. CASE a <= b
  <2>1. \A x \in {a, b} : (\A y \in {a, b} : x =< y) <=> x = a
    BY <1>1
  <2>2. Min({a, b}) = a
    BY <1>1, <2>1 DEF Min
  <2> QED
    BY <1>1, <2>2
<1>2. CASE ~(a <= b)
  <2>1. \A x \in {a, b} : (\A y \in {a, b} : x =< y) <=> x = b
    BY <1>2
  <2>2. Min({a, b}) = b
    BY <1>2, <2>1 DEF Min
  <2> QED
    BY <1>2, <2>2
<1> QED
  BY <1>1, <1>2

-----------------------------------------------------------------------------
(***************************************************************************)
(* A call that has chosen has scored all its candidates, and top are the   *)
(* best of them; while it scores there is at least one.                    *)
(***************************************************************************)
Chosen ==
  /\ pc = "scoring" => candidates # {}
  /\ pc = "picked" =>
       /\ DOMAIN read = candidates
       /\ candidates # {}
       /\ top \in Injection(1 .. TopN, candidates)
       /\ BestFirst(top)

LEMMA TopNRange ==
  ASSUME NEW C \in SUBSET Workers, C # {}
  PROVE  /\ Cardinality(C) \in Nat \ {0}
         /\ Min({Cardinality(C), MaxTop}) \in 1 .. MaxTop
<1>1. IsFiniteSet(C)
  BY PickerAssumption, FS_Subset
<1>2. Cardinality(C) \in Nat \ {0}
  BY <1>1, FS_CardinalityType, FS_EmptySet
<1> QED
  BY <1>2, PickerAssumption, MinOfTwo

LEMMA TypedInit == Init => TypeOK /\ Chosen
<1> SUFFICES ASSUME Init PROVE TypeOK /\ Chosen
  OBVIOUS
<1>1. IsInjective(top) /\ Len(top) <= MaxTop /\ ToSet(top) \subseteq Workers
  BY PickerAssumption DEF Init, IsInjective, ToSet
<1>2. DOMAIN read = {}
  BY DEF Init
<1> QED
  BY <1>1, <1>2 DEF Init, TypeOK, Chosen

LEMMA TypedStep == TypeOK /\ Chosen /\ [Next]_vars => TypeOK' /\ Chosen'
<1> SUFFICES ASSUME TypeOK, Chosen, [Next]_vars PROVE TypeOK' /\ Chosen'
  OBVIOUS
<1>0. UNCHANGED pick => Chosen'
  BY DEF pick, Chosen, TopN, BestFirst, Better
<1>1. ASSUME NEW w \in Workers, NEW m \in Metrics, UpdateMetrics(w, m)
      PROVE  TypeOK' /\ Chosen'
  BY <1>0, <1>1 DEF UpdateMetrics, TypeOK, pick
<1>2. ASSUME NEW w \in Workers, Exclude(w) PROVE TypeOK' /\ Chosen'
  BY <1>0, <1>2 DEF Exclude, TypeOK, pick
<1>3. ASSUME NEW w \in Workers, ScoreNext(w) PROVE TypeOK' /\ Chosen'
  <2>1. /\ DOMAIN read' = DOMAIN read \cup {w}
        /\ \A v \in DOMAIN read' : read'[v] = IF v \in DOMAIN read THEN read[v]
                                                                 ELSE metrics[w]
    BY <1>3 DEF ScoreNext
  <2>2. Chosen'
    BY <1>3 DEF ScoreNext, Chosen
  <2>3. TypeOK'
    BY <1>3, <2>1 DEF ScoreNext, TypeOK, entries
  <2> QED
    BY <2>2, <2>3
<1>4. CASE Start
  <2>1. DOMAIN read' = {}
    BY <1>4 DEF Start
  <2> QED
    BY <1>4, <2>1 DEF Start, GetHealthy, TypeOK, Chosen, entries
<1>5. CASE Pick
  <2>1. /\ candidates \subseteq Workers /\ candidates # {}
        /\ top' \in Injection(1 .. TopN, candidates) /\ BestFirst(top')
        /\ UNCHANGED <<entries, candidates, read>> /\ pc' = "picked"
        /\ DOMAIN read = candidates
    BY <1>5 DEF Pick, TypeOK, Chosen
  <2>2. TopN \in 1 .. MaxTop
    BY <2>1, TopNRange DEF TopN
  <2>3. /\ top' \in [1 .. TopN -> candidates] /\ IsInjective(top')
        /\ Len(top') = TopN /\ DOMAIN top' = 1 .. TopN
    BY <2>1, <2>2, PickerAssumption DEF Injection
  <2>4. ToSet(top') \subseteq Workers
    BY <2>1, <2>3 DEF ToSet
  <2>5. Hit(top') \subseteq ToSet(top')
    BY <2>3 DEF Hit, ToSet
  <2>6. chosen' \in Workers
    BY <1>5, <2>4, <2>5 DEF Pick
  <2>7. TypeOK'
    BY <2>1, <2>2, <2>3, <2>4, <2>6, PickerAssumption DEF TypeOK, entries
  <2>8. Chosen'
    <3>1. TopN' = TopN
      BY <2>1 DEF TopN
    <3>2. BestFirst(top)'
      BY <2>1 DEF BestFirst, Better
    <3> QED
      BY <2>1, <3>1, <3>2 DEF Chosen
  <2> QED
    BY <2>7, <2>8
<1>6. CASE Return
  <2>1. IsInjective(top') /\ Len(top') <= MaxTop /\ ToSet(top') \subseteq Workers
    BY <1>6, PickerAssumption DEF Return, IsInjective, ToSet
  <2>2. DOMAIN read' = {}
    BY <1>6 DEF Return
  <2> QED
    BY <1>6, <2>1, <2>2 DEF Return, TypeOK, Chosen, entries
<1>7. CASE UNCHANGED vars
  BY <1>0, <1>7 DEF vars, entries, pick, TypeOK
<1> QED
  BY <1>1, <1>2, <1>3, <1>4, <1>5, <1>6, <1>7 DEF Next

LEMMA ChosenHolds == Spec => [](TypeOK /\ Chosen)
  BY TypedInit, TypedStep, PTL DEF Spec

(***************************************************************************)
(* Type correctness: no more than MaxTop workers are offered, none of them *)
(* twice, and a worker is chosen that has a client (router.go 205-250).    *)
(***************************************************************************)
THEOREM PickerTypeCorrect == Spec => []TypeOK
  BY ChosenHolds, PTL

(***************************************************************************)
(* Each of the best may get the call (README.md:19): scores are whole      *)
(* numbers, so that the last of the best has ten points of weight, and the *)
(* ones before it have no fewer.                                           *)
(***************************************************************************)
THEOREM TopIsShared == Spec => []TopShareCalls
<1>1. TypeOK /\ Chosen => TopShareCalls
  <2> SUFFICES ASSUME TypeOK, Chosen, pc = "picked"
               PROVE  Hit(top) = ToSet(top) /\ Cardinality(Hit(top)) = TopN
    BY DEF TopShareCalls
  <2>1. /\ candidates \subseteq Workers /\ candidates # {} /\ DOMAIN read = candidates
        /\ top \in [1 .. TopN -> candidates] /\ IsInjective(top) /\ BestFirst(top)
    BY DEF TypeOK, Chosen, Injection
  <2>2. TopN \in Nat \ {0}
    BY <2>1, TopNRange DEF TopN
  <2>3. Len(top) = TopN /\ DOMAIN top = 1 .. TopN
    BY <2>1, <2>2
  <2>4. ASSUME NEW i \in 1 .. TopN PROVE Score(read[top[i]]) \in Int
    <3>1. read[top[i]] \in Reports
      BY <2>1, UnpolledReports, PickerAssumption DEF TypeOK
    <3> QED
      BY <3>1, ScoreIsInt
  <2>5. ASSUME NEW i \in 1 .. TopN PROVE CanBeHit(top, i)
    <3>1. Score(read[top[i]]) >= Score(read[top[TopN]])
      <4>1. CASE i = TopN
        BY <2>2, <2>4, <4>1
      <4>2. CASE i < TopN
        BY <2>1, <2>2, <2>3, <4>2 DEF BestFirst, Better
      <4> QED
        BY <2>2, <4>1, <4>2
    <3>2. Weight(top, i) > 0
      BY <2>2, <2>3, <2>4, <3>1 DEF Weight
    <3> QED
      BY <3>2 DEF CanBeHit
  <2>6. Hit(top) = ToSet(top)
    BY <2>3, <2>5 DEF Hit, ToSet
  <2>7. Cardinality(ToSet(top)) = TopN
    <3>1. top \in Bijection(1 .. TopN, ToSet(top))
      BY <2>1, <2>3 DEF ToSet, Bijection, Injection, Surjection, IsInjective
    <3>2. ExistsBijection(1 .. TopN, ToSet(top))
      BY <3>1 DEF ExistsBijection
    <3> QED
      BY <2>2, <3>2, FS_CountingElements
  <2> QED
    BY <2>6, <2>7
<1> QED
  BY <1>1, ChosenHolds, PTL

(***************************************************************************)
(* No worker is passed over for one that it beats in every respect         *)
(* (README.md:18), whatever the metrics are and however they change while  *)
(* the candidates are scored.                                              *)
(***************************************************************************)
THEOREM TheBestAreOffered == Spec => []BestAreOffered
<1>1. TypeOK /\ Chosen => BestAreOffered
  <2> SUFFICES ASSUME TypeOK, Chosen, pc = "picked",
                      NEW v \in candidates \ ToSet(top), NEW w \in ToSet(top),
                      Dominates(read[v], read[w])
               PROVE  FALSE
    BY DEF BestAreOffered
  <2>1. DOMAIN read = candidates /\ ToSet(top) \subseteq candidates
    <3>1. /\ DOMAIN read = candidates /\ candidates # {} /\ candidates \subseteq Workers
          /\ top \in [1 .. TopN -> candidates]
      BY DEF TypeOK, Chosen, Injection
    <3>2. TopN \in Nat \ {0}
      BY <3>1, TopNRange DEF TopN
    <3>3. DOMAIN top = 1 .. TopN
      BY <3>1
    <3> QED
      BY <3>1, <3>3 DEF ToSet
  <2>2. read[v] \in Reports /\ read[w] \in Reports
    BY <2>1, UnpolledReports, PickerAssumption DEF TypeOK
  <2>3. Score(read[v]) > Score(read[w])
    BY <2>2, DominatesScoresMore
  <2>4. Score(read[w]) >= Score(read[v])
    BY DEF Chosen, BestFirst, Better
  <2> QED
    BY <2>2, <2>3, <2>4, ScoreIsInt
<1> QED
  BY <1>1, ChosenHolds, PTL

-----------------------------------------------------------------------------
(***************************************************************************)
(* The gauges.                                                             *)
(***************************************************************************)
LEMMA TargetUtilRange == GaugesTypeOK => TargetUtil \in 0 .. 100
<1> SUFFICES ASSUME GaugesTypeOK PROVE TargetUtil \in 0 .. 100
  OBVIOUS
<1> DEFINE worth == depth * 3 + inFlight * 15 + LastBatchSize * 2
<1>1. depth \in Nat /\ inFlight \in Nat /\ LastBatchSize \in Nat
  BY GaugesAssumption DEF GaugesTypeOK
<1>2. worth \in Nat
  BY <1>1
<1>3. TargetUtil = Min({100, worth})
  BY DEF TargetUtil
<1> HIDE DEF worth
<1>4. worth \in Int /\ 100 \in Int
  BY <1>2
<1>5. Min({100, worth}) = IF 100 <= worth THEN 100 ELSE worth
  BY <1>4, MinOfTwo
<1> QED
  BY <1>2, <1>3, <1>5

LEMMA VRAMAfterRange ==
  GaugesTypeOK => VRAMAfter \in BaseVRAM .. TotalVRAM - ReservedVRAM
<1> SUFFICES ASSUME GaugesTypeOK PROVE VRAMAfter \in 80 .. 480
  BY DEF BaseVRAM, TotalVRAM, ReservedVRAM
<1> DEFINE taken == 80 + (LastBatchSize * 250) \div 32
<1>1. LastBatchSize \in Nat
  BY GaugesAssumption DEF GaugesTypeOK
<1>2. taken \in Int /\ taken >= 80
  BY <1>1
<1>3. VRAMAfter = Min({taken, 480})
  BY DEF VRAMAfter, BaseVRAM, TotalVRAM, ReservedVRAM
<1> HIDE DEF taken
<1>4. Min({taken, 480}) = IF taken <= 480 THEN taken ELSE 480
  BY <1>2, MinOfTwo
<1> QED
  BY <1>2, <1>3, <1>4

\* What makes GaugesInRange inductive: a handler that has not queued its
\* request yet is one of those in flight.
EnteringInFlight == entering <= inFlight

(***************************************************************************)
(* What a worker reports is what the scorer can use, whatever the sizes of *)
(* its batches and however its load changes (metrics.go 109-119).          *)
(***************************************************************************)
THEOREM GaugesStayInRange == GaugesSpec => []GaugesInRange
<1>1. GaugesInit => GaugesInRange /\ EnteringInFlight
  BY GaugesAssumption
     DEF GaugesInit, GaugesInRange, GaugesTypeOK, EnteringInFlight,
         BaseVRAM, TotalVRAM, ReservedVRAM
<1>2. /\ GaugesInRange /\ EnteringInFlight
      /\ [GaugesNext]_gaugesVars
      => GaugesInRange' /\ EnteringInFlight'
  <2> SUFFICES ASSUME GaugesInRange, EnteringInFlight, [GaugesNext]_gaugesVars
               PROVE  GaugesInRange' /\ EnteringInFlight'
    OBVIOUS
  <2> USE GaugesAssumption DEF GaugesInRange, GaugesTypeOK, EnteringInFlight, gauges
  <2>1. CASE IncrInFlight
    BY <2>1 DEF IncrInFlight
  <2>2. CASE Enqueue
    BY <2>2 DEF Enqueue
  <2>3. CASE DecrInFlight
    BY <2>3 DEF DecrInFlight
  <2>4. ASSUME NEW n \in BatchSizes, TakeBatch(n) PROVE GaugesInRange' /\ EnteringInFlight'
    BY <2>4 DEF TakeBatch
  <2>5. CASE StoreSize
    BY <2>5 DEF StoreSize
  <2>6. CASE SimulationTick
    <3>1. simGPUUtil' \in 0 .. 100
      <4>1. TargetUtil \in 0 .. 100 /\ simGPUUtil \in 0 .. 100
        BY TargetUtilRange
      <4>2. simGPUUtil' \in UtilsAfter(simGPUUtil)
        BY <2>6 DEF SimulationTick
      <4>3. \A u, t \in 0 .. 100 : /\ (7 * u + 3 * t) \div 10 \in 0 .. 100
                                   /\ (7 * u + 3 * t + 9) \div 10 \in 0 .. 100
        OBVIOUS
      <4> QED
        BY <4>1, <4>2, <4>3 DEF UtilsAfter
    <3>2. simVRAMUsed' \in BaseVRAM .. TotalVRAM - ReservedVRAM
      BY <2>6, VRAMAfterRange DEF SimulationTick
    <3>3. UNCHANGED <<entering, inFlight, depth, executing, LastBatchSize>>
      BY <2>6 DEF SimulationTick
    <3>4. simGPUUtil' \in Int /\ simVRAMUsed' \in Int
      BY <3>1, <3>2 DEF BaseVRAM, TotalVRAM, ReservedVRAM
    <3> QED
      BY <3>1, <3>2, <3>3, <3>4
  <2>7. CASE UNCHANGED gaugesVars
    BY <2>7 DEF gaugesVars, load
  <2> QED
    BY <2>1, <2>2, <2>3, <2>4, <2>5, <2>6, <2>7 DEF GaugesNext, Load
<1> QED
  BY <1>1, <1>2, PTL DEF GaugesSpec
=============================================================================
