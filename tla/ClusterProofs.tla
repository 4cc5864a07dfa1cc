--------------------------- MODULE ClusterProofs ----------------------------
(***************************************************************************)
(* Proofs about Router, RouterBudget and Cluster, for any workers, calls,  *)
(* attempts, failure limit and crashes.                                    *)
(***************************************************************************)
EXTENDS Cluster, RouterBudget, FiniteSetTheorems, TLAPS

-----------------------------------------------------------------------------
(***************************************************************************)
(* The router.                                                             *)
(***************************************************************************)
(***************************************************************************)
(* What HealthFollowsCount needs to be inductive: a failure is charged to  *)
(* a worker that has a client.                                             *)
(***************************************************************************)
TargetsConnected ==
  \A c \in Clients : call[c] \in {"forwarded", "failed"} => target[c] \in connected

(***************************************************************************)
(* What ClosedLast needs: the poller is stopped after the last call.       *)
(***************************************************************************)
CallsEndFirst ==
  life \in {"stopping", "closing", "closed"} => \A c \in Clients : call[c] = "idle"

-----------------------------------------------------------------------------
(***************************************************************************)
(* Types.                                                                  *)
(***************************************************************************)
LEMMA TypeInit == Init => TypeOK
  BY RouterAssumption DEF Init, TypeOK, CallStates, PollStates, LifeStates

(***************************************************************************)
(* Recording an outcome keeps the types of the two fields it changes.      *)
(***************************************************************************)
LEMMA OutcomeTypes ==
  ASSUME TypeOK, NEW w, MarkFailed(w) \/ UpdateMetrics(w)
  PROVE  healthy' \in [Workers -> BOOLEAN] /\ failCount' \in [Workers -> 0 .. FailLimit]
<1> USE RouterAssumption DEF TypeOK
<1>1. CASE MarkFailed(w)
  <2>1. failCount' \in [Workers -> 0 .. FailLimit]
    <3>1. DOMAIN failCount' = Workers /\ failCount' = [v \in Workers |-> failCount'[v]]
      BY <1>1 DEF MarkFailed
    <3>2. ASSUME NEW v \in Workers PROVE failCount'[v] \in 0 .. FailLimit
      BY <1>1 DEF MarkFailed
    <3> QED
      BY <3>1, <3>2
  <2>2. healthy' \in [Workers -> BOOLEAN]
    BY <1>1 DEF MarkFailed
  <2> QED
    BY <2>1, <2>2
<1>2. CASE UpdateMetrics(w)
  <2>1. DOMAIN failCount' = Workers /\ failCount' = [v \in Workers |-> failCount'[v]]
    BY <1>2 DEF UpdateMetrics
  <2>2. ASSUME NEW v \in Workers PROVE failCount'[v] \in 0 .. FailLimit
    BY <1>2 DEF UpdateMetrics
  <2>3. healthy' \in [Workers -> BOOLEAN]
    BY <1>2 DEF UpdateMetrics
  <2> QED
    BY <2>1, <2>2, <2>3
<1> QED
  BY <1>1, <1>2

LEMMA TypeStep == TypeOK /\ [Next]_vars => TypeOK'
<1> SUFFICES ASSUME TypeOK, [Next]_vars PROVE TypeOK'
  OBVIOUS
<1> USE RouterAssumption DEF TypeOK, CallStates, PollStates, LifeStates
<1>1. ASSUME NEW w \in Workers, Crash(w) \/ Restart(w) PROVE TypeOK'
  BY <1>1 DEF Crash, Restart, registryVars, callVars
<1>2. ASSUME NEW c \in Clients, Handler(c) PROVE TypeOK'
  <2>1. CASE Infer(c)
    BY <2>1 DEF Infer, registryVars
  <2>2. CASE NoHealthyWorker(c)
    BY <2>2 DEF NoHealthyWorker, Return, registryVars
  <2>3. ASSUME NEW w \in Workers, Forward(c, w) PROVE TypeOK'
    BY <2>3 DEF Forward, registryVars
  <2>4. CASE ForwardOk(c)
    BY <2>4 DEF ForwardOk, Return, registryVars
  <2>5. CASE ForwardError(c)
    BY <2>5 DEF ForwardError, registryVars
  <2>6. CASE Retry(c)
    <3>1. attempt' \in [Clients -> 0 .. MaxAttempts - 1]
      BY <2>6 DEF Retry, OutOfAttempts
    <3>2. healthy' \in [Workers -> BOOLEAN] /\ failCount' \in [Workers -> 0 .. FailLimit]
      BY <2>6, OutcomeTypes DEF Retry
    <3> QED
      BY <2>6, <3>1, <3>2 DEF Retry
  <2>7. CASE GiveUp(c)
    <3>1. healthy' \in [Workers -> BOOLEAN] /\ failCount' \in [Workers -> 0 .. FailLimit]
      BY <2>7, OutcomeTypes DEF GiveUp
    <3> QED
      BY <2>7, <3>1 DEF GiveUp, Return
  <2> QED
    BY <1>2, <2>1, <2>2, <2>3, <2>4, <2>5, <2>6, <2>7 DEF Handler
<1>3. CASE PollAll
  BY <1>3 DEF PollAll, registryVars, callVars
<1>4. ASSUME NEW w \in Workers, PollAnswer(w) \/ PollError(w) PROVE TypeOK'
  BY <1>4 DEF PollAnswer, PollError, registryVars, callVars
<1>5. ASSUME NEW w \in Workers, PollDone(w) PROVE TypeOK'
  <2>1. healthy' \in [Workers -> BOOLEAN] /\ failCount' \in [Workers -> 0 .. FailLimit]
    BY <1>5, OutcomeTypes DEF PollDone
  <2> QED
    BY <1>5, <2>1 DEF PollDone, callVars
<1>6. CASE Shutdown
  BY <1>6 DEF Shutdown, Quit, StopPoller, PollerExits, Close, Terminated,
              vars, registryVars, callVars
<1>7. CASE UNCHANGED vars
  BY <1>7 DEF vars, registryVars, callVars
<1> QED
  BY <1>1, <1>2, <1>3, <1>4, <1>5, <1>6, <1>7 DEF Next, Poller

(***************************************************************************)
(* The router's variables have their types: among them, no call makes more *)
(* than MaxAttempts attempts (router.go 125).                              *)
(***************************************************************************)
THEOREM RouterTypeCorrect == Spec => []TypeOK
  BY TypeInit, TypeStep, PTL DEF Spec

-----------------------------------------------------------------------------
(***************************************************************************)
(* Health.                                                                 *)
(***************************************************************************)
Recorded == HealthFollowsCount /\ TargetsConnected

LEMMA RecordedInit == Init => Recorded
<1> SUFFICES ASSUME Init PROVE Recorded
  OBVIOUS
<1>1. ASSUME NEW w \in connected PROVE healthy[w] <=> failCount[w] < FailLimit
  <2>1. w \in Workers
    BY DEF Init
  <2>2. healthy[w] /\ failCount[w] = 0
    BY <2>1, Zenon DEF Init
  <2> QED
    BY <2>2, RouterAssumption
<1>2. ASSUME NEW w \in Workers \ connected PROVE ~healthy[w] /\ poll[w] = "none"
  BY DEF Init
<1>3. ASSUME NEW w \in Workers, NEW c \in Clients PROVE target[c] # w
  BY RouterAssumption DEF Init
<1>4. TargetsConnected
  BY DEF Init, TargetsConnected
<1> QED
  BY <1>1, <1>2, <1>3, <1>4 DEF Recorded, HealthFollowsCount

(***************************************************************************)
(* An outcome recorded for a connected worker leaves flag and count in     *)
(* agreement.                                                              *)
(***************************************************************************)
Agree == /\ \A w \in connected : healthy[w] <=> failCount[w] < FailLimit
         /\ \A w \in Workers \ connected : ~healthy[w]

LEMMA OutcomeAgrees ==
  ASSUME TypeOK, Agree, NEW w \in connected, UNCHANGED connected,
         MarkFailed(w) \/ UpdateMetrics(w)
  PROVE  Agree'
<1> USE RouterAssumption DEF TypeOK, Agree
<1>1. ASSUME NEW v \in connected, MarkFailed(w)
      PROVE  healthy'[v] <=> failCount'[v] < FailLimit
  <2>1. CASE v = w
    BY <1>1, <2>1 DEF MarkFailed
  <2>2. CASE v # w
    BY <1>1, <2>2 DEF MarkFailed
  <2> QED
    BY <2>1, <2>2
<1>2. ASSUME NEW v \in Workers \ connected, MarkFailed(w) PROVE ~healthy'[v]
  BY <1>2 DEF MarkFailed
<1>3. CASE UpdateMetrics(w)
  BY <1>3 DEF UpdateMetrics
<1> QED
  BY <1>1, <1>2, <1>3

LEMMA RecordedStep == TypeOK /\ Recorded /\ [Next]_vars => Recorded'
<1> SUFFICES ASSUME TypeOK, Recorded, [Next]_vars PROVE Recorded'
  OBVIOUS
<1>a. Agree
  BY DEF Recorded, HealthFollowsCount, Agree
<1> USE DEF TypeOK, Recorded, HealthFollowsCount, TargetsConnected
<1>1. ASSUME NEW w \in Workers, Crash(w) \/ Restart(w) PROVE Recorded'
  BY <1>1 DEF Crash, Restart, registryVars, callVars
<1>2. ASSUME NEW c \in Clients, Handler(c) PROVE Recorded'
  <2>1. CASE Infer(c)
    BY <2>1 DEF Infer, registryVars
  <2>2. CASE NoHealthyWorker(c)
    BY <2>2, RouterAssumption DEF NoHealthyWorker, Return, registryVars
  <2>3. ASSUME NEW w \in Workers, Forward(c, w) PROVE Recorded'
    BY <2>3 DEF Forward, Eligible, GetHealthy, registryVars
  <2>4. CASE ForwardOk(c)
    BY <2>4, RouterAssumption DEF ForwardOk, Return, registryVars
  <2>5. CASE ForwardError(c)
    BY <2>5 DEF ForwardError, registryVars
  <2>6. CASE Retry(c)
    <3>1. target[c] \in connected /\ UNCHANGED connected /\ MarkFailed(target[c])
      BY <2>6 DEF Retry
    <3>2. Agree'
      BY <1>a, <3>1, OutcomeAgrees
    <3> QED
      BY <2>6, <3>2, RouterAssumption DEF Retry, Agree
  <2>7. CASE GiveUp(c)
    <3>1. target[c] \in connected /\ UNCHANGED connected /\ MarkFailed(target[c])
      BY <2>7 DEF GiveUp
    <3>2. Agree'
      BY <1>a, <3>1, OutcomeAgrees
    <3> QED
      BY <2>7, <3>2, RouterAssumption DEF GiveUp, Return, Agree
  <2> QED
    BY <1>2, <2>1, <2>2, <2>3, <2>4, <2>5, <2>6, <2>7 DEF Handler
<1>3. CASE PollAll
  BY <1>3 DEF PollAll, registryVars, callVars
<1>4. ASSUME NEW w \in Workers, PollAnswer(w) \/ PollError(w) PROVE Recorded'
  BY <1>4 DEF PollAnswer, PollError, registryVars, callVars
<1>5. ASSUME NEW w \in Workers, PollDone(w) PROVE Recorded'
  <2>1. w \in connected /\ UNCHANGED connected /\ (MarkFailed(w) \/ UpdateMetrics(w))
    BY <1>5 DEF PollDone
  <2>2. Agree'
    BY <1>a, <2>1, OutcomeAgrees
  <2> QED
    BY <1>5, <2>2 DEF PollDone, callVars, Agree
<1>6. CASE Shutdown
  BY <1>6 DEF Shutdown, Quit, StopPoller, PollerExits, Close, Terminated,
              vars, registryVars, callVars
<1>7. CASE UNCHANGED vars
  BY <1>7 DEF vars, registryVars, callVars
<1> QED
  BY <1>1, <1>2, <1>3, <1>4, <1>5, <1>6, <1>7 DEF Next, Poller

(***************************************************************************)
(* Calls and polls that report on a worker concurrently cannot make its    *)
(* health and its count come apart (registry.go 95-118).                   *)
(***************************************************************************)
THEOREM HealthAgrees == Spec => []HealthFollowsCount
<1>1. Spec => [](TypeOK /\ Recorded)
  BY TypeInit, TypeStep, RecordedInit, RecordedStep, PTL DEF Spec
<1> QED
  BY <1>1, PTL DEF Recorded

-----------------------------------------------------------------------------
(***************************************************************************)
(* Shutdown.                                                               *)
(***************************************************************************)
Ordered == ClosedLast /\ CallsEndFirst

LEMMA OrderedInit == Init => Ordered
  BY DEF Init, Ordered, ClosedLast, CallsEndFirst

LEMMA OrderedStep == TypeOK /\ Ordered /\ [Next]_vars => Ordered'
<1> SUFFICES ASSUME TypeOK, Ordered, [Next]_vars PROVE Ordered'
  OBVIOUS
<1> USE DEF TypeOK, Ordered, ClosedLast, CallsEndFirst
<1>1. ASSUME NEW w \in Workers, Crash(w) \/ Restart(w) PROVE Ordered'
  BY <1>1 DEF Crash, Restart, registryVars, callVars
<1>2. ASSUME NEW c \in Clients, Handler(c) PROVE Ordered'
  BY <1>2 DEF Handler, Infer, NoHealthyWorker, Forward, ForwardOk, ForwardError,
              Retry, GiveUp, Return
<1>3. CASE PollAll
  BY <1>3 DEF PollAll, PollerRuns, callVars
<1>4. ASSUME NEW w \in Workers, PollAnswer(w) \/ PollError(w) \/ PollDone(w)
      PROVE  Ordered'
  BY <1>4 DEF PollAnswer, PollError, PollDone, callVars
<1>5. CASE Shutdown
  BY <1>5 DEF Shutdown, Quit, StopPoller, PollerExits, Close, Terminated, RoundOver,
              vars, callVars
<1>6. CASE UNCHANGED vars
  BY <1>6 DEF vars, callVars
<1> QED
  BY <1>1, <1>2, <1>3, <1>4, <1>5, <1>6 DEF Next, Poller

(***************************************************************************)
(* The connections to the workers are closed when no call and no poll can  *)
(* use them any more (router.go 112-115).                                  *)
(***************************************************************************)
THEOREM ConnectionsCloseLast == Spec => []ClosedLast
<1>1. Spec => [](TypeOK /\ Ordered)
  BY TypeInit, TypeStep, OrderedInit, OrderedStep, PTL DEF Spec
<1> QED
  BY <1>1, PTL DEF Ordered

-----------------------------------------------------------------------------
(***************************************************************************)
(* The budget of a dead worker.  To what it has wasted comes what it can   *)
(* still waste: while it is healthy, one forward for each failure that it  *)
(* takes to exclude it and for each other call, afterwards one for each    *)
(* call that is on its way to it; and as much again as an exclusion takes  *)
(* while a poll that it answered has not been recorded.                    *)
(***************************************************************************)
On(w) == { c \in Clients : target[c] = w }

ToCome(w) ==
  IF healthy[w] THEN FailLimit - failCount[w] + Cardinality(Clients) - 1
                ELSE Cardinality(On(w))

Restorable(w) == IF poll[w] = "answered" THEN PerExclusion ELSE 0

Budget ==
  \A w \in Workers :
    IF up[w] THEN wasted[w] = 0
    ELSE /\ wasted[w] \in Nat
         /\ wasted[w] + ToCome(w) + Restorable(w) <= 2 * PerExclusion

Numbers == TypeOK /\ Recorded

LEMMA OnFinite ==
  ASSUME NEW w
  PROVE  /\ IsFiniteSet(On(w)) /\ Cardinality(On(w)) \in Nat
         /\ Cardinality(Clients) \in Nat /\ PerExclusion \in Nat
         /\ Cardinality(On(w)) <= Cardinality(Clients)
         /\ Cardinality(Clients) <= PerExclusion
         /\ \A c \in On(w) : /\ Cardinality(On(w) \ {c}) = Cardinality(On(w)) - 1
                             /\ Cardinality(On(w)) - 1 \in Nat
<1>1. On(w) \in SUBSET Clients
  BY DEF On
<1>2. /\ IsFiniteSet(On(w)) /\ Cardinality(On(w)) \in Nat
      /\ Cardinality(Clients) \in Nat /\ Cardinality(On(w)) <= Cardinality(Clients)
  BY <1>1, RouterAssumption, FS_Subset, FS_CardinalityType
<1>3. PerExclusion \in Nat /\ Cardinality(Clients) <= PerExclusion
  BY <1>2, RouterAssumption DEF PerExclusion
<1>4. ASSUME NEW c \in On(w)
      PROVE  /\ Cardinality(On(w) \ {c}) = Cardinality(On(w)) - 1
             /\ Cardinality(On(w)) - 1 \in Nat
  <2>1. /\ IsFiniteSet(On(w) \ {c})
        /\ Cardinality(On(w) \ {c}) = Cardinality(On(w)) - 1
    BY <1>2, FS_RemoveElement
  <2> QED
    BY <2>1, FS_CardinalityType
<1> QED
  BY <1>2, <1>3, <1>4

LEMMA ToComeRange ==
  ASSUME TypeOK, Recorded, NEW w \in Workers
  PROVE  ToCome(w) \in 0 .. PerExclusion
<1>1. CASE healthy[w]
  <2>1. failCount[w] \in 0 .. FailLimit /\ failCount[w] < FailLimit
    BY <1>1 DEF TypeOK, Recorded, HealthFollowsCount
  <2>2. Cardinality(Clients) \in Nat /\ FailLimit \in Nat
    BY RouterAssumption, OnFinite
  <2> QED
    BY <1>1, <2>1, <2>2 DEF ToCome, PerExclusion
<1>2. CASE ~healthy[w]
  BY <1>2, OnFinite DEF ToCome
<1> QED
  BY <1>1, <1>2

(***************************************************************************)
(* A step that leaves w's entry alone, or records a failure of it that was *)
(* not charged, costs nothing.                                             *)
(***************************************************************************)
LEMMA FreeStep ==
  ASSUME TypeOK, Recorded, Recorded', TypeOK', NEW w \in Workers,
         UNCHANGED connected,
         \/ healthy'[w] = healthy[w] /\ failCount'[w] = failCount[w]
         \/ MarkFailed(w),
         healthy[w] \/ On(w)' \subseteq On(w)
  PROVE  ToCome(w)' <= ToCome(w)
<1>0. On(w)' \subseteq Clients /\ IsFiniteSet(Clients)
  BY RouterAssumption DEF On
<1>1. Cardinality(On(w)') \in Nat /\ Cardinality(On(w)') <= Cardinality(Clients)
  BY <1>0, FS_Subset, FS_CardinalityType
<1>2. On(w)' \subseteq On(w) => Cardinality(On(w)') <= Cardinality(On(w))
  BY OnFinite, FS_Subset
<1>3. /\ failCount[w] \in Int /\ failCount[w] <= FailLimit /\ FailLimit \in Nat
      /\ Cardinality(Clients) \in Nat /\ healthy[w] \in BOOLEAN
      /\ failCount'[w] \in Int
  BY RouterAssumption, OnFinite DEF TypeOK
<1>4. CASE healthy'[w] = healthy[w] /\ failCount'[w] = failCount[w]
  BY <1>1, <1>2, <1>3, <1>4, OnFinite DEF ToCome
<1>5. CASE MarkFailed(w)
  <2>1. /\ failCount'[w] = IF failCount[w] < FailLimit THEN failCount[w] + 1 ELSE failCount[w]
        /\ healthy'[w] = (healthy[w] /\ failCount'[w] < FailLimit)
    BY <1>5 DEF MarkFailed, TypeOK
  <2>2. healthy[w] => failCount[w] < FailLimit
    BY DEF Recorded, HealthFollowsCount, TypeOK
  <2> QED
    BY <1>1, <1>2, <1>3, <2>1, <2>2, OnFinite DEF ToCome
<1> QED
  BY <1>4, <1>5

(***************************************************************************)
(* A failure charged to w uses up one of what was to come.                 *)
(***************************************************************************)
LEMMA ChargedStep ==
  ASSUME TypeOK, Recorded, Recorded', TypeOK', NEW w \in Workers, NEW c \in Clients,
         MarkFailed(w), target[c] = w, On(w)' = On(w) \ {c}
  PROVE  ToCome(w)' <= ToCome(w) - 1
<1>1. c \in On(w)
  BY DEF On
<1>2. /\ Cardinality(On(w)') = Cardinality(On(w)) - 1
      /\ Cardinality(On(w)) \in Nat /\ Cardinality(Clients) \in Nat
      /\ Cardinality(On(w)) <= Cardinality(Clients)
  BY <1>1, OnFinite
<1>3. /\ failCount[w] \in Int /\ failCount[w] <= FailLimit /\ FailLimit \in Nat
      /\ healthy[w] \in BOOLEAN
  BY RouterAssumption DEF TypeOK
<1>4. /\ failCount'[w] = IF failCount[w] < FailLimit THEN failCount[w] + 1 ELSE failCount[w]
      /\ healthy'[w] = (healthy[w] /\ failCount'[w] < FailLimit)
  BY DEF MarkFailed, TypeOK
<1>5. healthy[w] => failCount[w] < FailLimit
  BY DEF Recorded, HealthFollowsCount, TypeOK
<1> QED
  BY <1>2, <1>3, <1>4, <1>5 DEF ToCome

LEMMA BudgetStep ==
  Numbers /\ Numbers' /\ Budget /\ [BudgetNext]_<<vars, wasted>> => Budget'
<1> SUFFICES ASSUME Numbers, Numbers', Budget, [BudgetNext]_<<vars, wasted>>,
                    NEW w \in Workers
             PROVE  IF up'[w] THEN wasted'[w] = 0
                    ELSE /\ wasted'[w] \in Nat
                         /\ wasted'[w] + ToCome(w)' + Restorable(w)' <= 2 * PerExclusion
  BY DEF Budget, PerExclusion
<1> DEFINE PE == PerExclusion
<1>1. /\ TypeOK /\ Recorded /\ TypeOK' /\ Recorded'
      /\ PE \in Nat /\ ToCome(w) \in 0 .. PE /\ ToCome(w)' \in 0 .. PE
      /\ Restorable(w) \in {0, PE} /\ Restorable(w)' \in {0, PE}
  <2>1. TypeOK /\ Recorded => ToCome(w) \in 0 .. PE
    BY ToComeRange
  <2>2. (TypeOK /\ Recorded => ToCome(w) \in 0 .. PE)'
    BY ToComeRange, PTL
  <2> QED
    BY <2>1, <2>2, OnFinite DEF Numbers, Restorable, PerExclusion
<1>2. CASE UNCHANGED <<vars, wasted>>
  BY <1>2 DEF Budget, ToCome, Restorable, On, vars, registryVars, callVars
<1>3. CASE BudgetNext /\ up'[w]
  BY <1>3 DEF BudgetNext
<1>4. CASE BudgetNext /\ ~up'[w] /\ up[w]
  <2>1. Crash(w)
    BY <1>1, <1>4
    DEF BudgetNext, Next, Crash, Restart, Handler, Infer, NoHealthyWorker, Forward, ForwardOk,
        ForwardError, Retry, GiveUp, Poller, PollAll, PollAnswer, PollError, PollDone,
        Shutdown, Quit, StopPoller, PollerExits, Close, Terminated, vars, TypeOK
  <2>2. ~Charged(w) /\ wasted[w] = 0
    BY <1>4, <2>1 DEF Crash, Charged, callVars, Budget
  <2>3. wasted'[w] = 0
    BY <1>4, <2>2 DEF BudgetNext
  <2> QED
    BY <1>1, <1>4, <2>3
<1>5. CASE BudgetNext /\ ~up'[w] /\ ~up[w]
  <2>1. /\ Next /\ wasted[w] \in Nat
        /\ wasted[w] + ToCome(w) + Restorable(w) <= 2 * PE
        /\ wasted'[w] = IF Charged(w) THEN wasted[w] + 1 ELSE wasted[w]
    BY <1>5 DEF BudgetNext, Budget
  <2>2. ASSUME ~Charged(w), ToCome(w)' + Restorable(w)' <= ToCome(w) + Restorable(w)
        PROVE  wasted'[w] \in Nat /\ wasted'[w] + ToCome(w)' + Restorable(w)' <= 2 * PE
    <3> HIDE DEF PE
    <3> QED
      BY <1>1, <2>1, <2>2
  <2>3. ASSUME UNCHANGED <<registryVars, callVars>>, Restorable(w)' <= Restorable(w)
        PROVE  wasted'[w] \in Nat /\ wasted'[w] + ToCome(w)' + Restorable(w)' <= 2 * PE
    <3>1. ~Charged(w) /\ ToCome(w)' = ToCome(w)
      BY <2>3 DEF Charged, ToCome, On, registryVars, callVars
    <3> QED
      BY <1>1, <2>2, <2>3, <3>1
  <2>4. ASSUME UNCHANGED <<connected, callVars>>, MarkFailed(w), Restorable(w)' <= Restorable(w)
        PROVE  wasted'[w] \in Nat /\ wasted'[w] + ToCome(w)' + Restorable(w)' <= 2 * PE
    <3>1. ~Charged(w) /\ On(w)' = On(w)
      BY <2>4 DEF Charged, On, callVars
    <3>2. ToCome(w)' <= ToCome(w)
      BY <1>1, <2>4, <3>1, FreeStep
    <3> QED
      BY <1>1, <2>2, <2>4, <3>1, <3>2
  <2>5. ASSUME NEW v \in Workers, Crash(v) \/ Restart(v)
        PROVE  wasted'[w] \in Nat /\ wasted'[w] + ToCome(w)' + Restorable(w)' <= 2 * PE
    BY <1>1, <2>3, <2>5 DEF Crash, Restart, Restorable
  <2>6. ASSUME NEW c \in Clients, Handler(c)
        PROVE  wasted'[w] \in Nat /\ wasted'[w] + ToCome(w)' + Restorable(w)' <= 2 * PE
    <3>1. /\ poll' = poll /\ connected' = connected
          /\ \A d \in Clients \ {c} : target'[d] = target[d] /\ call'[d] = call[d]
      BY <1>1, <2>6 DEF Handler, Infer, NoHealthyWorker, Forward, ForwardOk, ForwardError,
         Retry, GiveUp, Return, registryVars, TypeOK
    <3>2. Restorable(w)' = Restorable(w)
      BY <3>1 DEF Restorable
    <3>3. CASE (Retry(c) \/ GiveUp(c)) /\ target[c] = w
      <4>1. MarkFailed(w) /\ target'[c] = None /\ None \notin Workers
        BY <1>1, <3>3, RouterAssumption DEF Retry, GiveUp, Return, TypeOK
      <4>2. On(w)' = On(w) \ {c}
        BY <3>1, <4>1 DEF On
      <4>3. ToCome(w)' <= ToCome(w) - 1
        BY <1>1, <3>3, <4>1, <4>2, ChargedStep
      <4> HIDE DEF PE
      <4> QED
        BY <1>1, <2>1, <3>2, <4>3
    <3>4. CASE ~((Retry(c) \/ GiveUp(c)) /\ target[c] = w)
      <4>1. healthy'[w] = healthy[w] /\ failCount'[w] = failCount[w]
        BY <1>1, <2>6, <3>4 DEF Handler, Infer, NoHealthyWorker, Forward, ForwardOk,
           ForwardError, Retry, GiveUp, MarkFailed, registryVars, TypeOK
      <4>2. ~Charged(w)
        <5>1. SUFFICES ASSUME call[c] = "failed", call'[c] # "failed", target[c] = w
                       PROVE  FALSE
          BY <3>1 DEF Charged
        <5> QED
          BY <2>6, <3>4, <5>1 DEF Handler, Infer, NoHealthyWorker, Forward, ForwardOk,
             ForwardError
      <4>3. healthy[w] \/ On(w)' \subseteq On(w)
        <5>1. CASE \E v \in Workers : Forward(c, v)
          BY <1>1, <3>1, <5>1 DEF Forward, Eligible, GetHealthy, On, TypeOK
        <5>2. CASE ~(\E v \in Workers : Forward(c, v))
          <6>1. target'[c] \in {target[c], None}
            BY <1>1, <2>6, <5>2 DEF Handler, Infer, NoHealthyWorker, ForwardOk, ForwardError,
               Retry, GiveUp, Return, TypeOK
          <6> QED
            BY <3>1, <6>1, RouterAssumption DEF On
        <5> QED
          BY <5>1, <5>2
      <4>4. ToCome(w)' <= ToCome(w)
        BY <1>1, <3>1, <4>1, <4>3, FreeStep
      <4> QED
        BY <1>1, <2>2, <3>2, <4>2, <4>4
    <3> QED
      BY <3>3, <3>4
  <2>7. CASE PollAll
    <3>1. Restorable(w)' = 0
      BY <2>7 DEF PollAll, Restorable
    <3>2. UNCHANGED <<registryVars, callVars>> /\ Restorable(w)' <= Restorable(w)
      BY <1>1, <2>7, <3>1 DEF PollAll
    <3> QED
      BY <1>5, <2>3, <3>2
  <2>8. ASSUME NEW v \in Workers, PollAnswer(v) \/ PollError(v)
        PROVE  wasted'[w] \in Nat /\ wasted'[w] + ToCome(w)' + Restorable(w)' <= 2 * PE
    <3>1. Restorable(w)' <= Restorable(w)
      BY <1>1, <1>5, <2>8 DEF PollAnswer, PollError, Restorable, TypeOK
    <3> QED
      BY <2>3, <2>8, <3>1 DEF PollAnswer, PollError
  <2>9. ASSUME NEW v \in Workers, PollDone(v), v # w
        PROVE  wasted'[w] \in Nat /\ wasted'[w] + ToCome(w)' + Restorable(w)' <= 2 * PE
    <3>1. /\ healthy'[w] = healthy[w] /\ failCount'[w] = failCount[w] /\ poll'[w] = poll[w]
          /\ UNCHANGED <<connected, callVars>>
      BY <1>1, <2>9 DEF PollDone, MarkFailed, UpdateMetrics, TypeOK
    <3>2. ~Charged(w) /\ On(w)' = On(w) /\ Restorable(w)' = Restorable(w)
      BY <3>1 DEF Charged, On, Restorable, callVars
    <3>3. ToCome(w)' <= ToCome(w)
      BY <1>1, <3>1, <3>2, FreeStep
    <3> QED
      BY <1>1, <2>2, <3>2, <3>3
  <2>10. CASE PollDone(w)
    <3>1. Restorable(w)' = 0 /\ UNCHANGED <<connected, callVars>>
      BY <1>1, <2>10 DEF PollDone, Restorable, TypeOK
    <3>2. CASE poll[w] = "answered" /\ UpdateMetrics(w)
      <4>1. ~Charged(w) /\ Restorable(w) = PE
        BY <3>1, <3>2 DEF Charged, callVars, Restorable
      <4>2. ToCome(w)' + Restorable(w)' <= ToCome(w) + Restorable(w)
        <5> HIDE DEF PE
        <5> QED
          BY <1>1, <3>1, <4>1
      <4> QED
        BY <1>5, <2>2, <4>1, <4>2
    <3>3. CASE MarkFailed(w)
      <4>1. Restorable(w)' <= Restorable(w)
        BY <1>1, <3>1
      <4> QED
        BY <1>5, <2>4, <3>1, <3>3, <4>1
    <3> QED
      BY <2>10, <3>2, <3>3 DEF PollDone
  <2>11. CASE Shutdown
    <3>1. UNCHANGED <<registryVars, callVars, poll>>
      BY <2>11 DEF Shutdown, Quit, StopPoller, PollerExits, Close, Terminated, vars
    <3>2. Restorable(w)' <= Restorable(w)
      BY <1>1, <3>1 DEF Restorable
    <3> QED
      BY <1>5, <2>3, <3>1, <3>2
  <2> HIDE DEF PE
  <2> QED
    BY <1>5, <2>1, <2>5, <2>6, <2>7, <2>8, <2>9, <2>10, <2>11 DEF Next, Poller, PE
<1> QED
  BY <1>2, <1>3, <1>4, <1>5

(***************************************************************************)
(* A dead worker costs the callers a bounded number of attempts, whatever  *)
(* polls and calls were under way when it went (registry.go 95-118,        *)
(* poller.go 60-85).                                                       *)
(***************************************************************************)
THEOREM BudgetIsKept == BudgetSpec => []DeadWorkerBudget
<1>1. BudgetInit => Numbers /\ Budget
  <2> SUFFICES ASSUME BudgetInit PROVE Numbers /\ Budget
    OBVIOUS
  <2>1. TypeOK /\ Recorded
    BY TypeInit, RecordedInit DEF BudgetInit
  <2>3. ASSUME NEW w \in Workers
        PROVE  wasted[w] = 0 /\ 0 + ToCome(w) + Restorable(w) <= 2 * PerExclusion
    <3>1. wasted[w] = 0 /\ Restorable(w) = 0
      BY DEF BudgetInit, Init, Restorable
    <3> QED
      BY <2>1, <3>1, ToComeRange, OnFinite
  <2> QED
    BY <2>1, <2>3 DEF Numbers, Budget
<1>2. Numbers /\ [BudgetNext]_<<vars, wasted>> => Numbers'
  <2>1. [BudgetNext]_<<vars, wasted>> => [Next]_vars
    BY DEF BudgetNext
  <2> QED
    BY <2>1, TypeStep, RecordedStep DEF Numbers
<1>3. Numbers /\ Budget => DeadWorkerBudget
  <2> SUFFICES ASSUME Numbers, Budget, NEW w \in Workers
               PROVE  wasted[w] <= 2 * PerExclusion
    BY DEF DeadWorkerBudget
  <2>1. ToCome(w) \in 0 .. PerExclusion /\ PerExclusion \in Nat
        /\ Restorable(w) \in {0, PerExclusion}
    BY ToComeRange, OnFinite DEF Numbers, Restorable
  <2> QED
    BY <2>1 DEF Budget
<1> QED
  BY <1>1, <1>2, <1>3, BudgetStep, PTL DEF BudgetSpec

(***************************************************************************)
(* Counting what is wasted does not change the router, so that its other   *)
(* invariants hold in the specification that is model-checked, too.        *)
(***************************************************************************)
THEOREM CountingChangesNothing == BudgetSpec => [](HealthFollowsCount /\ ClosedLast)
<1>1. BudgetInit => Init
  BY DEF BudgetInit
<1>2. [BudgetNext]_<<vars, wasted>> => [Next]_vars
  BY DEF BudgetNext
<1>3. BudgetSpec => Spec
  BY <1>1, <1>2, PTL DEF BudgetSpec, Spec
<1> QED
  BY <1>3, HealthAgrees, ConnectionsCloseLast, PTL

-----------------------------------------------------------------------------
(***************************************************************************)
(* The router with its workers.                                            *)
(***************************************************************************)
(***************************************************************************)
(* Where a call is says what its client has got, and how many attempts can *)
(* have been silent.                                                       *)
(***************************************************************************)
Phases ==
  \A c \in Clients :
    /\ call[c] # "idle" <=> answer[c] = "open"
    /\ answer[c] = "none" => attempt[c] = 0 /\ silent[c] = 0
    /\ call[c] \in {"picking", "forwarded"} => silent[c] <= attempt[c]
    /\ call[c] = "failed" => silent[c] <= attempt[c] + 1

(***************************************************************************)
(* The attempts still to be made have been sent to nobody, and the one     *)
(* that is awaited to the worker the call has on record.                   *)
(***************************************************************************)
Sending ==
  \A c \in Clients :
    /\ \A n \in 0 .. MaxAttempts - 1 :
         \/ answer[c] = "none"
         \/ call[c] = "picking" /\ n >= attempt[c]
         \/ call[c] \in {"forwarded", "failed"} /\ n > attempt[c]
         => place[<<c, n>>] = None
    /\ call[c] = "forwarded" =>
         target[c] \in Workers /\ place[Copy(c)] = target[c]

(***************************************************************************)
(* What is nowhere has not run, and an answer is at hand only for what     *)
(* has.                                                                    *)
(***************************************************************************)
Running ==
  \A x \in Copies :
    /\ place[x] = None => work[x] = "none" /\ x \notin executed
    /\ x \in executed => work[x] \in {"ok", "none"}
    /\ work[x] = "ok" => x \in executed

Invariant == ClusterTypeOK /\ Phases /\ Sending /\ Running

-----------------------------------------------------------------------------
(***************************************************************************)
(* The router's part of a step is a step of Router, or leaves its          *)
(* variables alone.                                                        *)
(***************************************************************************)
LEMMA RouterTypes == TypeOK /\ [ClusterNext]_clusterVars => TypeOK'
<1> SUFFICES ASSUME TypeOK, [ClusterNext]_clusterVars PROVE TypeOK'
  OBVIOUS
<1>1. ASSUME NEW c \in Clients, Serve(c) PROVE TypeOK'
  <2>1. Handler(c)
    BY <1>1 DEF Serve, Begin, Refuse, Send, Receive, ReceiveError, LoseTouch, TryAgain,
                Handler
  <2> QED
    BY <2>1, TypeStep DEF Next
<1>2. ASSUME NEW w \in Workers, WorkerCrash(w) \/ WorkerRestart(w) PROVE TypeOK'
  <2>1. Next
    BY <1>2 DEF WorkerCrash, WorkerRestart, Next
  <2> QED
    BY <2>1, TypeStep
<1>3. ASSUME NEW w \in Workers, Polled(w) PROVE TypeOK'
  <2>1. healthy' \in [Workers -> BOOLEAN] /\ failCount' \in [Workers -> 0 .. FailLimit]
    BY <1>3, OutcomeTypes DEF Polled
  <2> QED
    BY <1>3, <2>1 DEF Polled, TypeOK, callVars
<1>4. ASSUME NEW x \in Copies, Abandon(x) PROVE TypeOK'
  BY <1>4, TypeStep DEF Abandon
<1>5. ASSUME NEW w \in Workers, Batcher(w) PROVE TypeOK'
  BY <1>5, TypeStep DEF Batcher, Run
<1>6. CASE UNCHANGED clusterVars
  BY <1>6, TypeStep DEF clusterVars
<1> QED
  BY <1>1, <1>2, <1>3, <1>4, <1>5, <1>6 DEF ClusterNext

LEMMA InvariantInit == ClusterInit => Invariant
<1> SUFFICES ASSUME ClusterInit PROVE Invariant
  OBVIOUS
<1> USE RouterAssumption, ClusterAssumption DEF ClusterInit
<1>1. TypeOK
  BY TypeInit
<1>2. Batches!TypeOK
  BY DEF Batches!Init, Batches!TypeOK, Batches!Outcomes
<1>3. ClusterTypeOK
  BY <1>1, <1>2 DEF ClusterTypeOK
<1>4. Phases
  BY DEF Phases, Init
<1>5. Sending
  BY DEF Sending, Init, Copies
<1>6. Running
  BY DEF Running, Batches!Init
<1> QED
  BY <1>3, <1>4, <1>5, <1>6 DEF Invariant

-----------------------------------------------------------------------------
(***************************************************************************)
(* One lemma for each side of a step.                                      *)
(***************************************************************************)
LEMMA ServeStep ==
  ASSUME Invariant, NEW c \in Clients, Serve(c), TypeOK'
  PROVE  Invariant'
<1> USE RouterAssumption, ClusterAssumption
        DEF Invariant, ClusterTypeOK, TypeOK, CallStates, Batches!TypeOK, Batches!Outcomes,
            Phases, Sending, Running, Copies, Copy
<1>1. CASE Begin(c)
  BY <1>1 DEF Begin, Infer, workerVars
<1>2. CASE Refuse(c)
  BY <1>2 DEF Refuse, NoHealthyWorker, GiveUp, Return, workerVars
<1>3. ASSUME NEW w \in Workers, Send(c, w) PROVE Invariant'
  <2> DEFINE x == Copy(c)
  <2>1. /\ x \in Copies /\ x = <<c, attempt[c]>>
        /\ call[c] = "picking" /\ w \in Workers /\ w # None
        /\ call' = [call EXCEPT ![c] = "forwarded"]
        /\ target' = [target EXCEPT ![c] = w]
        /\ place' = [place EXCEPT ![x] = w]
        /\ UNCHANGED <<attempt, answer, executed, routed, silent, crashes>>
    BY <1>3 DEF Send, Forward, Eligible, GetHealthy, countVars
  <2>2. place[x] = None /\ work[x] = "none" /\ x \notin executed
    BY <2>1
  <2>3. /\ handling' \in [Copies -> {"closed", "open"}]
        /\ work' \in [Copies -> {"none", "pending"} \cup Batches!Outcomes]
        /\ \A y \in Copies \ {x} : work'[y] = work[y]
        /\ work'[x] \in {"none", "pending"}
    <3>1. CASE Batches!Accept(x)
      BY <2>1, <3>1 DEF Batches!Accept
    <3>2. CASE UNCHANGED <<handling, work>>
      BY <2>1, <2>2, <3>2
    <3> QED
      BY <1>3, <3>1, <3>2 DEF Send
  <2> HIDE DEF x, Copies, Copy
  <2>4. ClusterTypeOK'
    BY <2>1, <2>3
  <2>5. Phases'
    BY <2>1
  <2>6. Sending'
    <3>1. ASSUME NEW d \in Clients, NEW n \in 0 .. MaxAttempts - 1,
                 call'[d] \in {"forwarded", "failed"} /\ n > attempt[d]
          PROVE  place'[<<d, n>>] = None
      <4>0. n \in Int /\ attempt[d] \in Int
        OBVIOUS
      <4>1. \/ call[d] \in {"forwarded", "failed"} /\ n > attempt[d]
            \/ call[d] = "picking" /\ n >= attempt[d]
        BY <2>1, <3>1, <4>0
      <4>2. <<d, n>> # x
        BY <2>1, <3>1, <4>0
      <4>3. <<d, n>> \in Copies /\ place[<<d, n>>] = None
        BY <4>1 DEF Copies
      <4> QED
        BY <2>1, <4>2, <4>3
    <3>2. ASSUME NEW d \in Clients, NEW n \in 0 .. MaxAttempts - 1,
                 answer[d] = "none" \/ (call'[d] = "picking" /\ n >= attempt[d])
          PROVE  place'[<<d, n>>] = None
      <4>1. d # c /\ <<d, n>> \in Copies /\ place[<<d, n>>] = None
        BY <2>1, <3>2 DEF Copies
      <4>2. <<d, n>> # x
        BY <2>1, <4>1
      <4> QED
        BY <2>1, <4>1, <4>2
    <3>3. ASSUME NEW d \in Clients, call'[d] = "forwarded"
          PROVE  target'[d] \in Workers /\ place'[Copy(d)'] = target'[d]
      <4>1. CASE d = c
        BY <2>1, <4>1 DEF Copy
      <4>2. CASE d # c
        <5>1. Copy(d)' = Copy(d) /\ Copy(d) # x /\ Copy(d) \in Copies
          BY <2>1, <4>2 DEF Copy, Copies
        <5> QED
          BY <2>1, <3>3, <4>2, <5>1
      <4> QED
        BY <4>1, <4>2
    <3> QED
      BY <2>1, <3>1, <3>2, <3>3 DEF Copy
  <2>7. Running'
    <3>1. ASSUME NEW y \in Copies \ {x}
          PROVE  place'[y] = place[y] /\ work'[y] = work[y]
      BY <2>1, <2>3
    <3>2. place'[x] # None /\ executed' = executed
      BY <2>1
    <3>3. ASSUME NEW y \in Copies
          PROVE  /\ place'[y] = None => work'[y] = "none" /\ y \notin executed'
                 /\ y \in executed' => work'[y] \in {"ok", "none"}
                 /\ work'[y] = "ok" => y \in executed'
      <4>1. CASE y = x
        BY <2>2, <2>3, <3>2, <4>1
      <4>2. CASE y # x
        BY <3>1, <3>2, <4>2
      <4> QED
        BY <4>1, <4>2
    <3> QED
      BY <3>3
  <2> QED
    BY <2>4, <2>5, <2>6, <2>7
<1>4. CASE Receive(c)
  BY <1>4 DEF Receive, ForwardOk, Return, Batches!Return
<1>5. CASE ReceiveError(c)
  BY <1>5 DEF ReceiveError, ForwardError, Batches!Return, countVars
<1>6. CASE LoseTouch(c)
  BY <1>6 DEF LoseTouch, ForwardError, workerVars
<1>7. CASE TryAgain(c)
  BY <1>7 DEF TryAgain, Retry, OutOfAttempts, workerVars, countVars
<1> QED
  BY <1>1, <1>2, <1>3, <1>4, <1>5, <1>6, <1>7 DEF Serve

LEMMA WorkerStep ==
  ASSUME Invariant, TypeOK', NEW w \in Workers,
         Batcher(w) \/ Polled(w) \/ WorkerCrash(w) \/ WorkerRestart(w)
  PROVE  Invariant'
<1> USE RouterAssumption, ClusterAssumption
        DEF Invariant, ClusterTypeOK, TypeOK, CallStates, Batches!TypeOK, Batches!Outcomes,
            Phases, Sending, Running, Copy
<1>1. ASSUME NEW S \in SUBSET At(w), NEW outcome \in Batches!Outcomes, Run(w, S, outcome)
      PROVE  Invariant'
  BY <1>1 DEF Run, Batches!ExecuteBatch, At, vars, callVars, countVars
<1>2. CASE Polled(w)
  BY <1>2 DEF Polled, callVars, workerVars, countVars
<1>3. CASE WorkerCrash(w)
  BY <1>3 DEF WorkerCrash, Crash, At, callVars, countVars
<1>4. CASE WorkerRestart(w)
  BY <1>4 DEF WorkerRestart, Restart, callVars, workerVars, countVars
<1> QED
  BY <1>1, <1>2, <1>3, <1>4 DEF Batcher

LEMMA AbandonStep ==
  ASSUME Invariant, TypeOK', NEW x \in Copies, Abandon(x)
  PROVE  Invariant'
  BY DEF Invariant, ClusterTypeOK, TypeOK, Batches!TypeOK, Batches!Outcomes, Phases,
         Sending, Running, Copy, Abandon, Batches!Abandon, Batches!Return,
         vars, callVars, countVars

LEMMA InvariantStep == Invariant /\ [ClusterNext]_clusterVars => Invariant'
<1> SUFFICES ASSUME Invariant, [ClusterNext]_clusterVars PROVE Invariant'
  OBVIOUS
<1>1. TypeOK'
  BY RouterTypes DEF Invariant, ClusterTypeOK
<1>2. CASE UNCHANGED clusterVars
  BY <1>2 DEF clusterVars, vars, callVars, registryVars, workerVars, countVars, Invariant,
              ClusterTypeOK, TypeOK, Batches!TypeOK, Phases, Sending, Running, Copy
<1> QED
  BY <1>1, <1>2, ServeStep, WorkerStep, AbandonStep DEF ClusterNext

(***************************************************************************)
(* The variables of the cluster have their types: no more attempts of a    *)
(* call end in silence than there are attempts (router.go 125).            *)
(***************************************************************************)
THEOREM ClusterTypeCorrect == ClusterSpec => []ClusterTypeOK
<1>1. ClusterSpec => []Invariant
  BY InvariantInit, InvariantStep, PTL DEF ClusterSpec
<1> QED
  BY <1>1, PTL DEF Invariant

-----------------------------------------------------------------------------
(***************************************************************************)
(* Credit.  A worker is credited at most once for each client that has a   *)
(* result of it, and such a client has a copy that it executed.            *)
(***************************************************************************)
Served(w) == { c \in Clients : answer[c] = w }

Credit ==
  /\ \A w \in Workers : routed[w] <= Cardinality(Served(w))
  /\ \A c \in Clients : answer[c] \in Workers =>
       \E x \in executed : x[1] = c /\ place[x] = answer[c]

LEMMA ServedFinite == \A w : IsFiniteSet(Served(w)) /\ Cardinality(Served(w)) \in Nat
<1> SUFFICES ASSUME NEW w PROVE IsFiniteSet(Served(w)) /\ Cardinality(Served(w)) \in Nat
  OBVIOUS
<1>1. Served(w) \in SUBSET Clients
  BY DEF Served
<1> QED
  BY <1>1, RouterAssumption, FS_Subset, FS_CardinalityType

LEMMA CopiesFinite == IsFiniteSet(Copies)
<1>1. IsFiniteSet(0 .. MaxAttempts - 1)
  BY RouterAssumption, FS_Interval
<1> QED
  BY <1>1, RouterAssumption, FS_Product DEF Copies

(***************************************************************************)
(* What has run stays so, and where it was.                                *)
(***************************************************************************)
LEMMA ExecutedKept ==
  ASSUME Invariant, [ClusterNext]_clusterVars
  PROVE  \A x \in executed : x \in executed' /\ place'[x] = place[x]
<1> USE DEF Invariant, ClusterTypeOK, Running
<1>1. ASSUME NEW c \in Clients, Serve(c)
      PROVE  \A x \in executed : x \in executed' /\ place'[x] = place[x]
  <2>1. ASSUME NEW w \in Workers, Send(c, w)
        PROVE  \A x \in executed : x \in executed' /\ place'[x] = place[x]
    <3>1. place[Copy(c)] = None /\ Copy(c) \in Copies
      BY <2>1 DEF Sending, Send, Forward, Copy, Copies, TypeOK
    <3> QED
      BY <2>1, <3>1 DEF Send
  <2> QED
    BY <1>1, <2>1 DEF Serve, Begin, Refuse, Receive, ReceiveError, LoseTouch, TryAgain,
                      workerVars
<1>2. CASE UNCHANGED clusterVars
  BY <1>2 DEF clusterVars, workerVars
<1> QED
  BY <1>1, <1>2 DEF ClusterNext, Abandon, Batcher, Run, Polled, WorkerCrash, WorkerRestart,
                    workerVars

LEMMA CreditInit == ClusterInit => Credit
<1> SUFFICES ASSUME ClusterInit PROVE Credit
  OBVIOUS
<1>1. \A w \in Workers : routed[w] = 0
  BY DEF ClusterInit
<1>2. \A c \in Clients : answer[c] \notin Workers
  BY ClusterAssumption DEF ClusterInit
<1> QED
  BY <1>1, <1>2, ServedFinite DEF Credit

LEMMA CreditStep == Invariant /\ Credit /\ [ClusterNext]_clusterVars => Credit'
<1> SUFFICES ASSUME Invariant, Credit, [ClusterNext]_clusterVars PROVE Credit'
  OBVIOUS
<1> USE ClusterAssumption DEF Invariant, ClusterTypeOK
<1> DEFINE NoResult == \A c \in Clients : \/ answer'[c] = answer[c]
                                          \/ answer[c] \notin Workers /\ answer'[c] \notin Workers
<1>1. ASSUME routed' = routed, NoResult PROVE Credit'
  <2>1. \A w \in Workers : Served(w)' = Served(w)
    BY <1>1 DEF Served
  <2>2. \A c \in Clients : answer'[c] \in Workers =>
          \E x \in executed' : x[1] = c /\ place'[x] = answer'[c]
    BY <1>1, ExecutedKept DEF Credit
  <2> QED
    BY <1>1, <2>1, <2>2 DEF Credit
<1>2. ASSUME NEW c \in Clients, Receive(c) PROVE Credit'
  <2>0. target[c] \in Workers
    BY <1>2 DEF Receive, ForwardOk, Sending
  <2> PICK w \in Workers : w = target[c]
    BY <2>0
  <2>1. /\ call[c] = "forwarded" /\ w \in Workers /\ place[Copy(c)] = w
        /\ Copy(c) \in executed /\ Copy(c)[1] = c /\ answer[c] = "open"
    BY <1>2 DEF Receive, ForwardOk, Sending, Running, Phases, Copy, Copies, TypeOK
  <2>2. /\ routed' = [routed EXCEPT ![w] = @ + 1]
        /\ answer' = [answer EXCEPT ![c] = w]
        /\ UNCHANGED <<executed, place>>
    BY <1>2 DEF Receive
  <2>3. c \notin Served(w) /\ Served(w)' = Served(w) \cup {c}
    BY <2>1, <2>2 DEF Served
  <2>4. Cardinality(Served(w)') = Cardinality(Served(w)) + 1
    BY <2>3, ServedFinite, FS_AddElement
  <2>5. ASSUME NEW v \in Workers \ {w} PROVE Served(v)' = Served(v)
    <3>1. answer[c] # v /\ answer'[c] # v
      BY <2>1, <2>2
    <3>2. \A d \in Clients \ {c} : answer'[d] = answer[d]
      BY <2>2
    <3> QED
      BY <3>1, <3>2 DEF Served
  <2>6. ASSUME NEW v \in Workers PROVE routed'[v] <= Cardinality(Served(v)')
    <3>1. routed[v] \in Nat /\ Cardinality(Served(v)) \in Nat
          /\ routed[v] <= Cardinality(Served(v))
      BY ServedFinite DEF Credit
    <3>2. CASE v = w
      BY <2>2, <2>4, <3>1, <3>2
    <3>3. CASE v # w
      <4>1. routed'[v] = routed[v] /\ Served(v)' = Served(v)
        BY <2>2, <2>5, <3>3
      <4> QED
        BY <3>1, <4>1
    <3> QED
      BY <3>2, <3>3
  <2>7. \A d \in Clients : answer'[d] \in Workers =>
          \E x \in executed' : x[1] = d /\ place'[x] = answer'[d]
    BY <2>1, <2>2 DEF Credit
  <2> QED
    BY <2>6, <2>7 DEF Credit
<1>3. ASSUME NEW c \in Clients, Serve(c), ~Receive(c) PROVE Credit'
  <2>1. routed' = routed
    BY <1>3 DEF Serve, Begin, Refuse, Send, ReceiveError, LoseTouch, TryAgain, countVars
  <2>2. NoResult
    <3>1. CASE Begin(c)
      BY <3>1 DEF Begin
    <3>2. CASE Refuse(c)
      <4>1. answer[c] = "open"
        BY <3>2 DEF Refuse, NoHealthyWorker, GiveUp, Phases
      <4> QED
        BY <3>2, <4>1 DEF Refuse
    <3>3. CASE answer' = answer
      BY <3>3
    <3> QED
      BY <1>3, <3>1, <3>2, <3>3
      DEF Serve, Send, ReceiveError, LoseTouch, TryAgain, countVars
  <2> QED
    BY <1>1, <2>1, <2>2
<1>4. ASSUME UNCHANGED <<routed, answer>> PROVE Credit'
  <2>1. routed' = routed /\ NoResult
    BY <1>4
  <2> QED
    BY <1>1, <2>1
<1> QED
  BY <1>2, <1>3, <1>4 DEF ClusterNext, Abandon, Batcher, Run, Polled, WorkerCrash,
                          WorkerRestart, countVars, clusterVars

(***************************************************************************)
(* A worker is credited only with what it has executed (router.go 137).    *)
(***************************************************************************)
THEOREM CreditIsEarned == ClusterSpec => []RoutedIsExecuted
<1>1. ClusterSpec => [](Invariant /\ Credit)
  BY InvariantInit, InvariantStep, CreditInit, CreditStep, PTL DEF ClusterSpec
<1>2. Invariant /\ Credit => RoutedIsExecuted
  <2> SUFFICES ASSUME Invariant, Credit, NEW w \in Workers
               PROVE  routed[w] <= Cardinality(executed \cap At(w))
    BY DEF Credit, RoutedIsExecuted
  <2> DEFINE Ran == executed \cap At(w)
             f == [c \in Served(w) |-> CHOOSE x \in Ran : x[1] = c]
  <2>1. IsFiniteSet(Ran) /\ Cardinality(Ran) \in Nat
    <3>1. Ran \in SUBSET Copies
      BY DEF At
    <3> QED
      BY <3>1, CopiesFinite, FS_Subset, FS_CardinalityType
  <2>2. \A c \in Served(w) : \E x \in Ran : x[1] = c
    BY DEF Credit, Served, At, Invariant, ClusterTypeOK
  <2>3. \A c \in Served(w) : f[c] \in Ran /\ f[c][1] = c
    BY <2>2
  <2>4. f \in Injection(Served(w), Ran)
    BY <2>3, Zenon DEF Injection, IsInjective
  <2>5. Cardinality(Served(w)) <= Cardinality(Ran)
    BY <2>1, <2>4, FS_Injection
  <2> QED
    BY <2>1, <2>5, ServedFinite DEF Credit, Invariant, ClusterTypeOK
<1> QED
  BY <1>1, <1>2, PTL

-----------------------------------------------------------------------------
(***************************************************************************)
(* Orphans.  While an attempt is awaited, the others that left something   *)
(* behind ended in silence; afterwards it is one of them, or the one that  *)
(* got the result, or left nothing.                                        *)
(***************************************************************************)
Bounded(c) ==
  IF answer[c] \in Workers THEN Cardinality(LeftBehind(c)) <= silent[c] + 1
  ELSE IF call[c] = "forwarded"
  THEN Cardinality(LeftBehind(c) \ {Copy(c)}) <= silent[c]
  ELSE Cardinality(LeftBehind(c)) <= silent[c]

Orphans == \A c \in Clients : Bounded(c)

LEMMA LeftFinite ==
  ASSUME NEW c
  PROVE  /\ IsFiniteSet(LeftBehind(c)) /\ Cardinality(LeftBehind(c)) \in Nat
         /\ \A y : /\ IsFiniteSet(LeftBehind(c) \ {y})
                   /\ Cardinality(LeftBehind(c) \ {y}) \in Nat
                   /\ Cardinality(LeftBehind(c)) <= Cardinality(LeftBehind(c) \ {y}) + 1
                   /\ Cardinality(LeftBehind(c) \ {y}) <= Cardinality(LeftBehind(c))
<1>1. LeftBehind(c) \in SUBSET Copies
  BY DEF LeftBehind
<1>2. IsFiniteSet(LeftBehind(c)) /\ Cardinality(LeftBehind(c)) \in Nat
  BY <1>1, CopiesFinite, FS_Subset, FS_CardinalityType
<1>3. ASSUME NEW y
      PROVE  /\ IsFiniteSet(LeftBehind(c) \ {y})
             /\ Cardinality(LeftBehind(c) \ {y}) \in Nat
             /\ Cardinality(LeftBehind(c)) <= Cardinality(LeftBehind(c) \ {y}) + 1
             /\ Cardinality(LeftBehind(c) \ {y}) <= Cardinality(LeftBehind(c))
  <2>1. IsFiniteSet(LeftBehind(c) \ {y})
        /\ Cardinality(LeftBehind(c) \ {y}) =
             IF y \in LeftBehind(c) THEN Cardinality(LeftBehind(c)) - 1
             ELSE Cardinality(LeftBehind(c))
    BY <1>2, FS_RemoveElement
  <2>2. Cardinality(LeftBehind(c) \ {y}) \in Nat
    BY <2>1, FS_CardinalityType
  <2> QED
    BY <1>2, <2>1, <2>2
<1> QED
  BY <1>2, <1>3

(***************************************************************************)
(* Only a forward adds to what a call leaves behind, and only the copy     *)
(* that it sends.                                                          *)
(***************************************************************************)
LEMMA LeftShrinks ==
  ASSUME Invariant, [ClusterNext]_clusterVars, NEW c \in Clients
  PROVE  \/ LeftBehind(c)' \subseteq LeftBehind(c)
         \/ /\ \E w \in Workers : Send(c, w)
            /\ LeftBehind(c)' \subseteq LeftBehind(c) \cup {Copy(c)}
<1> USE DEF Invariant, ClusterTypeOK, Batches!TypeOK, Batches!Outcomes
<1>1. ASSUME NEW d \in Clients, NEW w \in Workers, Send(d, w)
      PROVE  /\ LeftBehind(c)' \subseteq LeftBehind(c) \cup {Copy(d)}
             /\ d # c => LeftBehind(c)' \subseteq LeftBehind(c)
  <2>1. executed' = executed
    BY <1>1 DEF Send
  <2>2. \A y \in Copies : y # Copy(d) => work'[y] = work[y]
    BY <1>1 DEF Send, Batches!Accept
  <2>3. Copy(d)[1] = d
    BY DEF Copy
  <2> QED
    BY <2>1, <2>2, <2>3 DEF LeftBehind
<1>2. ASSUME NEW d \in Clients, Receive(d) \/ ReceiveError(d)
      PROVE  LeftBehind(c)' \subseteq LeftBehind(c)
  <2>1. executed' = executed /\ work' = [work EXCEPT ![Copy(d)] = "none"]
    BY <1>2 DEF Receive, ReceiveError, Batches!Return
  <2> QED
    BY <2>1 DEF LeftBehind
<1>3. ASSUME NEW w \in Workers, Batcher(w) PROVE LeftBehind(c)' \subseteq LeftBehind(c)
  <2>1. PICK S \in SUBSET At(w), outcome \in Batches!Outcomes : Run(w, S, outcome)
    BY <1>3 DEF Batcher
  <2>2. /\ executed' \subseteq executed \cup S
        /\ \A y \in S : work[y] = "pending"
        /\ \A y \in Copies : work'[y] = "pending" => work[y] = "pending"
    BY <2>1 DEF Run, Batches!ExecuteBatch
  <2> QED
    BY <2>2 DEF LeftBehind
<1>4. ASSUME NEW x \in Copies, Abandon(x) PROVE LeftBehind(c)' \subseteq LeftBehind(c)
  <2>1. executed' = executed /\ \A y \in Copies : work'[y] = "pending" => work[y] = "pending"
    BY <1>4 DEF Abandon, Batches!Abandon, Batches!Return
  <2> QED
    BY <2>1 DEF LeftBehind
<1>5. ASSUME NEW w \in Workers, WorkerCrash(w) PROVE LeftBehind(c)' \subseteq LeftBehind(c)
  <2>1. executed' = executed /\ \A y \in Copies : work'[y] = "pending" => work[y] = "pending"
    BY <1>5 DEF WorkerCrash
  <2> QED
    BY <2>1 DEF LeftBehind
<1>6. CASE UNCHANGED <<executed, work>>
  BY <1>6 DEF LeftBehind
<1> QED
  BY <1>1, <1>2, <1>3, <1>4, <1>5, <1>6
  DEF ClusterNext, Serve, Begin, Refuse, LoseTouch, TryAgain, Polled, WorkerRestart,
      workerVars, clusterVars

LEMMA OrphansInit == ClusterInit => Orphans
<1> SUFFICES ASSUME ClusterInit, NEW c \in Clients PROVE Bounded(c)
  BY DEF Orphans
<1>1. LeftBehind(c) = {}
  BY DEF ClusterInit, LeftBehind, Batches!Init
<1>2. answer[c] \notin Workers /\ call[c] = "idle" /\ silent[c] = 0
  BY ClusterAssumption DEF ClusterInit, Init
<1> QED
  BY <1>1, <1>2, FS_EmptySet DEF Bounded

LEMMA OrphansStep == Invariant /\ Orphans /\ [ClusterNext]_clusterVars => Orphans'
<1> SUFFICES ASSUME Invariant, Orphans, [ClusterNext]_clusterVars, NEW c \in Clients
             PROVE  Bounded(c)'
  BY DEF Orphans
<1> USE ClusterAssumption
<1> DEFINE L == LeftBehind(c)
           x == Copy(c)
<1>0. Bounded(c)
  BY DEF Orphans
<1>1. /\ answer[c] \in Workers \cup {"none", "open", "unavailable"}
      /\ silent[c] \in Int
      /\ call[c] # "idle" <=> answer[c] = "open"
  BY DEF Invariant, ClusterTypeOK, Phases
<1>2. /\ IsFiniteSet(L) /\ Cardinality(L) \in Nat
      /\ IsFiniteSet(L \ {x}) /\ Cardinality(L \ {x}) \in Nat
      /\ Cardinality(L) <= Cardinality(L \ {x}) + 1
  BY LeftFinite
<1>3. ASSUME NEW S, S \subseteq L \ {x}
      PROVE  Cardinality(S) \in Nat /\ Cardinality(S) <= Cardinality(L \ {x})
  BY <1>2, <1>3, FS_Subset, FS_CardinalityType
<1>4. ASSUME NEW S, S \subseteq L
      PROVE  Cardinality(S) \in Nat /\ Cardinality(S) <= Cardinality(L)
  BY <1>2, <1>4, FS_Subset, FS_CardinalityType
<1>5. ASSUME ~Serve(c) PROVE Bounded(c)'
  <2>1. /\ answer'[c] = answer[c] /\ call'[c] = call[c] /\ silent'[c] = silent[c]
        /\ attempt'[c] = attempt[c]
    <3>1. ASSUME NEW d \in Clients, Serve(d)
          PROVE  /\ answer'[c] = answer[c] /\ call'[c] = call[c]
                 /\ silent'[c] = silent[c] /\ attempt'[c] = attempt[c]
      <4>1. c # d
        BY <1>5, <3>1
      <4> QED
        BY <3>1, <4>1
        DEF Serve, Begin, Infer, Refuse, NoHealthyWorker, GiveUp, Return, Send, Forward,
            Receive, ForwardOk, ReceiveError, ForwardError, LoseTouch, TryAgain, Retry,
            countVars, Invariant, ClusterTypeOK, TypeOK
    <3> QED
      BY <3>1 DEF ClusterNext, Abandon, Batcher, Run, Polled, WorkerCrash, Crash,
                  WorkerRestart, Restart, countVars, clusterVars, vars, callVars
  <2>2. L' \subseteq L
    BY <1>5, LeftShrinks DEF Serve
  <2>3. L' \ {x'} \subseteq L \ {x}
    BY <2>1, <2>2 DEF Copy
  <2>4. /\ Cardinality(L') \in Nat /\ Cardinality(L') <= Cardinality(L)
        /\ Cardinality(L' \ {x'}) \in Nat /\ Cardinality(L' \ {x'}) <= Cardinality(L \ {x})
    BY <1>3, <1>4, <2>2, <2>3
  <2> HIDE DEF L, x
  <2> QED
    BY <1>0, <1>1, <1>2, <2>1, <2>4 DEF Bounded, L, x
<1>6. ASSUME NEW w \in Workers, Send(c, w) PROVE Bounded(c)'
  <2>1. /\ call[c] = "picking" /\ call'[c] = "forwarded" /\ x' = x
        /\ answer' = answer /\ silent' = silent /\ answer[c] = "open"
    BY <1>1, <1>6 DEF Send, Forward, countVars, Copy, Invariant, ClusterTypeOK, TypeOK
  <2>2. L' \ {x'} \subseteq L
    BY <2>1, LeftShrinks
  <2>3. Cardinality(L' \ {x'}) \in Nat /\ Cardinality(L' \ {x'}) <= Cardinality(L)
    BY <1>4, <2>2
  <2>4. Cardinality(L) <= silent[c]
    BY <1>0, <2>1 DEF Bounded
  <2>5. Cardinality(L' \ {x'}) <= silent'[c]
    BY <1>1, <1>2, <2>1, <2>3, <2>4
  <2> QED
    BY <2>1, <2>5 DEF Bounded
<1>7. ASSUME Serve(c), ~(\E w \in Workers : Send(c, w)) PROVE Bounded(c)'
  <2>1. L' \subseteq L
    BY <1>7, LeftShrinks
  <2>2. Cardinality(L') \in Nat /\ Cardinality(L') <= Cardinality(L)
    BY <1>4, <2>1
  <2>3. CASE Begin(c) \/ Refuse(c) \/ TryAgain(c)
    <3>1. /\ answer[c] \notin Workers /\ call[c] # "forwarded"
          /\ answer'[c] \notin Workers /\ call'[c] # "forwarded" /\ silent' = silent
      BY <1>1, <2>3 DEF Begin, Infer, Refuse, NoHealthyWorker, GiveUp, Return, TryAgain,
                        Retry, countVars, Invariant, ClusterTypeOK, TypeOK
    <3> QED
      BY <1>0, <1>1, <1>2, <2>2, <3>1 DEF Bounded
  <2>4. CASE Receive(c) \/ ReceiveError(c) \/ LoseTouch(c)
    <3>1. call[c] = "forwarded" /\ answer[c] = "open"
      BY <1>1, <2>4 DEF Receive, ForwardOk, ReceiveError, LoseTouch, ForwardError
    <3>2. Cardinality(L \ {x}) <= silent[c]
      BY <1>0, <3>1 DEF Bounded
    <3>3. CASE Receive(c)
      <4>1. answer'[c] \in Workers /\ silent' = silent
        BY <3>3 DEF Receive, ForwardOk, Sending, Invariant, ClusterTypeOK
      <4> QED
        BY <1>1, <1>2, <2>2, <3>2, <4>1 DEF Bounded
    <3>4. CASE ReceiveError(c)
      <4>1. answer' = answer /\ silent' = silent /\ call'[c] = "failed"
        BY <3>4 DEF ReceiveError, ForwardError, countVars, Invariant, ClusterTypeOK, TypeOK
      <4>2. work[x] = "failed" /\ work'[x] = "none" /\ executed' = executed /\ x \in Copies
        BY <3>4 DEF ReceiveError, Batches!Return, Invariant, ClusterTypeOK, Batches!TypeOK,
                    Copy, Copies, TypeOK
      <4>3. x \notin executed
        BY <4>2 DEF Invariant, Running
      <4>4. L' \subseteq L \ {x}
        BY <2>1, <4>2, <4>3 DEF LeftBehind
      <4>5. Cardinality(L') <= Cardinality(L \ {x})
        BY <1>3, <4>4
      <4> QED
        BY <1>1, <1>2, <2>2, <3>1, <3>2, <4>1, <4>5 DEF Bounded
    <3>5. CASE LoseTouch(c)
      <4>1. answer' = answer /\ silent'[c] = silent[c] + 1 /\ call'[c] = "failed"
        BY <3>5 DEF LoseTouch, ForwardError, Invariant, ClusterTypeOK, TypeOK
      <4> QED
        BY <1>1, <1>2, <2>2, <3>1, <3>2, <4>1 DEF Bounded
    <3> QED
      BY <2>4, <3>3, <3>4, <3>5
  <2> QED
    BY <1>7, <2>3, <2>4 DEF Serve
<1> QED
  BY <1>5, <1>6, <1>7

(***************************************************************************)
(* What a call leaves behind is bounded by its silent attempts (router.go  *)
(* 125-149).                                                               *)
(***************************************************************************)
THEOREM OrphansBounded == ClusterSpec => []OrphansAreSilent
<1>1. ClusterSpec => [](Invariant /\ Orphans)
  BY InvariantInit, InvariantStep, OrphansInit, OrphansStep, PTL DEF ClusterSpec
<1>2. Invariant /\ Orphans => OrphansAreSilent
  <2> SUFFICES ASSUME Invariant, NEW c \in Clients, Bounded(c)
               PROVE  Cardinality(LeftBehind(c)) <=
                        IF answer[c] \in {"none", "unavailable"} THEN silent[c]
                        ELSE silent[c] + 1
    BY DEF Orphans, OrphansAreSilent
  <2>1. /\ Cardinality(LeftBehind(c)) \in Nat
        /\ Cardinality(LeftBehind(c) \ {Copy(c)}) \in Nat
        /\ Cardinality(LeftBehind(c)) <= Cardinality(LeftBehind(c) \ {Copy(c)}) + 1
    BY LeftFinite
  <2>2. /\ silent[c] \in Int
        /\ answer[c] \in Workers \cup {"none", "open", "unavailable"}
        /\ call[c] # "idle" <=> answer[c] = "open"
    BY DEF Invariant, ClusterTypeOK, Phases
  <2> QED
    BY <2>1, <2>2, ClusterAssumption DEF Bounded
<1> QED
  BY <1>1, <1>2, PTL

-----------------------------------------------------------------------------
(***************************************************************************)
(* Refinement of InferenceService.                                         *)
(***************************************************************************)
Ran(c) == { x \in executed : x[1] = c }

Outcome(c) == CASE answer[c] \in Workers -> "ok"
                [] answer[c] = "unavailable" -> "error"
                [] OTHER -> answer[c]

LEMMA RanBounded ==
  ASSUME Invariant, Orphans, NEW c \in Clients
  PROVE  /\ IsFiniteSet(Ran(c)) /\ Cardinality(Ran(c)) \in Nat
         /\ Cardinality(Ran(c)) <= Cardinality(LeftBehind(c))
         /\ Outcome(c) = "none" => Cardinality(LeftBehind(c)) <= 0
         /\ Outcome(c) = "error" \/ call[c] \in {"picking", "failed"} =>
              Cardinality(LeftBehind(c)) <= silent[c]
         /\ Outcome(c) \in {"open", "ok"} => Cardinality(LeftBehind(c)) <= silent[c] + 1
         /\ Outcome(c) \in {"none", "open", "ok", "error"}
<1>1. Ran(c) \subseteq LeftBehind(c)
  BY DEF Ran, LeftBehind, Invariant, ClusterTypeOK
<1>2. IsFiniteSet(Ran(c)) /\ Cardinality(Ran(c)) \in Nat
      /\ Cardinality(Ran(c)) <= Cardinality(LeftBehind(c))
  BY <1>1, LeftFinite, FS_Subset, FS_CardinalityType
<1>3. /\ silent[c] \in Int
      /\ answer[c] \in Workers \cup {"none", "open", "unavailable"}
      /\ call[c] # "idle" <=> answer[c] = "open"
      /\ answer[c] = "none" => silent[c] = 0
  BY DEF Invariant, ClusterTypeOK, Phases
<1>4. /\ answer[c] \in Workers => Outcome(c) = "ok"
      /\ answer[c] \notin Workers =>
           Outcome(c) = IF answer[c] = "unavailable" THEN "error" ELSE answer[c]
  BY ClusterAssumption DEF Outcome
<1>5. /\ Cardinality(LeftBehind(c)) \in Nat
      /\ Cardinality(LeftBehind(c) \ {Copy(c)}) \in Nat
      /\ Cardinality(LeftBehind(c)) <= Cardinality(LeftBehind(c) \ {Copy(c)}) + 1
  BY LeftFinite
<1>6. Bounded(c)
  BY DEF Orphans
<1> QED
  BY <1>2, <1>3, <1>4, <1>5, <1>6, ClusterAssumption DEF Bounded

(***************************************************************************)
(* The steps of InferenceService, in terms of the cluster.                 *)
(***************************************************************************)
LEMMA PromiseSteps ==
  /\ UNCHANGED <<answer, executed, silent>> => UNCHANGED Promise!vars
  /\ \A c \in Clients :
       /\ /\ Outcome(c) = "none" /\ Outcome(c)' = "open"
          /\ \A d \in Clients \ {c} : Outcome(d)' = Outcome(d)
          /\ UNCHANGED <<executed, silent>>
          => Promise!Begin(c)
       /\ /\ Outcome(c) = "open"
          /\ \/ Cardinality(Ran(c)) > 0 /\ Outcome(c)' = "ok"
             \/ Cardinality(Ran(c)) <= silent[c] /\ Outcome(c)' = "error"
          /\ \A d \in Clients \ {c} : Outcome(d)' = Outcome(d)
          /\ UNCHANGED <<executed, silent>>
          => Promise!Answer(c)
       /\ /\ Outcome(c) = "open" /\ silent[c] < MaxAttempts
          /\ silent' = [silent EXCEPT ![c] = @ + 1]
          /\ UNCHANGED <<answer, executed>>
          => Promise!GiveUpAttempt(c)
  /\ /\ \A c \in Clients : Cardinality(Ran(c)') \in Cardinality(Ran(c)) ..
          CASE Outcome(c) = "none" -> 0
            [] Outcome(c) \in {"open", "ok"} -> silent[c] + 1
            [] Outcome(c) = "error" -> silent[c]
     /\ UNCHANGED <<answer, silent>>
     => Promise!Execute
<1> DEFINE o == [c \in Clients |-> Outcome(c)]
           r == [c \in Clients |-> Cardinality(Ran(c))]
<1>1. UNCHANGED <<answer, executed, silent>> => UNCHANGED Promise!vars
  BY DEF Promise!vars
<1>2. UNCHANGED executed => r' = r
  BY DEF Ran
<1>3. ASSUME NEW c \in Clients, \A d \in Clients \ {c} : Outcome(d)' = Outcome(d)
      PROVE  o' = [o EXCEPT ![c] = Outcome(c)']
  BY <1>3
<1>4. ASSUME NEW c \in Clients PROVE o[c] = Outcome(c) /\ r[c] = Cardinality(Ran(c))
                                     /\ r'[c] = Cardinality(Ran(c)')
  OBVIOUS
<1>5. ASSUME NEW c \in Clients
      PROVE  /\ Promise!Begin(c) <=> /\ o[c] = "none"
                                     /\ o' = [o EXCEPT ![c] = "open"]
                                     /\ UNCHANGED <<r, silent>>
             /\ Promise!Answer(c) <=>
                  /\ o[c] = "open"
                  /\ \/ r[c] > 0 /\ o' = [o EXCEPT ![c] = "ok"]
                     \/ r[c] <= silent[c] /\ o' = [o EXCEPT ![c] = "error"]
                  /\ UNCHANGED <<r, silent>>
             /\ Promise!GiveUpAttempt(c) <=>
                  /\ o[c] = "open" /\ silent[c] < MaxAttempts
                  /\ silent' = [silent EXCEPT ![c] = @ + 1]
                  /\ UNCHANGED <<o, r>>
  BY DEF Promise!Begin, Promise!Answer, Promise!GiveUpAttempt, Outcome, Ran
<1>6. Promise!Execute <=>
        /\ \A c \in Clients : r'[c] \in r[c] .. CASE o[c] = "none" -> 0
                                                  [] o[c] \in {"open", "ok"} -> silent[c] + 1
                                                  [] o[c] = "error" -> silent[c]
        /\ UNCHANGED <<o, silent>>
  BY DEF Promise!Execute, Promise!MostRuns, Outcome, Ran
<1>7. ASSUME UNCHANGED answer PROVE o' = o
  <2>1. ASSUME NEW c \in Clients PROVE Outcome(c)' = Outcome(c)
    BY <1>7, Zenon DEF Outcome
  <2> QED
    BY <2>1
<1> HIDE DEF o, r
<1>8. ASSUME NEW c \in Clients
      PROVE  /\ /\ Outcome(c) = "none" /\ Outcome(c)' = "open"
                /\ \A d \in Clients \ {c} : Outcome(d)' = Outcome(d)
                /\ UNCHANGED <<executed, silent>>
                => Promise!Begin(c)
             /\ /\ Outcome(c) = "open"
                /\ \/ Cardinality(Ran(c)) > 0 /\ Outcome(c)' = "ok"
                   \/ Cardinality(Ran(c)) <= silent[c] /\ Outcome(c)' = "error"
                /\ \A d \in Clients \ {c} : Outcome(d)' = Outcome(d)
                /\ UNCHANGED <<executed, silent>>
                => Promise!Answer(c)
             /\ /\ Outcome(c) = "open" /\ silent[c] < MaxAttempts
                /\ silent' = [silent EXCEPT ![c] = @ + 1]
                /\ UNCHANGED <<answer, executed>>
                => Promise!GiveUpAttempt(c)
  BY <1>2, <1>3, <1>4, <1>5, <1>7
<1>9. /\ \A c \in Clients : Cardinality(Ran(c)') \in Cardinality(Ran(c)) ..
           CASE Outcome(c) = "none" -> 0
             [] Outcome(c) \in {"open", "ok"} -> silent[c] + 1
             [] Outcome(c) = "error" -> silent[c]
      /\ UNCHANGED <<answer, silent>>
      => Promise!Execute
  BY <1>4, <1>6, <1>7
<1> QED
  BY <1>1, <1>8, <1>9

LEMMA PromiseInit == ClusterInit => Promise!Init
<1> SUFFICES ASSUME ClusterInit PROVE Promise!Init
  OBVIOUS
<1>1. \A c \in Clients : answer[c] = "none" /\ "none" \notin Workers
  BY ClusterAssumption DEF ClusterInit
<1>2. \A c \in Clients : Cardinality({ x \in executed : x[1] = c }) = 0
  BY FS_EmptySet DEF ClusterInit
<1>3. silent = [c \in Clients |-> 0]
  BY DEF ClusterInit
<1> QED
  BY <1>1, <1>2, <1>3 DEF Promise!Init

LEMMA PromiseStep ==
  Invariant /\ Orphans /\ [ClusterNext]_clusterVars => [Promise!Next]_(Promise!vars)
<1> SUFFICES ASSUME Invariant, Orphans, [ClusterNext]_clusterVars
             PROVE  Promise!Next \/ UNCHANGED Promise!vars
  OBVIOUS
<1>0. Invariant'
  BY InvariantStep
<1>1. ASSUME NEW c \in Clients, Serve(c)
      PROVE  Promise!Next \/ UNCHANGED Promise!vars
  <2>0. /\ answer[c] = "open" => Outcome(c) = "open"
        /\ "unavailable" \notin Workers /\ "open" \notin Workers /\ "none" \notin Workers
    BY ClusterAssumption DEF Outcome
  <2>1. ASSUME \A d \in Clients \ {c} : answer'[d] = answer[d]
        PROVE  \A d \in Clients \ {c} : Outcome(d)' = Outcome(d)
    BY <2>1, Zenon DEF Outcome
  <2>2. CASE Begin(c)
    <3>1. /\ answer[c] = "none" /\ answer'[c] = "open" /\ UNCHANGED <<executed, silent>>
          /\ \A d \in Clients \ {c} : answer'[d] = answer[d]
      BY <2>2 DEF Begin, workerVars, Invariant, ClusterTypeOK
    <3>2. Outcome(c) = "none" /\ Outcome(c)' = "open"
      BY <2>0, <3>1 DEF Outcome
    <3> QED
      BY <2>1, <3>1, <3>2, PromiseSteps DEF Promise!Next
  <2>3. CASE Refuse(c)
    <3>1. /\ answer[c] = "open" /\ call[c] \in {"picking", "failed"}
          /\ answer'[c] = "unavailable" /\ UNCHANGED <<executed, silent>>
          /\ \A d \in Clients \ {c} : answer'[d] = answer[d]
      BY <2>3 DEF Refuse, NoHealthyWorker, GiveUp, workerVars, Invariant, ClusterTypeOK,
                  Phases
    <3>2. Outcome(c) = "open" /\ Outcome(c)' = "error"
      BY <2>0, <3>1 DEF Outcome
    <3>3. Cardinality(Ran(c)) <= silent[c]
      BY <3>1, RanBounded, LeftFinite DEF Invariant, ClusterTypeOK
    <3> QED
      BY <2>1, <3>1, <3>2, <3>3, PromiseSteps DEF Promise!Next
  <2>4. CASE Receive(c)
    <3>1. /\ answer[c] = "open" /\ answer'[c] \in Workers /\ UNCHANGED <<executed, silent>>
          /\ \A d \in Clients \ {c} : answer'[d] = answer[d]
      BY <2>4 DEF Receive, ForwardOk, Invariant, ClusterTypeOK, Phases, Sending
    <3>2. Outcome(c) = "open" /\ Outcome(c)' = "ok"
      BY <2>0, <3>1 DEF Outcome
    <3>3. Copy(c) \in Ran(c)
      BY <2>4 DEF Receive, Ran, Copy, Copies, Invariant, ClusterTypeOK, TypeOK, Running
    <3>4. Cardinality(Ran(c)) > 0
      <4>1. IsFiniteSet(Ran(c)) /\ Cardinality(Ran(c)) \in Nat
        BY RanBounded
      <4>2. Cardinality(Ran(c)) # 0
        BY <3>3, <4>1, FS_EmptySet
      <4> QED
        BY <4>1, <4>2
    <3> QED
      BY <2>1, <3>1, <3>2, <3>4, PromiseSteps DEF Promise!Next
  <2>5. CASE LoseTouch(c)
    <3>1. /\ answer[c] = "open" /\ silent[c] <= attempt[c] /\ UNCHANGED <<executed, answer>>
          /\ silent' = [silent EXCEPT ![c] = @ + 1]
      BY <2>5 DEF LoseTouch, ForwardError, workerVars, Invariant, Phases
    <3>2. silent[c] < MaxAttempts
      BY <3>1, RouterAssumption DEF Invariant, ClusterTypeOK, TypeOK
    <3> QED
      BY <2>0, <3>1, <3>2, PromiseSteps DEF Promise!Next
  <2>6. CASE (\E w \in Workers : Send(c, w)) \/ ReceiveError(c) \/ TryAgain(c)
    <3>1. UNCHANGED <<answer, executed, silent>>
      BY <2>6 DEF Send, ReceiveError, TryAgain, countVars, workerVars
    <3> QED
      BY <3>1, PromiseSteps
  <2> QED
    BY <1>1, <2>2, <2>3, <2>4, <2>5, <2>6 DEF Serve
<1>2. ASSUME NEW w \in Workers, Batcher(w)
      PROVE  Promise!Next \/ UNCHANGED Promise!vars
  <2>1. UNCHANGED <<answer, silent, vars>>
    BY <1>2 DEF Batcher, Run, countVars
  <2>2. ASSUME NEW c \in Clients
        PROVE  Cardinality(Ran(c)') \in Cardinality(Ran(c)) ..
                 CASE Outcome(c) = "none" -> 0
                   [] Outcome(c) \in {"open", "ok"} -> silent[c] + 1
                   [] Outcome(c) = "error" -> silent[c]
    <3>1. LeftBehind(c)' \subseteq LeftBehind(c)
      <4>1. ~(\E v \in Workers : Send(c, v))
        BY <2>1 DEF Send, Forward, vars, callVars, Invariant, ClusterTypeOK, TypeOK
      <4> QED
        BY <4>1, LeftShrinks
    <3>2. Ran(c) \subseteq Ran(c)' /\ Ran(c)' \subseteq LeftBehind(c)
      BY <1>0, <3>1, ExecutedKept DEF Ran, LeftBehind, Invariant, ClusterTypeOK
    <3>3. /\ IsFiniteSet(Ran(c)') /\ Cardinality(Ran(c)') \in Nat
          /\ Cardinality(Ran(c)') <= Cardinality(LeftBehind(c))
      BY <3>2, LeftFinite, FS_Subset, FS_CardinalityType
    <3>4. Cardinality(Ran(c)) \in Nat /\ Cardinality(Ran(c)) <= Cardinality(Ran(c)')
      BY <3>2, <3>3, FS_Subset, RanBounded
    <3>5. /\ Cardinality(LeftBehind(c)) \in Nat /\ silent[c] \in Int
          /\ Outcome(c) = "none" => Cardinality(LeftBehind(c)) <= 0
          /\ Outcome(c) = "error" => Cardinality(LeftBehind(c)) <= silent[c]
          /\ Outcome(c) \in {"open", "ok"} => Cardinality(LeftBehind(c)) <= silent[c] + 1
          /\ Outcome(c) \in {"none", "open", "ok", "error"}
      BY LeftFinite, RanBounded DEF Invariant, ClusterTypeOK
    <3> DEFINE most == CASE Outcome(c) = "none" -> 0
                         [] Outcome(c) \in {"open", "ok"} -> silent[c] + 1
                         [] Outcome(c) = "error" -> silent[c]
    <3>6. most \in Int /\ Cardinality(LeftBehind(c)) <= most
      BY <3>5
    <3> HIDE DEF most
    <3>7. Cardinality(Ran(c)') \in Cardinality(Ran(c)) .. most
      BY <3>3, <3>4, <3>5, <3>6
    <3> QED
      BY <3>7 DEF most
  <2> QED
    BY <2>1, <2>2, PromiseSteps DEF Promise!Next
<1>3. ASSUME UNCHANGED <<answer, executed, silent>>
      PROVE  Promise!Next \/ UNCHANGED Promise!vars
  BY <1>3, PromiseSteps
<1> QED
  BY <1>1, <1>2, <1>3 DEF ClusterNext, Abandon, Polled, WorkerCrash, WorkerRestart, countVars,
                          clusterVars, workerVars

(***************************************************************************)
(* Router and workers together keep the promise of InferenceService: a     *)
(* result only for a request that ran, no more runs than silent attempts   *)
(* and the one that is awaited or answered (router.go 119-161, server.go   *)
(* 63-107).                                                                *)
(***************************************************************************)
THEOREM PromiseIsKept == ClusterSpec => ImplementsPromise
<1>1. ClusterSpec => [](Invariant /\ Orphans)
  BY InvariantInit, InvariantStep, OrphansInit, OrphansStep, PTL DEF ClusterSpec
<1> QED
  BY <1>1, PromiseInit, PromiseStep, PTL DEF ClusterSpec, ImplementsPromise, Promise!Spec
=============================================================================
