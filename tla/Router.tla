------------------------------- MODULE Router -------------------------------
(***************************************************************************)
(* The router process: the gRPC handlers of Router.Infer                   *)
(* (pkg/router/router.go) and the poller (poller.go), which share the      *)
(* registry of workers (registry.go), and the shutdown sequence of         *)
(* cmd/router/main.go.  The workers are the environment: they crash and    *)
(* restart, and answer or fail the calls made to them.                     *)
(*                                                                         *)
(* Left out here: the scores, so pickBestWorker may choose any healthy     *)
(* worker (it chooses at random among the three with the best score), and  *)
(* the counters that only the dashboard reads.                             *)
(***************************************************************************)
EXTENDS Integers, FiniteSets

CONSTANTS
  Workers,      \* the configured WORKER_ENDPOINTS
  Clients,      \* Infer calls that can be open at the same time
  MaxAttempts,  \* maxRetries in Router.Infer (3)
  FailLimit,    \* failures that make a worker unhealthy (3)
  None          \* no worker

ASSUME RouterAssumption ==
  /\ MaxAttempts \in Nat \ {0}
  /\ FailLimit \in Nat \ {0}
  /\ IsFiniteSet(Clients)
  /\ None \notin Workers

VARIABLES
  up,          \* up[w]: the process of worker w runs and can be reached
  connected,   \* workers whose clients Connect has made
  healthy,     \* healthy[w]: WorkerEntry.Healthy
  failCount,   \* failCount[w]: WorkerEntry.FailCount, up to FailLimit
  call,        \* call[c]: where the goroutine of c's Infer call is
  attempt,     \* attempt[c]: forwards of c's call that have failed
  target,      \* target[c]: the worker c's call was forwarded to
  poll,        \* poll[w]: where this round's poll of w is
  life         \* how far the process is: "serving", "quitting"
               \* (GracefulStop), "stopping" (poller.Stop), "closing"
               \* (registry.Close), "closed"

registryVars == <<connected, healthy, failCount>>
callVars == <<call, attempt, target>>
vars == <<up, registryVars, callVars, poll, life>>

CallStates == {"idle", "picking", "forwarded", "failed"}
PollStates == {"none", "asked", "answered", "failed"}
LifeStates == {"serving", "quitting", "stopping", "closing", "closed"}

TypeOK ==
  /\ up \in [Workers -> BOOLEAN]
  /\ connected \subseteq Workers
  /\ healthy \in [Workers -> BOOLEAN]
  /\ failCount \in [Workers -> 0 .. FailLimit]
  /\ call \in [Clients -> CallStates]
  /\ attempt \in [Clients -> 0 .. MaxAttempts - 1]
  /\ target \in [Clients -> Workers \cup {None}]
  /\ poll \in [Workers -> PollStates]
  /\ life \in LifeStates

\* NewRegistry, then Connect, which may fail for some of the workers.
Init ==
  /\ up \in [Workers -> BOOLEAN]
  /\ connected \in SUBSET Workers
  /\ healthy = [w \in Workers |-> w \in connected]
  /\ failCount = [w \in Workers |-> 0]
  /\ call = [c \in Clients |-> "idle"]
  /\ attempt = [c \in Clients |-> 0]
  /\ target = [c \in Clients |-> None]
  /\ poll = [w \in Workers |-> "none"]
  /\ life = "serving"

-----------------------------------------------------------------------------
(***************************************************************************)
(* The workers.                                                            *)
(***************************************************************************)
Crash(w) ==
  /\ up[w]
  /\ up' = [up EXCEPT ![w] = FALSE]
  /\ UNCHANGED <<registryVars, callVars, poll, life>>

Restart(w) ==
  /\ ~up[w]
  /\ up' = [up EXCEPT ![w] = TRUE]
  /\ UNCHANGED <<registryVars, callVars, poll, life>>

-----------------------------------------------------------------------------
(***************************************************************************)
(* The registry.  Every operation holds mu, so each is part of one step.   *)
(***************************************************************************)

GetHealthy == { w \in connected : healthy[w] }

\* Mutated form: the worker is excluded one failure late.
MarkFailedLate(w) ==
  /\ failCount' = [failCount EXCEPT ![w] = IF @ < FailLimit THEN @ + 1 ELSE @]
  /\ healthy' = [healthy EXCEPT ![w] = @ /\ failCount[w] < FailLimit]

\* The count is kept up to FailLimit, which is all that is ever tested.
MarkFailed(w) ==
  /\ failCount' = [failCount EXCEPT ![w] = IF @ < FailLimit THEN @ + 1 ELSE @]
  /\ healthy' = [healthy EXCEPT ![w] = @ /\ failCount'[w] < FailLimit]

\* Mutated form: a worker once excluded stays so.
UpdateMetricsCountOnly(w) ==
  /\ failCount' = [failCount EXCEPT ![w] = 0]
  /\ UNCHANGED healthy

\* A worker always reports itself healthy (worker/metrics.go 84).
UpdateMetrics(w) ==
  /\ failCount' = [failCount EXCEPT ![w] = 0]
  /\ healthy' = [healthy EXCEPT ![w] = TRUE]

-----------------------------------------------------------------------------
(***************************************************************************)
(* The handlers: Router.Infer.                                             *)
(***************************************************************************)

Infer(c) ==
  /\ life = "serving"
  /\ call[c] = "idle"
  /\ call' = [call EXCEPT ![c] = "picking"]
  /\ UNCHANGED <<up, registryVars, attempt, target, poll, life>>

\* The call returns: with a response, or with Unavailable.
Return(c) ==
  /\ call' = [call EXCEPT ![c] = "idle"]
  /\ attempt' = [attempt EXCEPT ![c] = 0]
  /\ target' = [target EXCEPT ![c] = None]

NoHealthyWorker(c) ==
  /\ call[c] = "picking"
  /\ GetHealthy = {}
  /\ Return(c)
  /\ UNCHANGED <<up, registryVars, poll, life>>

\* Mutated form: any worker with a client, whatever its health.
PickAny(w) == w \in connected

Eligible(w) == w \in GetHealthy

\* pickBestWorker, and the call it is for.
Forward(c, w) ==
  /\ call[c] = "picking"
  /\ Eligible(w)
  /\ call' = [call EXCEPT ![c] = "forwarded"]
  /\ target' = [target EXCEPT ![c] = w]
  /\ UNCHANGED <<up, registryVars, attempt, poll, life>>

ForwardOk(c) ==
  /\ call[c] = "forwarded"
  /\ up[target[c]]
  /\ Return(c)
  /\ UNCHANGED <<up, registryVars, poll, life>>

\* The worker is gone, answers with an error, or not within ten seconds.
ForwardError(c) ==
  /\ call[c] = "forwarded"
  /\ call' = [call EXCEPT ![c] = "failed"]
  /\ UNCHANGED <<up, registryVars, attempt, target, poll, life>>

OutOfAttempts(c) == attempt[c] + 1 >= MaxAttempts

\* Mutated form: the attempts are not counted.
RetryUncounted(c) ==
  /\ call[c] = "failed" /\ ~OutOfAttempts(c)
  /\ MarkFailed(target[c])
  /\ call' = [call EXCEPT ![c] = "picking"]
  /\ target' = [target EXCEPT ![c] = None]
  /\ UNCHANGED <<up, connected, attempt, poll, life>>

\* The failure is charged to the worker; the call tries again or gives up.
Retry(c) ==
  /\ call[c] = "failed" /\ ~OutOfAttempts(c)
  /\ MarkFailed(target[c])
  /\ call' = [call EXCEPT ![c] = "picking"]
  /\ attempt' = [attempt EXCEPT ![c] = @ + 1]
  /\ target' = [target EXCEPT ![c] = None]
  /\ UNCHANGED <<up, connected, poll, life>>

GiveUp(c) ==
  /\ call[c] = "failed" /\ OutOfAttempts(c)
  /\ MarkFailed(target[c])
  /\ Return(c)
  /\ UNCHANGED <<up, connected, poll, life>>

-----------------------------------------------------------------------------
(***************************************************************************)
(* The poller: Poller.loop and pollAll.                                    *)
(***************************************************************************)

\* Mutated form: the goroutines of the round are not waited for.
RoundOverEarly == TRUE

RoundOver == \A w \in Workers : poll[w] = "none"

\* A tick may still win against stopCh, so rounds go on until loop has seen it.
PollerRuns == life \in {"serving", "quitting", "stopping"}

\* A tick, or the first round: every worker that has a client is asked.
PollAll ==
  /\ PollerRuns
  /\ RoundOver
  /\ poll' = [w \in Workers |-> IF w \in connected THEN "asked" ELSE "none"]
  /\ UNCHANGED <<up, registryVars, callVars, life>>

PollAnswer(w) ==
  /\ poll[w] = "asked"
  /\ up[w]
  /\ poll' = [poll EXCEPT ![w] = "answered"]
  /\ UNCHANGED <<up, registryVars, callVars, life>>

\* The worker is gone, or has not answered within five seconds.
PollError(w) ==
  /\ poll[w] = "asked"
  /\ poll' = [poll EXCEPT ![w] = "failed"]
  /\ UNCHANGED <<up, registryVars, callVars, life>>

\* Mutated forms: a failed poll is not charged to the worker; its goroutine
\* does not report that it is done.
PollDoneLenient(w) ==
  /\ \/ poll[w] = "answered" /\ UpdateMetrics(w)
     \/ poll[w] = "failed" /\ UNCHANGED <<healthy, failCount>>
  /\ poll' = [poll EXCEPT ![w] = "none"]
  /\ UNCHANGED <<up, connected, callVars, life>>
PollDoneStuck(w) ==
  /\ poll[w] = "answered"
  /\ UpdateMetrics(w)
  /\ poll' = [poll EXCEPT ![w] = "none"]
  /\ UNCHANGED <<up, connected, callVars, life>>

\* The goroutine of the poll records its outcome and is done.
PollDone(w) ==
  /\ \/ poll[w] = "answered" /\ UpdateMetrics(w)
     \/ poll[w] = "failed" /\ MarkFailed(w)
  /\ poll' = [poll EXCEPT ![w] = "none"]
  /\ UNCHANGED <<up, connected, callVars, life>>

-----------------------------------------------------------------------------
(***************************************************************************)
(* Shutdown: cmd/router/main.go, Router.Stop.                              *)
(***************************************************************************)

Quit ==
  /\ life = "serving"
  /\ life' = "quitting"
  /\ UNCHANGED <<up, registryVars, callVars, poll>>

\* GracefulStop returns once every open call has.
StopPoller ==
  /\ life = "quitting"
  /\ \A c \in Clients : call[c] = "idle"
  /\ life' = "stopping"
  /\ UNCHANGED <<up, registryVars, callVars, poll>>

\* loop sees stopCh between two rounds, and poller.Stop returns.
PollerExits ==
  /\ life = "stopping"
  /\ RoundOver
  /\ life' = "closing"
  /\ UNCHANGED <<up, registryVars, callVars, poll>>

Close ==
  /\ life = "closing"
  /\ life' = "closed"
  /\ UNCHANGED <<up, registryVars, callVars, poll>>

Terminated == life = "closed" /\ UNCHANGED vars

-----------------------------------------------------------------------------
Handler(c) ==
  \/ Infer(c) \/ NoHealthyWorker(c) \/ (\E w \in Workers : Forward(c, w))
  \/ ForwardOk(c) \/ ForwardError(c) \/ Retry(c) \/ GiveUp(c)

Poller == PollAll \/ \E w \in Workers :
                       PollAnswer(w) \/ PollError(w) \/ PollDone(w)

Shutdown == Quit \/ StopPoller \/ PollerExits \/ Close \/ Terminated

Next ==
  \/ \E w \in Workers : Crash(w) \/ Restart(w)
  \/ \E c \in Clients : Handler(c)
  \/ Poller
  \/ Shutdown

Spec == Init /\ [][Next]_vars

(***************************************************************************)
(* Every goroutine that can run does; a forwarded call ends after ten      *)
(* seconds at the latest, a poll after five; the select of loop does not   *)
(* prefer the ticker to stopCh for ever (Go picks at random); and a worker *)
(* that is up whenever it is polled answers some of the polls.  Calls need *)
(* not arrive, and workers need neither crash nor restart.                 *)
(***************************************************************************)
Advance(c) ==
  \/ NoHealthyWorker(c) \/ (\E w \in Workers : Forward(c, w))
  \/ ForwardOk(c) \/ ForwardError(c) \/ Retry(c) \/ GiveUp(c)

Fairness ==
  /\ \A c \in Clients : WF_vars(Advance(c))
  /\ WF_vars(PollAll)
  /\ \A w \in Workers : /\ WF_vars(PollAnswer(w) \/ PollError(w))
                        /\ SF_vars(PollAnswer(w))
                        /\ WF_vars(PollDone(w))
  /\ WF_vars(StopPoller)
  /\ SF_vars(PollerExits)
  /\ WF_vars(Close)

-----------------------------------------------------------------------------
(***************************************************************************)
(* The two fields that say whether a worker is usable agree, whatever the  *)
(* order in which calls and polls report on it: a worker with a client is  *)
(* healthy exactly while fewer than FailLimit failures are on record, one  *)
(* without never is, nor is it ever called or polled (registry.go 56-60,   *)
(* 76, 95-118; poller.go 65).                                              *)
(***************************************************************************)
HealthFollowsCount ==
  /\ \A w \in connected : healthy[w] <=> failCount[w] < FailLimit
  /\ \A w \in Workers \ connected :
       ~healthy[w] /\ poll[w] = "none" /\ \A c \in Clients : target[c] # w

(***************************************************************************)
(* The connections are closed last: by then no call is being forwarded     *)
(* and no poll is waiting for its answer (main.go 66-67, router.go 112-115,*)
(* poller.go 36-39, 85).                                                   *)
(***************************************************************************)
ClosedLast ==
  life \in {"closing", "closed"} =>
    /\ \A c \in Clients : call[c] = "idle"
    /\ \A w \in Workers : poll[w] = "none"

(***************************************************************************)
(* A worker that is gone for good is excluded for good, even when nobody   *)
(* calls it and although an answer it gave before it went may be recorded  *)
(* afterwards: the polls alone get it there (README.md:20, poller.go       *)
(* 76-79).                                                                 *)
(***************************************************************************)
DeadIsExcluded ==
  \A w \in Workers : <>[]~up[w] => <>[](~healthy[w] \/ ~PollerRuns)

(***************************************************************************)
(* A worker that is back for good becomes usable again and again, whatever *)
(* was on record against it (registry.go UpdateMetrics).                   *)
(***************************************************************************)
RecoveredIsUsed ==
  \A w \in Workers :
    <>[](up[w] /\ w \in connected) => []<>(healthy[w] \/ ~PollerRuns)

(***************************************************************************)
(* Every call returns, whatever the workers do: there are finitely many    *)
(* attempts, although the workers they fail on may be restored meanwhile.  *)
(***************************************************************************)
CallReturns == \A c \in Clients : call[c] # "idle" ~> call[c] = "idle"

(***************************************************************************)
(* A shutdown ends (main.go 62-68): open calls and the round of polls are  *)
(* waited for, and both end.                                               *)
(***************************************************************************)
ShutdownCompletes == life = "quitting" ~> life = "closed"
=============================================================================
