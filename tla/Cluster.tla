------------------------------- MODULE Cluster -------------------------------
(***************************************************************************)
(* The router with the workers behind it.  Router says when a call is      *)
(* forwarded and when an attempt fails; here every attempt sends a copy of *)
(* the request, which lives on at its worker when the router has given it  *)
(* up: router.go 132 forwards with a context of its own, whose end the     *)
(* worker's handler may notice, but its batcher does not.                  *)
(*                                                                         *)
(* A worker is what Worker is shown to implement, a BatchService; there is *)
(* one instance of it, over the copies of all calls, and every batch is of *)
(* one worker.  A crash forgets what is at the worker.  Of the poller only *)
(* its effect on the registry is here, and the shutdown is not: Router has *)
(* both.                                                                   *)
(***************************************************************************)
EXTENDS Router

CONSTANTS
  MaxBatchSize,  \* MAX_BATCH_SIZE of the workers
  MaxCrashes     \* bound: crashes in a behaviour

ASSUME ClusterAssumption ==
  /\ MaxBatchSize \in Nat \ {0}
  /\ MaxCrashes \in Nat
  /\ Workers \cap {"none", "open", "unavailable"} = {}

\* Each of Clients makes one call here: Copy(c) is its current attempt.
Copies == Clients \X (0 .. MaxAttempts - 1)
Copy(c) == <<c, attempt[c]>>

VARIABLES
  handling,   \* BatchService!call: is a worker's handler open for the copy?
  work,       \* BatchService!work: what became of the copy at its worker
  place,      \* place[x]: the worker to which x was sent
  answer,     \* answer[c]: "none", "open", "unavailable", or the worker
              \* whose result c's client gets
  routed,     \* routed[w]: Router.routingDistribution
  executed,   \* history: copies that were in a successful batch
  silent,     \* history: silent[c]: attempts of c that ended unanswered
  crashes     \* crashes so far

workerVars == <<handling, work, place, executed>>
countVars == <<answer, routed, silent>>
clusterVars == <<vars, workerVars, countVars, crashes>>

Batches == INSTANCE BatchService WITH
  Requests <- Copies, call <- handling

At(w) == { x \in Copies : place[x] = w }

\* The router still waits for the answer to x.
Awaited(x) == call[x[1]] = "forwarded" /\ Copy(x[1]) = x

ClusterTypeOK ==
  /\ TypeOK
  /\ Batches!TypeOK
  /\ place \in [Copies -> Workers \cup {None}]
  /\ answer \in [Clients -> Workers \cup {"none", "open", "unavailable"}]
  /\ routed \in [Workers -> Nat]
  /\ executed \subseteq Copies
  /\ silent \in [Clients -> 0 .. MaxAttempts]
  /\ crashes \in 0 .. MaxCrashes

\* All workers are up and connected when the clients start.
ClusterInit ==
  /\ Init
  /\ connected = Workers
  /\ \A w \in Workers : up[w]
  /\ Batches!Init
  /\ executed = {}
  /\ place = [x \in Copies |-> None]
  /\ answer = [c \in Clients |-> "none"]
  /\ routed = [w \in Workers |-> 0]
  /\ silent = [c \in Clients |-> 0]
  /\ crashes = 0

-----------------------------------------------------------------------------
(***************************************************************************)
(* The router, with what its steps mean to clients and workers.            *)
(***************************************************************************)
Begin(c) ==
  /\ answer[c] = "none"
  /\ Infer(c)
  /\ answer' = [answer EXCEPT ![c] = "open"]
  /\ UNCHANGED <<workerVars, routed, silent, crashes>>

\* Mutated form: the last attempt is not waited for.
RefuseEarly(c) ==
  /\ \/ NoHealthyWorker(c) \/ GiveUp(c)
     \/ /\ call[c] = "forwarded" /\ OutOfAttempts(c) /\ Return(c)
        /\ UNCHANGED <<up, registryVars, poll, life>>
  /\ answer' = [answer EXCEPT ![c] = "unavailable"]
  /\ UNCHANGED <<workerVars, routed, silent, crashes>>

Refuse(c) ==
  /\ NoHealthyWorker(c) \/ GiveUp(c)
  /\ answer' = [answer EXCEPT ![c] = "unavailable"]
  /\ UNCHANGED <<workerVars, routed, silent, crashes>>

\* The worker's handler queues the copy before it looks at its context
\* (server.go 93).  One that arrives late, perhaps when it has been given
\* up, is here one that waits longer in the queue.
Send(c, w) ==
  /\ Forward(c, w)
  /\ \/ up[w] /\ Batches!Accept(Copy(c))
     \/ UNCHANGED <<handling, work>>   \* it never arrives
  /\ place' = [place EXCEPT ![Copy(c)] = w]
  /\ UNCHANGED <<executed, countVars, crashes>>

\* Mutated form: an answer to an earlier attempt is taken as well.
ReceiveAny(c) ==
  /\ \E x \in {c} \X (0 .. MaxAttempts - 1) :
       work[x] = "ok" /\ Batches!Return(x)
  /\ ForwardOk(c)
  /\ routed' = [routed EXCEPT ![target[c]] = @ + 1]
  /\ answer' = [answer EXCEPT ![c] = target[c]]
  /\ UNCHANGED <<place, executed, silent, crashes>>

\* The worker's handler returns its response and the router takes it.
Receive(c) ==
  /\ work[Copy(c)] = "ok" /\ Batches!Return(Copy(c))
  /\ ForwardOk(c)
  /\ routed' = [routed EXCEPT ![target[c]] = @ + 1]
  /\ answer' = [answer EXCEPT ![c] = target[c]]
  /\ UNCHANGED <<place, executed, silent, crashes>>

\* Mutated form: a response is taken for a failure as well.
ReceiveErrorAny(c) ==
  /\ Batches!Return(Copy(c))
  /\ ForwardError(c)
  /\ UNCHANGED <<place, executed, countVars, crashes>>

\* The batch has failed, and the worker's handler says so.
ReceiveError(c) ==
  /\ work[Copy(c)] = "failed" /\ Batches!Return(Copy(c))
  /\ ForwardError(c)
  /\ UNCHANGED <<place, executed, countVars, crashes>>

\* Ten seconds are over, or the connection breaks.
LoseTouch(c) ==
  /\ ForwardError(c)
  /\ silent' = [silent EXCEPT ![c] = @ + 1]
  /\ UNCHANGED <<workerVars, answer, routed, crashes>>

TryAgain(c) ==
  /\ Retry(c)
  /\ UNCHANGED <<workerVars, countVars, crashes>>

\* Whatever a poll records, at any time: it may be late (Router!PollDone).
Polled(w) ==
  /\ UpdateMetrics(w) \/ MarkFailed(w)
  /\ UNCHANGED <<up, connected, callVars, poll, life>>
  /\ UNCHANGED <<workerVars, countVars, crashes>>

-----------------------------------------------------------------------------
(***************************************************************************)
(* The workers.                                                            *)
(***************************************************************************)

Run(w, S, outcome) ==
  /\ up[w]
  /\ S \subseteq At(w)
  /\ Batches!ExecuteBatch(S, outcome)
  /\ executed' = IF outcome = "ok" THEN executed \cup S ELSE executed
  /\ UNCHANGED <<vars, place, countVars, crashes>>

\* The handler of a copy that was given up sees that, or answers nobody.
Abandon(x) ==
  /\ ~Awaited(x)
  /\ IF work[x] = "pending" THEN Batches!Abandon(x) ELSE Batches!Return(x)
  /\ UNCHANGED <<vars, place, executed, countVars, crashes>>

WorkerCrash(w) ==
  /\ crashes < MaxCrashes
  /\ crashes' = crashes + 1
  /\ Crash(w)
  /\ handling' = [x \in Copies |-> IF x \in At(w) THEN "closed" ELSE handling[x]]
  /\ work' = [x \in Copies |-> IF x \in At(w) THEN "none" ELSE work[x]]
  /\ UNCHANGED <<place, executed, countVars>>

WorkerRestart(w) ==
  /\ Restart(w)
  /\ UNCHANGED <<workerVars, countVars, crashes>>

-----------------------------------------------------------------------------
Serve(c) ==
  \/ Begin(c) \/ Refuse(c) \/ (\E w \in Workers : Send(c, w))
  \/ Receive(c) \/ ReceiveError(c) \/ LoseTouch(c) \/ TryAgain(c)

Batcher(w) == \E S \in SUBSET At(w), outcome \in Batches!Outcomes :
                 Run(w, S, outcome)

ClusterNext ==
  \/ \E c \in Clients : Serve(c)
  \/ \E x \in Copies : Abandon(x)
  \/ \E w \in Workers : \/ Batcher(w) \/ Polled(w)
                         \/ WorkerCrash(w) \/ WorkerRestart(w)

ClusterSpec == ClusterInit /\ [][ClusterNext]_clusterVars

-----------------------------------------------------------------------------
(***************************************************************************)
(* What the router counts has been executed where it says: a worker is     *)
(* credited with a response (router.go 137) only for a copy that was in a  *)
(* successful batch of that very worker, and a client's result comes from  *)
(* there, although earlier attempts may still be under way elsewhere, or   *)
(* be answered after they were given up.                                   *)
(***************************************************************************)
RoutedIsExecuted ==
  /\ \A w \in Workers : routed[w] <= Cardinality(executed \cap At(w))
  /\ \A c \in Clients : answer[c] \in Workers =>
       \E x \in executed : x[1] = c /\ place[x] = answer[c]

(***************************************************************************)
(* What a call leaves behind is bounded by the attempts that ended in      *)
(* silence: its copies executed or queued number no more than those, and   *)
(* the attempt that got the result or is still going on.  So a request     *)
(* whose worker answered with an error is in no queue, and of a call that  *)
(* failed nothing is under way but what timed out or broke off (router.go  *)
(* 125-149, server.go 98-106).                                             *)
(***************************************************************************)
LeftBehind(c) ==
  { x \in Copies : x[1] = c /\ (x \in executed \/ work[x] = "pending") }

OrphansAreSilent ==
  \A c \in Clients :
    Cardinality(LeftBehind(c)) <=
      IF answer[c] \in {"none", "unavailable"} THEN silent[c] ELSE silent[c] + 1

(***************************************************************************)
(* Refinement of InferenceService.                                         *)
(***************************************************************************)
Promise == INSTANCE InferenceService WITH
  outcome <- [c \in Clients |-> CASE answer[c] \in Workers -> "ok"
                                  [] answer[c] = "unavailable" -> "error"
                                  [] OTHER -> answer[c]],
  runs <- [c \in Clients |-> Cardinality({ x \in executed : x[1] = c })]

(***************************************************************************)
(* Router and workers together are an InferenceService, whatever crashes,  *)
(* timeouts and retries do.                                                *)
(***************************************************************************)
ImplementsPromise == Promise!Spec
=============================================================================
