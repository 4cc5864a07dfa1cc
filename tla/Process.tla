------------------------------ MODULE Process ------------------------------
(***************************************************************************)
(* A process of the system from start to exit: main of cmd/router or of    *)
(* cmd/worker, which take the same steps, with the goroutines of its HTTP  *)
(* and gRPC servers and the open Infer calls.  The engine is the goroutine *)
(* behind the calls: the poller of a router, the batcher of a worker.      *)
(* log.Fatalf and a panic end the process there and then, with every       *)
(* goroutine in it; what a shutdown does inside the engine is in Router    *)
(* and Worker.                                                             *)
(***************************************************************************)
EXTENDS Config

CONSTANT Calls   \* Infer calls that may reach the process

VARIABLES
  role,      \* "router" or "worker"
  settings,  \* what Load returned
  main,      \* the step of main that comes next
  engine,    \* "off", "running" or "stopped"
  servers,   \* the goroutine of Serve: "off", "starting" or "serving"
  call,      \* call[x]: "none", "open", "answered" or "refused"
  exit       \* "no", or how the process ended

processVars == <<role, settings, main, engine, servers, call, exit>>

Steps == {"create", "start", "listen", "spawn", "notify", "wait",
          "graceful", "stop", "return"}
Fatal == {"create", "listen", "web", "serve"}   \* log.Fatalf at ...
Exits == Fatal \cup {"panic", "killed", "ok"}

ProcessTypeOK ==
  /\ role \in {"router", "worker"}
  /\ settings \in { Load(env) : env \in Environments }
  /\ main \in Steps
  /\ engine \in {"off", "running", "stopped"}
  /\ servers \in {"off", "starting", "serving"}
  /\ call \in [Calls -> {"none", "open", "answered", "refused"}]
  /\ exit \in Exits \cup {"no"}

Runs == exit = "no"
Open == { x \in Calls : call[x] = "open" }

\* The settings of the other role are of no account.
ProcessInit ==
  /\ \E env \in Environments :
       /\ settings = Load(env)
       /\ \/ role = "router" /\ env.MAX_BATCH_SIZE = Unset
          \/ role = "worker" /\ env.POLL_INTERVAL_MS = Unset
                             /\ env.WORKER_ENDPOINTS = Unset
  /\ main = "create"
  /\ engine = "off"
  /\ servers = "off"
  /\ call = [x \in Calls |-> "none"]
  /\ exit = "no"

-----------------------------------------------------------------------------
(***************************************************************************)
(* main.                                                                   *)
(***************************************************************************)
Step(from, to) == Runs /\ main = from /\ main' = to

Exit(how) ==
  /\ exit' = how
  /\ UNCHANGED <<role, settings, main, engine, servers, call>>

\* router.New fails without endpoints; worker.New never fails.
NewFails == role = "router" /\ ~settings.hasEndpoints

Create ==
  IF NewFails
  THEN Runs /\ main = "create" /\ Exit("create")
  ELSE /\ Step("create", "start")
       /\ UNCHANGED <<role, settings, engine, servers, call, exit>>

\* StartPoller or StartBatcher.
StartEngine ==
  /\ Step("start", "listen")
  /\ engine' = "running"
  /\ UNCHANGED <<role, settings, servers, call, exit>>

Listen ==
  \/ Step("listen", "spawn")
     /\ UNCHANGED <<role, settings, engine, servers, call, exit>>
  \/ Runs /\ main = "listen" /\ Exit("listen")

\* The goroutines of both servers.
Spawn ==
  /\ Step("spawn", "notify")
  /\ servers' = "starting"
  /\ UNCHANGED <<role, settings, engine, call, exit>>

Notify ==
  /\ Step("notify", "wait")
  /\ UNCHANGED <<role, settings, engine, servers, call, exit>>

\* SIGINT or SIGTERM.  Before Notify it kills the process; one that follows
\* stays in quit.
Signal ==
  \/ Runs /\ main \in {"create", "start", "listen", "spawn", "notify"}
          /\ Exit("killed")
  \/ Step("wait", "graceful")
     /\ UNCHANGED <<role, settings, engine, servers, call, exit>>

\* Mutated form: the server is stopped without waiting for the open calls.
StopServerAtOnce ==
  /\ Step("graceful", "stop")
  /\ UNCHANGED <<role, settings, engine, servers, call, exit>>

\* GracefulStop returns when the open calls have.
GracefulStop ==
  /\ Open = {}
  /\ Step("graceful", "stop")
  /\ UNCHANGED <<role, settings, engine, servers, call, exit>>

\* Router.Stop or Worker.Stop, which wait for the goroutine.
StopEngine ==
  /\ Step("stop", "return")
  /\ engine' = "stopped"
  /\ UNCHANGED <<role, settings, servers, call, exit>>

Return == Runs /\ main = "return" /\ Exit("ok")

-----------------------------------------------------------------------------
(***************************************************************************)
(* The goroutines.                                                         *)
(***************************************************************************)
Stopping == main \in {"graceful", "stop", "return"}

\* Serve accepts connections; after GracefulStop it returns an error.
ServeGrpc ==
  /\ Runs /\ servers = "starting"
  /\ IF Stopping
     THEN Exit("serve")
     ELSE /\ servers' = "serving"
          /\ UNCHANGED <<role, settings, main, engine, call, exit>>

\* Serve returns nil after GracefulStop, or the error of its listener.
ServeFails == Runs /\ servers = "serving" /\ ~Stopping /\ Exit("serve")

\* ListenAndServe never returns nil.
ServeHttpFails == Runs /\ servers # "off" /\ Exit("web")

Arrive(x) ==
  /\ Runs /\ servers = "serving" /\ ~Stopping
  /\ call[x] = "none"
  /\ call' = [call EXCEPT ![x] = "open"]
  /\ UNCHANGED <<role, settings, main, engine, servers, exit>>

\* Whether the batcher of a worker ever takes a request out of the queue.
TakesBatches == settings.MaxBatchSize > 0

Answers == \/ role = "router"
           \/ engine = "running" /\ TakesBatches

\* Mutated form: a handler waits for its answer for ever.
FinishAnswered(x) ==
  /\ Runs /\ call[x] = "open" /\ Answers
  /\ call' = [call EXCEPT ![x] = "answered"]
  /\ UNCHANGED <<role, settings, main, engine, servers, exit>>

\* The handler returns: a response, or the error of a batch, of the last
\* attempt, or of a caller that has gone.
Finish(x) ==
  /\ Runs /\ call[x] = "open"
  /\ \/ Answers /\ call' = [call EXCEPT ![x] = "answered"]
     \/ call' = [call EXCEPT ![x] = "refused"]
  /\ UNCHANGED <<role, settings, main, engine, servers, exit>>

\* NewTicker refuses an interval that is not positive; make a negative
\* capacity, when the batcher first finds something in the queue.
EnginePanics ==
  /\ Runs /\ engine = "running"
  /\ \/ role = "router" /\ settings.PollInterval <= 0
     \/ role = "worker" /\ settings.MaxBatchSize < 0
                        /\ \E x \in Calls : call[x] # "none"
  /\ Exit("panic")

Main == \/ Create \/ StartEngine \/ Listen \/ Spawn \/ Notify
        \/ GracefulStop \/ StopEngine \/ Return

ProcessNext ==
  \/ Main \/ Signal
  \/ ServeGrpc \/ ServeFails \/ ServeHttpFails \/ EnginePanics
  \/ \E x \in Calls : Finish(x)

(***************************************************************************)
(* Goroutines that can run do, and a call ends: whoever made it waits ten  *)
(* seconds (router.go 132, loadtest.go 75), and a worker's handler notices *)
(* that; a router's has three attempts.                                    *)
(***************************************************************************)
ProcessFairness ==
  /\ WF_processVars(Main)
  /\ WF_processVars(ServeGrpc)
  /\ WF_processVars(EnginePanics)
  /\ \A x \in Calls : WF_processVars(Finish(x))

-----------------------------------------------------------------------------
(***************************************************************************)
(* A signal costs no call once main waits for it: a call is cut off by a   *)
(* server that fails, by a panic from a setting out of range, or by a      *)
(* signal that comes between the start of Serve and Notify; never by       *)
(* GracefulStop, be it called before Serve, or by the engine's stopping    *)
(* under it (main.go 54-68 of both).                                       *)
(***************************************************************************)
CutOffHasCause ==
  Open # {} =>
    /\ engine = "running"
    /\ \/ exit \in {"no", "web", "panic"}
       \/ exit = "serve" /\ ~Stopping
       \/ exit = "killed" /\ main = "notify"

(***************************************************************************)
(* A shutdown ends, also with MAX_BATCH_SIZE=0, where the batcher answers  *)
(* nobody, and when Serve has not been called yet (main.go 62-69).         *)
(***************************************************************************)
ShutdownEnds == main = "graceful" ~> exit # "no"
=============================================================================
