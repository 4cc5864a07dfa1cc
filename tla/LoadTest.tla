------------------------------ MODULE LoadTest ------------------------------
(***************************************************************************)
(* The load test (scripts/loadtest.go): clients that send one Infer call   *)
(* after the other until the time is over, against a process that may come *)
(* up late, shut down or fail meanwhile.  -addr may name a router or a     *)
(* worker.  Latencies and priorities are left out: one entry of each slice *)
(* and map is made per answer, under mu.                                   *)
(***************************************************************************)
EXTENDS Process, FiniteSetsExt

CONSTANT Clients   \* the goroutines, -concurrency many

\* A call is a client with the number of the call.  Calls is also the bound
\* on what the clients send.
ASSUME LoadTestAssumption ==
  /\ IsFiniteSet(Clients) /\ IsFiniteSet(Calls)
  /\ Calls \subseteq Clients \X (Nat \ {0})
  /\ \A x \in Calls : \A n \in 1 .. x[2] : <<x[1], n>> \in Calls

VARIABLES
  client,         \* client[k]: "check", "send", "waiting", "count",
                  \* "record", "done"
  sent,           \* sent[k]: calls that k has made
  expired,        \* -duration is over
  totalRequests, totalErrors,
  recorded,       \* len(latencies), and the sum of workerDist
  report          \* what is printed at the end, <<>> before that

clientVars == <<client, sent>>
totalVars == <<totalRequests, totalErrors, recorded>>
testVars == <<clientVars, expired, totalVars, report>>
allVars == <<processVars, testVars>>

Current(k) == <<k, sent[k]>>

LoadTypeOK ==
  /\ ProcessTypeOK
  /\ client \in [Clients -> {"check", "send", "waiting", "count", "record", "done"}]
  /\ sent \in [Clients -> Nat]
  /\ \A k \in Clients : sent[k] = 0 \/ Current(k) \in Calls
  /\ expired \in BOOLEAN
  /\ totalRequests \in Nat /\ totalErrors \in Nat /\ recorded \in Nat

LoadInit ==
  /\ ProcessInit
  /\ client = [k \in Clients |-> "check"]
  /\ sent = [k \in Clients |-> 0]
  /\ expired = FALSE
  /\ totalRequests = 0 /\ totalErrors = 0 /\ recorded = 0
  /\ report = <<>>

-----------------------------------------------------------------------------
At(k, here, there) ==
  client[k] = here /\ client' = [client EXCEPT ![k] = there]

CheckTime(k) ==
  /\ \/ expired /\ At(k, "check", "done")
     \/ /\ ~expired /\ <<k, sent[k] + 1>> \in Calls
        /\ At(k, "check", "send")
  /\ UNCHANGED <<processVars, sent, expired, totalVars, report>>

Send(k) ==
  /\ At(k, "send", "waiting")
  /\ sent' = [sent EXCEPT ![k] = @ + 1]
  /\ UNCHANGED <<processVars, expired, totalVars, report>>

\* The call reaches the process, perhaps when its client has given it up.
Deliver(x) ==
  /\ x[2] <= sent[x[1]]
  /\ Arrive(x)
  /\ UNCHANGED testVars

\* Mutated form: the answer to a call that was given up is taken for that
\* to the current one.
ReceiveStale(k) ==
  /\ \E n \in 1 .. sent[k] : call[<<k, n>>] = "answered"
  /\ At(k, "waiting", "count")
  /\ UNCHANGED <<processVars, sent, expired, totalVars, report>>

Receive(k) ==
  /\ client[k] = "waiting" /\ call[Current(k)] = "answered"
  /\ At(k, "waiting", "count")
  /\ UNCHANGED <<processVars, sent, expired, totalVars, report>>

\* Mutated form: the client repeats the call at once, whatever the time.
ReceiveErrorRepeats(k) ==
  /\ At(k, "waiting", "send")
  /\ sent' = [sent EXCEPT ![k] = @ - 1]
  /\ UNCHANGED <<processVars, expired, totalVars, report>>

\* The process cannot be reached or refuses, or ten seconds are over.
ReceiveError(k) ==
  /\ At(k, "waiting", "check")
  /\ totalErrors' = totalErrors + 1
  /\ UNCHANGED <<processVars, sent, expired, totalRequests, recorded, report>>

Count(k) ==
  /\ At(k, "count", "record")
  /\ totalRequests' = totalRequests + 1
  /\ UNCHANGED <<processVars, sent, expired, totalErrors, recorded, report>>

\* What is done under mu.
Record(k) ==
  /\ At(k, "record", "check")
  /\ recorded' = recorded + 1
  /\ UNCHANGED <<processVars, sent, expired, totalRequests, totalErrors, report>>

Expire ==
  /\ ~expired
  /\ expired' = TRUE
  /\ UNCHANGED <<processVars, clientVars, totalVars, report>>

\* Mutated form: the clients are not waited for.
ReadyAtOnce == expired

\* wg.Wait returns.
Ready == \A k \in Clients : client[k] = "done"

Report ==
  /\ report = <<>>
  /\ Ready
  /\ report' = <<totalRequests, totalErrors, recorded>>
  /\ UNCHANGED <<processVars, clientVars, expired, totalVars>>

Over == report # <<>> /\ ~Runs /\ UNCHANGED allVars

-----------------------------------------------------------------------------
Client(k) == CheckTime(k) \/ Send(k) \/ Receive(k) \/ ReceiveError(k)
               \/ Count(k) \/ Record(k)

LoadNext ==
  \/ ProcessNext /\ UNCHANGED testVars
  \/ \E x \in Calls : Deliver(x)
  \/ \E k \in Clients : Client(k)
  \/ Expire \/ Report \/ Over

(***************************************************************************)
(* The clock of the test goes on, and its goroutines run; nothing makes    *)
(* the process answer, or keeps it alive.                                  *)
(***************************************************************************)
LoadSpec ==
  /\ LoadInit /\ [][LoadNext]_allVars
  /\ ProcessFairness
  /\ WF_allVars(Expire) /\ WF_allVars(Report)
  /\ \A k \in Clients : WF_allVars(Client(k))

-----------------------------------------------------------------------------
(***************************************************************************)
(* The numbers of a report fit together, whatever calls the end of the     *)
(* test cuts through: every answer has its latency and worker, and every   *)
(* call made is in the report (loadtest.go 84-98, 103-145).                *)
(***************************************************************************)
ReportAddsUp ==
  report # <<>> =>
    /\ report[1] = report[3]
    /\ report[1] + report[2] = MapThenSumSet(LAMBDA k : sent[k], Clients)

(***************************************************************************)
(* What the test counts was answered by the process: an answer to a call   *)
(* that had timed out, or that the process gave just before it ended, is   *)
(* never counted twice or for another call (loadtest.go 76-92).            *)
(***************************************************************************)
CountsAreAnswers ==
  totalRequests + Cardinality({ k \in Clients : client[k] = "count" }) <=
    Cardinality({ x \in Calls : call[x] = "answered" })

(***************************************************************************)
(* The test ends once its time is over, whatever the process does: it may  *)
(* never come up, or answer nobody (loadtest.go 55-59, 75, 103).           *)
(***************************************************************************)
LoadTestEnds == expired ~> report # <<>>
=============================================================================
