--------------------------- MODULE LoadTestProofs ---------------------------
(***************************************************************************)
(* Proofs about LoadTest and the Process that it is run against, for any   *)
(* clients and calls.                                                      *)
(***************************************************************************)
EXTENDS LoadTest, Induction

(***************************************************************************)
(* Types.  A client only sends a call that it may make.                    *)
(***************************************************************************)
Typed ==
  /\ LoadTypeOK
  /\ \A k \in Clients : client[k] = "send" => <<k, sent[k] + 1>> \in Calls

LEMMA TypedInit == LoadInit => Typed
<1> SUFFICES ASSUME LoadInit PROVE Typed
  OBVIOUS
<1>1. PICK env \in Environments : settings = Load(env) /\ role \in {"router", "worker"}
  BY DEF LoadInit, ProcessInit
<1>2. ProcessTypeOK
  BY <1>1 DEF LoadInit, ProcessInit, ProcessTypeOK, Steps
<1> QED
  BY <1>2 DEF LoadInit, Typed, LoadTypeOK

LEMMA ProcessTypes == ProcessTypeOK /\ ProcessNext => ProcessTypeOK'
<1> SUFFICES ASSUME ProcessTypeOK, ProcessNext PROVE ProcessTypeOK'
  OBVIOUS
<1> USE DEF ProcessTypeOK, Steps, Fatal, Exits
<1>1. CASE Main
  BY <1>1 DEF Main, Create, StartEngine, Listen, Spawn, Notify, GracefulStop,
              StopEngine, Return, Step, Exit
<1>2. CASE Signal \/ ServeGrpc \/ ServeFails \/ ServeHttpFails \/ EnginePanics
  BY <1>2 DEF Signal, ServeGrpc, ServeFails, ServeHttpFails, EnginePanics, Step, Exit
<1>3. ASSUME NEW x \in Calls, Finish(x) PROVE ProcessTypeOK'
  BY <1>3 DEF Finish
<1> QED
  BY <1>1, <1>2, <1>3 DEF ProcessNext

LEMMA TypedStep == Typed /\ [LoadNext]_allVars => Typed'
<1> SUFFICES ASSUME Typed, [LoadNext]_allVars PROVE Typed'
  OBVIOUS
<1>1. CASE ProcessNext /\ UNCHANGED testVars
  BY <1>1, ProcessTypes DEF Typed, LoadTypeOK, testVars, clientVars, totalVars, Current
<1>2. ASSUME NEW x \in Calls, Deliver(x) PROVE Typed'
  <2>1. ProcessTypeOK'
    BY <1>2 DEF Deliver, Arrive, Typed, LoadTypeOK, ProcessTypeOK
  <2> QED
    BY <1>2, <2>1 DEF Deliver, Typed, LoadTypeOK, testVars, clientVars, totalVars, Current
<1>3. ASSUME NEW k \in Clients, Client(k) PROVE Typed'
  <2>1. ProcessTypeOK' /\ UNCHANGED expired
    BY <1>3 DEF Client, CheckTime, Send, Receive, ReceiveError, Count, Record,
                processVars, totalVars, Typed, LoadTypeOK, ProcessTypeOK
  <2> USE DEF Typed, LoadTypeOK, Current, At, totalVars
  <2>2. CASE CheckTime(k)
    BY <2>1, <2>2 DEF CheckTime
  <2>3. CASE Send(k)
    BY <2>1, <2>3 DEF Send
  <2>4. CASE Receive(k) \/ ReceiveError(k)
    BY <2>1, <2>4 DEF Receive, ReceiveError
  <2>5. CASE Count(k) \/ Record(k)
    BY <2>1, <2>5 DEF Count, Record
  <2> QED
    BY <1>3, <2>2, <2>3, <2>4, <2>5 DEF Client
<1>4. CASE Expire \/ Report
  BY <1>4 DEF Expire, Report, Typed, LoadTypeOK, ProcessTypeOK, Current, processVars,
              clientVars, totalVars
<1>5. CASE UNCHANGED allVars
  BY <1>5 DEF Typed, LoadTypeOK, ProcessTypeOK, Current, allVars, testVars,
              processVars, clientVars, totalVars
<1> QED
  BY <1>1, <1>2, <1>3, <1>4, <1>5 DEF LoadNext, Over

(***************************************************************************)
(* The variables of process and test have their types; no client makes     *)
(* more calls than Calls allows.                                           *)
(***************************************************************************)
THEOREM LoadTypeCorrect == LoadSpec => []LoadTypeOK
<1>1. LoadSpec => []Typed
  BY TypedInit, TypedStep, PTL DEF LoadSpec
<1> QED
  BY <1>1, PTL DEF Typed

-----------------------------------------------------------------------------
(***************************************************************************)
(* What CutOffHasCause needs to be inductive: how far main is whenever the *)
(* servers or the engine run, or a call is open.                           *)
(***************************************************************************)
Stages ==
  /\ servers # "off" => main \in {"notify", "wait", "graceful", "stop", "return"}
  /\ engine = "running" <=>
       main \in {"listen", "spawn", "notify", "wait", "graceful", "stop"}
  /\ Open # {} => servers = "serving" /\ main \in {"notify", "wait", "graceful"}

Orderly == Stages /\ CutOffHasCause

LEMMA OrderlyInit == LoadInit => Orderly
  BY DEF LoadInit, ProcessInit, Orderly, Stages, CutOffHasCause, Open

(***************************************************************************)
(* An exit that cuts off no call, or has a cause to.                       *)
(***************************************************************************)
Harmless(how) == \/ Open = {}
                 \/ how \in {"web", "panic"}
                 \/ how = "serve" /\ ~Stopping
                 \/ how = "killed" /\ main = "notify"

LEMMA ExitStep ==
  ASSUME Orderly, NEW how, Runs, Exit(how), Harmless(how)
  PROVE  Orderly'
  BY DEF Harmless, Orderly, Stages, CutOffHasCause, Open, Exit, Runs, Stopping

LEMMA ProcessStep == Orderly /\ ProcessNext => Orderly'
<1> SUFFICES ASSUME Orderly, ProcessNext PROVE Orderly'
  OBVIOUS
<1>1. Open # {} => servers = "serving" /\ main \in {"notify", "wait", "graceful"}
  BY DEF Orderly, Stages
<1>2. ASSUME NEW how, Runs, Exit(how), Harmless(how) PROVE Orderly'
  BY <1>2, ExitStep
<1>3. CASE Create
  <2>1. CASE NewFails
    BY <1>1, <1>2, <1>3, <2>1 DEF Create, Harmless
  <2>2. CASE ~NewFails
    BY <1>3, <2>2 DEF Create, Step, Runs, Orderly, Stages, CutOffHasCause, Open, Stopping
  <2> QED
    BY <2>1, <2>2
<1>4. CASE Listen
  <2>1. CASE Exit("listen")
    BY <1>1, <1>2, <1>4, <2>1 DEF Listen, Step, Runs, Exit, Harmless
  <2>2. CASE Step("listen", "spawn") /\ UNCHANGED <<role, settings, engine, servers, call, exit>>
    BY <2>2 DEF Step, Runs, Orderly, Stages, CutOffHasCause, Open, Stopping
  <2> QED
    BY <1>4, <2>1, <2>2 DEF Listen
<1>5. CASE StartEngine \/ Spawn \/ Notify
  BY <1>5 DEF StartEngine, Spawn, Notify, Step, Runs, Orderly, Stages,
              CutOffHasCause, Open, Stopping
<1>6. CASE GracefulStop \/ StopEngine
  BY <1>6 DEF GracefulStop, StopEngine, Step, Runs, Orderly, Stages,
              CutOffHasCause, Open, Stopping
<1>7. CASE Return
  BY <1>1, <1>2, <1>7 DEF Return, Harmless
<1>8. CASE Signal
  <2>1. CASE Exit("killed") /\ Runs /\ main \in {"create", "start", "listen", "spawn", "notify"}
    BY <1>1, <1>2, <2>1 DEF Harmless
  <2>2. CASE Step("wait", "graceful") /\ UNCHANGED <<role, settings, engine, servers, call, exit>>
    BY <2>2 DEF Step, Runs, Orderly, Stages, CutOffHasCause, Open, Stopping
  <2> QED
    BY <1>8, <2>1, <2>2 DEF Signal
<1>9. CASE ServeGrpc
  <2>1. CASE Stopping
    BY <1>1, <1>2, <1>9, <2>1 DEF ServeGrpc, Harmless
  <2>2. CASE ~Stopping
    BY <1>9, <2>2 DEF ServeGrpc, Runs, Orderly, Stages, CutOffHasCause, Open, Stopping
  <2> QED
    BY <2>1, <2>2
<1>10. CASE ServeFails \/ ServeHttpFails \/ EnginePanics
  BY <1>2, <1>10 DEF Harmless, ServeFails, ServeHttpFails, EnginePanics
<1>11. ASSUME NEW x \in Calls, Finish(x) PROVE Orderly'
  BY <1>11 DEF Finish, Runs, Orderly, Stages, CutOffHasCause, Open, Stopping
<1> QED
  BY <1>3, <1>4, <1>5, <1>6, <1>7, <1>8, <1>9, <1>10, <1>11 DEF ProcessNext, Main

LEMMA OrderlyStep == Orderly /\ [LoadNext]_allVars => Orderly'
<1> SUFFICES ASSUME Orderly, [LoadNext]_allVars PROVE Orderly'
  OBVIOUS
<1>1. CASE ProcessNext
  BY <1>1, ProcessStep
<1>2. ASSUME NEW x \in Calls, Deliver(x) PROVE Orderly'
  BY <1>2 DEF Deliver, Arrive, Orderly, Stages, CutOffHasCause, Open, Runs, Stopping
<1>3. CASE UNCHANGED processVars
  BY <1>3 DEF processVars, Orderly, Stages, CutOffHasCause, Open, Stopping
<1> QED
  BY <1>1, <1>2, <1>3
  DEF LoadNext, allVars, Client, CheckTime, Send, Receive, ReceiveError, Count,
      Record, Expire, Report, Over

(***************************************************************************)
(* Whatever the settings and whenever the signal comes, no call is cut off *)
(* by the shutdown itself (main.go 62-69 of both processes).               *)
(***************************************************************************)
THEOREM CutOffsHaveCause == LoadSpec => []CutOffHasCause
<1>1. LoadSpec => []Orderly
  BY OrderlyInit, OrderlyStep, PTL DEF LoadSpec
<1> QED
  BY <1>1, PTL DEF Orderly
-----------------------------------------------------------------------------
(***************************************************************************)
(* S holds the calls that totalRequests stands for: all of them answered,  *)
(* and none that its client has still to count.                            *)
(***************************************************************************)
Counted(S) ==
  /\ \A x \in S : call[x] = "answered" /\ x[2] <= sent[x[1]]
  /\ \A k \in Clients : Current(k) \in S => client[k] \notin {"waiting", "count"}
  /\ Cardinality(S) = totalRequests

(***************************************************************************)
(* CountsAreAnswers made inductive.                                        *)
(***************************************************************************)
Attributed ==
  /\ \A k \in Clients :
       /\ client[k] \in {"waiting", "count"} => Current(k) \in Calls
       /\ client[k] = "count" => call[Current(k)] = "answered"
  /\ \E S \in SUBSET Calls : Counted(S)

LEMMA AttributedInit == LoadInit => Attributed
<1> SUFFICES ASSUME LoadInit PROVE Attributed
  OBVIOUS
<1>1. Counted({})
  BY FS_EmptySet DEF LoadInit, Counted
<1> QED
  BY <1>1 DEF LoadInit, Attributed

(***************************************************************************)
(* Nothing takes an answer back.                                           *)
(***************************************************************************)
LEMMA AnswersStay ==
  ASSUME ProcessTypeOK,
         ProcessNext \/ (\E x \in Calls : Arrive(x)) \/ UNCHANGED call
  PROVE  \A y \in Calls : call[y] = "answered" => call'[y] = "answered"
<1>1. CASE Main
  BY <1>1 DEF Main, Create, StartEngine, Listen, Spawn, Notify, GracefulStop,
              StopEngine, Return, Step, Exit, Open, ProcessTypeOK
<1>2. CASE Signal \/ ServeGrpc \/ ServeFails \/ ServeHttpFails \/ EnginePanics
  BY <1>2 DEF Signal, ServeGrpc, ServeFails, ServeHttpFails, EnginePanics, Step,
              Exit, Open, ProcessTypeOK
<1>3. ASSUME NEW x \in Calls, Finish(x) \/ Arrive(x)
      PROVE  \A y \in Calls : call[y] = "answered" => call'[y] = "answered"
  BY <1>3 DEF Finish, Arrive, ProcessTypeOK
<1> QED
  BY <1>1, <1>2, <1>3 DEF ProcessNext

(***************************************************************************)
(* A step that leaves the clients alone.                                   *)
(***************************************************************************)
LEMMA SameClients ==
  ASSUME Attributed, UNCHANGED <<clientVars, totalRequests>>,
         \A y \in Calls : call[y] = "answered" => call'[y] = "answered"
  PROVE  Attributed'
<1>1. PICK S \in SUBSET Calls : Counted(S)
  BY DEF Attributed
<1>2. Counted(S)'
  BY <1>1 DEF Counted, Current, clientVars
<1> QED
  BY <1>2 DEF Attributed, Current, clientVars

(***************************************************************************)
(* A step of a client.                                                     *)
(***************************************************************************)
LEMMA ClientStep ==
  ASSUME Typed, Attributed, NEW k \in Clients, Client(k)
  PROVE  Attributed'
<1> USE DEF Current, Typed, LoadTypeOK, At, totalVars
<1>0. UNCHANGED call
  BY DEF Client, CheckTime, Send, Receive, ReceiveError, Count, Record, processVars
<1>1. PICK S \in SUBSET Calls : Counted(S)
  BY DEF Attributed
<1>2. \A x \in S : x \in Clients \X (Nat \ {0})
  BY LoadTestAssumption
<1>3. CASE CheckTime(k) \/ Record(k) \/ ReceiveError(k)
  <2>1. Counted(S)'
    BY <1>0, <1>1, <1>3 DEF Counted, CheckTime, Record, ReceiveError
  <2> QED
    BY <1>0, <1>3, <2>1 DEF Attributed, CheckTime, Record, ReceiveError
<1>4. CASE Send(k)
  <2>1. sent[k] + 1 > sent[k] /\ <<k, sent[k] + 1>> \notin S
    BY <1>1 DEF Counted
  <2>2. \A x \in S : x[2] <= sent'[x[1]]
    BY <1>1, <1>2, <1>4 DEF Counted, Send
  <2>3. Counted(S)'
    BY <1>0, <1>1, <1>4, <2>1, <2>2 DEF Counted, Send
  <2> QED
    BY <1>0, <1>4, <2>3 DEF Attributed, Send
<1>5. CASE Receive(k)
  <2>1. Counted(S)'
    BY <1>0, <1>1, <1>5 DEF Counted, Receive
  <2> QED
    BY <1>0, <1>5, <2>1 DEF Attributed, Receive
<1>6. CASE Count(k)
  <2> DEFINE T == S \cup {Current(k)}
  <2>1. Current(k) \in Calls /\ call[Current(k)] = "answered" /\ Current(k) \notin S
    BY <1>1, <1>6 DEF Attributed, Counted, Count
  <2>2. IsFiniteSet(S)
    BY LoadTestAssumption, FS_Subset
  <2>3. Cardinality(T) = totalRequests + 1
    BY <1>1, <2>1, <2>2, FS_AddElement DEF Counted
  <2>4. \A x \in T : call[x] = "answered" /\ x[2] <= sent[x[1]]
    BY <1>1, <2>1 DEF Counted
  <2>5. \A j \in Clients : Current(j) \in T => client'[j] \notin {"waiting", "count"}
    BY <1>1, <1>6 DEF Counted, Count
  <2>6. Counted(T)'
    BY <1>0, <1>6, <2>3, <2>4, <2>5 DEF Counted, Count
  <2> QED
    BY <1>0, <1>6, <2>1, <2>6 DEF Attributed, Count
<1> QED
  BY <1>3, <1>4, <1>5, <1>6 DEF Client

LEMMA AttributedStep == Typed /\ Attributed /\ [LoadNext]_allVars => Attributed'
<1> SUFFICES ASSUME Typed, Attributed, [LoadNext]_allVars PROVE Attributed'
  OBVIOUS
<1>1. ASSUME NEW k \in Clients, Client(k) PROVE Attributed'
  BY <1>1, ClientStep
<1>2. CASE ProcessNext /\ UNCHANGED testVars
  BY <1>2, AnswersStay, SameClients DEF Typed, LoadTypeOK, testVars, clientVars, totalVars
<1>3. ASSUME NEW x \in Calls, Deliver(x) PROVE Attributed'
  BY <1>3, AnswersStay, SameClients DEF Deliver, Typed, LoadTypeOK, testVars,
     clientVars, totalVars
<1>4. CASE Expire \/ Report \/ UNCHANGED allVars
  BY <1>4, AnswersStay, SameClients DEF Expire, Report, Typed, LoadTypeOK, allVars,
     testVars, processVars, clientVars, totalVars
<1> QED
  BY <1>1, <1>2, <1>3, <1>4 DEF LoadNext, Over

LEMMA AttributedMeans == Typed /\ Attributed => CountsAreAnswers
<1> SUFFICES ASSUME Typed, Attributed PROVE CountsAreAnswers
  OBVIOUS
<1> DEFINE K == { k \in Clients : client[k] = "count" }
           D == { Current(k) : k \in K }
           A == { x \in Calls : call[x] = "answered" }
           f == [k \in K |-> Current(k)]
<1>1. PICK S \in SUBSET Calls : Counted(S)
  BY DEF Attributed
<1>2. S \in SUBSET A /\ D \in SUBSET A /\ S \cap D = {}
  BY <1>1 DEF Counted, Attributed
<1>3. IsFiniteSet(A)
  BY LoadTestAssumption, FS_Subset
<1>4. /\ IsFiniteSet(S) /\ IsFiniteSet(D)
      /\ Cardinality(S \cup D) <= Cardinality(A)
  <2>1. S \cup D \in SUBSET A
    BY <1>2
  <2> QED
    BY <1>2, <1>3, <2>1, FS_Subset
<1>5. Cardinality(S \cup D) = Cardinality(S) + Cardinality(D)
  <2>1. Cardinality(S \cap D) = 0
    BY <1>2, FS_EmptySet
  <2> QED
    BY <1>4, <2>1, FS_Union, FS_CardinalityType
<1>6. IsFiniteSet(K) /\ Cardinality(K) <= Cardinality(D)
  <2>1. f \in [K -> D] /\ \A a, b \in K : f[a] = f[b] => a = b
    BY DEF Current
  <2>2. f \in Injection(K, D)
    BY <2>1 DEF Injection, IsInjective
  <2> QED
    BY <1>4, <2>2, FS_Injection
<1>7. /\ Cardinality(K) \in Nat /\ Cardinality(D) \in Nat
      /\ Cardinality(S) \in Nat /\ Cardinality(A) \in Nat
  BY <1>3, <1>4, <1>6, FS_CardinalityType
<1>8. totalRequests = Cardinality(S)
  BY <1>1 DEF Counted
<1> QED
  BY <1>4, <1>5, <1>6, <1>7, <1>8 DEF CountsAreAnswers

(***************************************************************************)
(* However late the answers come, and whenever the process ends, the test  *)
(* counts no more calls than the process answered (loadtest.go 76-92).     *)
(***************************************************************************)
THEOREM CountsAreAnswered == LoadSpec => []CountsAreAnswers
<1>1. LoadSpec => [](Typed /\ Attributed)
  BY TypedInit, TypedStep, AttributedInit, AttributedStep, PTL DEF LoadSpec
<1> QED
  BY <1>1, AttributedMeans, PTL

-----------------------------------------------------------------------------
(***************************************************************************)
(* The numbers of the report.  InState(c, states) has a 1 for every client *)
(* that is in one of the states.                                           *)
(***************************************************************************)
InState(c, states) == [k \in Clients |-> IF c[k] \in states THEN 1 ELSE 0]

Unrecorded == {"record"}
Uncounted == {"waiting", "count"}

(***************************************************************************)
(* ReportAddsUp made inductive: the counts are complete but for what the   *)
(* clients have still to add, which is nothing once they are done.         *)
(***************************************************************************)
CountsAddUp ==
  /\ totalRequests = recorded + Total(InState(client, Unrecorded))
  /\ totalRequests + totalErrors + Total(InState(client, Uncounted)) = Total(sent)

ReportIsFinal ==
  report # <<>> => /\ \A k \in Clients : client[k] = "done"
                   /\ report = <<totalRequests, totalErrors, recorded>>

Accounted == CountsAddUp /\ ReportIsFinal

LEMMA InStateType ==
  ASSUME NEW c, NEW states
  PROVE  /\ InState(c, states) \in [Clients -> Int]
         /\ Total(InState(c, states)) \in Int
<1>1. InState(c, states) \in [Clients -> Int]
  BY DEF InState
<1> QED
  BY <1>1, TotalType, LoadTestAssumption

(***************************************************************************)
(* How many clients are in a set of states, when one goes from here to     *)
(* there.                                                                  *)
(***************************************************************************)
LEMMA InStateChange ==
  ASSUME Typed, NEW k \in Clients, NEW here, NEW there, At(k, here, there), NEW states
  PROVE  Total(InState(client', states)) =
           Total(InState(client, states)) - (IF here \in states THEN 1 ELSE 0)
                                          + (IF there \in states THEN 1 ELSE 0)
<1> DEFINE f == InState(client, states)
           v == IF there \in states THEN 1 ELSE 0
<1>1. client' = [client EXCEPT ![k] = there] /\ client[k] = here /\ DOMAIN client = Clients
  BY DEF At, Typed, LoadTypeOK
<1>2. InState(client', states) = [f EXCEPT ![k] = v]
  BY <1>1 DEF InState
<1>3. f[k] = IF here \in states THEN 1 ELSE 0
  BY <1>1 DEF InState
<1>4. f \in [Clients -> Int] /\ v \in Int
  BY InStateType
<1> HIDE DEF f, v
<1>5. Total([f EXCEPT ![k] = v]) = Total(f) - f[k] + v
  BY <1>4, TotalChange, LoadTestAssumption
<1> QED
  BY <1>2, <1>3, <1>5 DEF f, v

LEMMA AccountedInit == LoadInit => Accounted
<1> SUFFICES ASSUME LoadInit PROVE Accounted
  OBVIOUS
<1>1. \A S \in {Unrecorded, Uncounted}, k \in Clients : InState(client, S)[k] = 0
  BY DEF LoadInit, InState, Unrecorded, Uncounted
<1>2. /\ Total(InState(client, Unrecorded)) = 0
      /\ Total(InState(client, Uncounted)) = 0
  BY <1>1, InStateType, TotalOfZeros, LoadTestAssumption
<1>3. Total(sent) = 0
  <2>1. sent \in [Clients -> Int] /\ \A k \in Clients : sent[k] = 0
    BY DEF LoadInit
  <2> QED
    BY <2>1, TotalOfZeros, LoadTestAssumption
<1> QED
  BY <1>2, <1>3 DEF LoadInit, Accounted, CountsAddUp, ReportIsFinal

LEMMA AccountedStep == Typed /\ Accounted /\ [LoadNext]_allVars => Accounted'
<1> SUFFICES ASSUME Typed, Accounted, [LoadNext]_allVars PROVE Accounted'
  OBVIOUS
<1>1. /\ totalRequests \in Int /\ totalErrors \in Int /\ recorded \in Int
      /\ Total(InState(client, Unrecorded)) \in Int
      /\ Total(InState(client, Uncounted)) \in Int
      /\ Total(sent) \in Int
  <2>1. sent \in [Clients -> Int]
    BY DEF Typed, LoadTypeOK
  <2> QED
    BY <2>1, InStateType, TotalType, LoadTestAssumption DEF Typed, LoadTypeOK
<1>2. ASSUME NEW k \in Clients, Client(k) PROVE Accounted'
  <2>0. /\ Total(InState(client, Unrecorded)') = Total(InState(client', Unrecorded))
        /\ Total(InState(client, Uncounted)') = Total(InState(client', Uncounted))
    BY DEF InState, Unrecorded, Uncounted
  <2>1. client[k] # "done" /\ report = <<>> /\ UNCHANGED report
    BY <1>2 DEF Client, CheckTime, Send, Receive, ReceiveError, Count, Record, At,
                Accounted, ReportIsFinal
  <2>2. CASE CheckTime(k)
    <3>1. PICK there \in {"send", "done"} : At(k, "check", there)
      BY <2>2 DEF CheckTime
    <3>2. /\ Total(InState(client', Unrecorded)) = Total(InState(client, Unrecorded))
          /\ Total(InState(client', Uncounted)) = Total(InState(client, Uncounted))
      BY <1>1, <3>1, InStateChange DEF Unrecorded, Uncounted
    <3> QED
      BY <2>0, <2>1, <2>2, <3>2 DEF CheckTime, Accounted, CountsAddUp, ReportIsFinal, totalVars
  <2>3. CASE Send(k)
    <3>1. /\ Total(InState(client', Unrecorded)) = Total(InState(client, Unrecorded))
          /\ Total(InState(client', Uncounted)) = Total(InState(client, Uncounted)) + 1
      BY <1>1, <2>3, InStateChange DEF Send, Unrecorded, Uncounted
    <3>2. Total(sent') = Total(sent) + 1
      <4>1. sent \in [Clients -> Int] /\ sent[k] \in Int /\ sent[k] + 1 \in Int
        BY DEF Typed, LoadTypeOK
      <4>2. Total([sent EXCEPT ![k] = sent[k] + 1]) = Total(sent) - sent[k] + (sent[k] + 1)
        BY <4>1, TotalChange, LoadTestAssumption
      <4>3. sent' = [sent EXCEPT ![k] = sent[k] + 1]
        BY <2>3 DEF Send
      <4> QED
        BY <1>1, <4>1, <4>2, <4>3
    <3> QED
      BY <1>1, <2>0, <2>1, <2>3, <3>1, <3>2
      DEF Send, Accounted, CountsAddUp, ReportIsFinal, totalVars
  <2>4. CASE Receive(k)
    <3>1. /\ Total(InState(client', Unrecorded)) = Total(InState(client, Unrecorded))
          /\ Total(InState(client', Uncounted)) = Total(InState(client, Uncounted))
      BY <1>1, <2>4, InStateChange DEF Receive, Unrecorded, Uncounted
    <3> QED
      BY <2>0, <2>1, <2>4, <3>1 DEF Receive, Accounted, CountsAddUp, ReportIsFinal, totalVars
  <2>5. CASE ReceiveError(k)
    <3>1. /\ Total(InState(client', Unrecorded)) = Total(InState(client, Unrecorded))
          /\ Total(InState(client', Uncounted)) = Total(InState(client, Uncounted)) - 1
      BY <1>1, <2>5, InStateChange DEF ReceiveError, Unrecorded, Uncounted
    <3> QED
      BY <1>1, <2>0, <2>1, <2>5, <3>1 DEF ReceiveError, Accounted, CountsAddUp, ReportIsFinal
  <2>6. CASE Count(k)
    <3>1. /\ Total(InState(client', Unrecorded)) = Total(InState(client, Unrecorded)) + 1
          /\ Total(InState(client', Uncounted)) = Total(InState(client, Uncounted)) - 1
      BY <1>1, <2>6, InStateChange DEF Count, Unrecorded, Uncounted
    <3>2. totalRequests' = totalRequests + 1 /\ UNCHANGED <<totalErrors, recorded, sent>>
      BY <2>6 DEF Count
    <3>3. CountsAddUp'
      BY <1>1, <2>0, <3>1, <3>2 DEF Accounted, CountsAddUp
    <3> QED
      BY <2>1, <3>3 DEF Accounted, ReportIsFinal
  <2>7. CASE Record(k)
    <3>1. /\ Total(InState(client', Unrecorded)) = Total(InState(client, Unrecorded)) - 1
          /\ Total(InState(client', Uncounted)) = Total(InState(client, Uncounted))
      BY <1>1, <2>7, InStateChange DEF Record, Unrecorded, Uncounted
    <3> QED
      BY <1>1, <2>0, <2>1, <2>7, <3>1 DEF Record, Accounted, CountsAddUp, ReportIsFinal
  <2> QED
    BY <1>2, <2>2, <2>3, <2>4, <2>5, <2>6, <2>7 DEF Client
<1>3. CASE Report
  BY <1>3 DEF Report, Ready, Accounted, CountsAddUp, ReportIsFinal, clientVars, totalVars
<1>4. CASE UNCHANGED <<clientVars, totalVars, report>>
  BY <1>4 DEF Accounted, CountsAddUp, ReportIsFinal, clientVars, totalVars
<1> QED
  BY <1>2, <1>3, <1>4 DEF LoadNext, Deliver, Expire, Over, allVars, testVars, clientVars, totalVars

LEMMA AccountedMeans == Typed /\ Accounted => ReportAddsUp
<1> SUFFICES ASSUME Typed, Accounted, report # <<>>
             PROVE  /\ report[1] = report[3]
                    /\ report[1] + report[2] = MapThenSumSet(LAMBDA k : sent[k], Clients)
  BY DEF ReportAddsUp
<1>0. Total(sent) = MapThenSumSet(LAMBDA k : sent[k], Clients)
  <2> DEFINE SumOver(D) == MapThenFoldSet(+, 0, LAMBDA k : sent[k],
                                          LAMBDA s : CHOOSE x \in s : TRUE, D)
  <2>1. Total(sent) = SumOver(DOMAIN sent)
    BY DEF Total, FoldFunction, FoldFunctionOnSet, MapThenFoldSet
  <2>2. MapThenSumSet(LAMBDA k : sent[k], Clients) = SumOver(Clients)
    BY DEF MapThenSumSet, MapThenFoldSet
  <2>3. DOMAIN sent = Clients
    BY DEF Typed, LoadTypeOK
  <2> HIDE DEF SumOver
  <2> QED
    BY <2>1, <2>2, <2>3
<1>1. \A S \in {Unrecorded, Uncounted}, k \in Clients : InState(client, S)[k] = 0
  BY DEF Accounted, ReportIsFinal, InState, Unrecorded, Uncounted
<1>2. /\ Total(InState(client, Unrecorded)) = 0
      /\ Total(InState(client, Uncounted)) = 0
  BY <1>1, InStateType, TotalOfZeros, LoadTestAssumption
<1> QED
  BY <1>0, <1>2 DEF Accounted, CountsAddUp, ReportIsFinal, Typed, LoadTypeOK

(***************************************************************************)
(* For any finite set of clients, and whatever the end of the test cuts    *)
(* through, the numbers of the report fit together (loadtest.go 84-98,     *)
(* 103-145).                                                               *)
(***************************************************************************)
THEOREM ReportsAddUp == LoadSpec => []ReportAddsUp
<1>1. LoadSpec => [](Typed /\ Accounted)
  BY TypedInit, TypedStep, AccountedInit, AccountedStep, PTL DEF LoadSpec
<1> QED
  BY <1>1, AccountedMeans, PTL
=============================================================================
