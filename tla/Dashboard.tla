----------------------------- MODULE Dashboard -----------------------------
(***************************************************************************)
(* The dashboard side of the router: the WebSocket connections of          *)
(* Broadcaster (pkg/router/broadcast.go), each with the goroutine that     *)
(* waits for it to break, and the goroutine that every 500 ms takes a      *)
(* snapshot of the routing counters and writes it to every client          *)
(* (router.go broadcastState).  The handlers of Infer are here only as far *)
(* as they count.                                                          *)
(*                                                                         *)
(* mu is an RWMutex.  Broadcast holds it for reading all the while it      *)
(* writes to the clients; the sections that hold it for writing are short  *)
(* and one step each.  Left out: the entries of the workers in a snapshot, *)
(* which are copied from the registry.                                     *)
(***************************************************************************)
EXTENDS Integers, FiniteSets, Functions

CONSTANTS
  Conns,     \* connections that can exist at the same time
  Workers,   \* the configured WORKER_ENDPOINTS
  MaxCalls   \* bound: calls of Infer in a behaviour

ASSUME DashboardAssumption == IsFiniteSet(Workers) /\ MaxCalls \in Nat

VARIABLES
  sock,      \* sock[c]: "none"; "open"; "stalled", the peer has stopped
             \* reading; "gone", the peer has left; "closed" by the router
  reader,    \* reader[c]: how far HandleWS and its goroutine are
  clients,   \* Broadcaster.clients
  total,     \* Router.totalRequests
  routed,    \* Router.routingDistribution
  open,      \* calls of Infer that have not returned
  push,      \* the broadcast loop: "idle", "counting", "writing" (holds mu)
  unread,    \* counters that the snapshot does not have yet
  toWrite,   \* clients that the range in Broadcast has not come to yet
  snap,      \* the snapshot being taken or written
  last,      \* the snapshot before it
  shown      \* shown[c]: the last snapshot written to c

connVars == <<sock, reader, clients>>
callVars == <<total, routed, open>>
pushVars == <<push, unread, toWrite, snap, last, shown>>
vars == <<connVars, callVars, pushVars>>

Snapshots == [total : Nat, routed : [Workers -> Nat]]
Empty == [total |-> 0, routed |-> [w \in Workers |-> 0]]

TypeOK ==
  /\ sock \in [Conns -> {"none", "open", "stalled", "gone", "closed"}]
  /\ reader \in [Conns -> {"none", "upgraded", "registered", "reading",
                           "leaving", "removed"}]
  /\ clients \subseteq Conns
  /\ total \in 0 .. MaxCalls
  /\ routed \in [Workers -> Nat]
  /\ open \in Nat
  /\ push \in {"idle", "counting", "writing"}
  /\ unread \subseteq Workers
  /\ toWrite \subseteq clients
  /\ snap \in Snapshots /\ last \in Snapshots
  /\ shown \in [Conns -> Snapshots]

Init ==
  /\ sock = [c \in Conns |-> "none"]
  /\ reader = [c \in Conns |-> "none"]
  /\ clients = {}
  /\ total = 0
  /\ routed = [w \in Workers |-> 0]
  /\ open = 0
  /\ push = "idle"
  /\ unread = {}
  /\ toWrite = {}
  /\ snap = Empty /\ last = Empty
  /\ shown = [c \in Conns |-> Empty]

-----------------------------------------------------------------------------
(***************************************************************************)
(* Connections: HandleWS and the goroutine it starts.                      *)
(***************************************************************************)

\* mu can be had for writing: Broadcast does not hold it.
LockFree == push # "writing"

\* Upgrade has succeeded.
Upgrade(c) ==
  /\ sock[c] = "none"
  /\ sock' = [sock EXCEPT ![c] = "open"]
  /\ reader' = [reader EXCEPT ![c] = "upgraded"]
  /\ UNCHANGED <<clients, callVars, pushVars>>

Register(c) ==
  /\ reader[c] = "upgraded" /\ LockFree
  /\ clients' = clients \cup {c}
  /\ reader' = [reader EXCEPT ![c] = "registered"]
  /\ shown' = [shown EXCEPT ![c] = Empty]
  /\ UNCHANGED <<sock, callVars, push, unread, toWrite, snap, last>>

StartReader(c) ==
  /\ reader[c] = "registered"
  /\ reader' = [reader EXCEPT ![c] = "reading"]
  /\ UNCHANGED <<sock, clients, callVars, pushVars>>

\* ReadMessage fails: the peer has left, or the router has closed.
ReadError(c) ==
  /\ reader[c] = "reading"
  /\ sock[c] \in {"gone", "closed"}
  /\ reader' = [reader EXCEPT ![c] = "leaving"]
  /\ UNCHANGED <<sock, clients, callVars, pushVars>>

\* Mutated forms: the client is closed first, and deleted when that is done;
\* it is not deleted at all.
RemoveClosesFirst(c) ==
  /\ reader[c] = "leaving"
  /\ IF sock[c] # "closed"
       THEN /\ sock' = [sock EXCEPT ![c] = "closed"]
            /\ UNCHANGED <<reader, clients>>
       ELSE /\ LockFree
            /\ clients' = clients \ {c}
            /\ reader' = [reader EXCEPT ![c] = "removed"]
            /\ UNCHANGED sock
  /\ UNCHANGED <<callVars, pushVars>>
RemoveForgotten(c) ==
  /\ reader[c] = "leaving" /\ LockFree
  /\ reader' = [reader EXCEPT ![c] = "removed"]
  /\ UNCHANGED <<sock, clients, callVars, pushVars>>

Remove(c) ==
  /\ reader[c] = "leaving" /\ LockFree
  /\ clients' = clients \ {c}
  /\ reader' = [reader EXCEPT ![c] = "removed"]
  /\ UNCHANGED <<sock, callVars, pushVars>>

\* The goroutine closes the connection and ends.
CloseConn(c) ==
  /\ reader[c] = "removed"
  /\ sock' = [sock EXCEPT ![c] = "none"]
  /\ reader' = [reader EXCEPT ![c] = "none"]
  /\ UNCHANGED <<clients, callVars, pushVars>>

\* The peers: they stop reading, go on reading, or leave.
Peer(c) ==
  /\ \/ sock[c] = "open" /\ sock' = [sock EXCEPT ![c] = "stalled"]
     \/ sock[c] = "stalled" /\ sock' = [sock EXCEPT ![c] = "open"]
     \/ sock[c] \in {"open", "stalled"} /\ sock' = [sock EXCEPT ![c] = "gone"]
  /\ UNCHANGED <<reader, clients, callVars, pushVars>>

-----------------------------------------------------------------------------
(***************************************************************************)
(* The counters, as Router.Infer changes them.                             *)
(***************************************************************************)
Accept ==
  /\ total < MaxCalls
  /\ total' = total + 1
  /\ open' = open + 1
  /\ UNCHANGED <<connVars, routed, pushVars>>

\* Mutated form: counted for every attempt, and the call goes on.
SucceedEachAttempt(w) ==
  /\ open > 0
  /\ routed' = [routed EXCEPT ![w] = @ + 1]
  /\ UNCHANGED <<connVars, total, open, pushVars>>

\* A forward to w has succeeded, and the call returns.
Succeed(w) ==
  /\ open > 0
  /\ routed' = [routed EXCEPT ![w] = @ + 1]
  /\ open' = open - 1
  /\ UNCHANGED <<connVars, total, pushVars>>

Unavailable ==
  /\ open > 0
  /\ open' = open - 1
  /\ UNCHANGED <<connVars, total, routed, pushVars>>

-----------------------------------------------------------------------------
(***************************************************************************)
(* The broadcast loop: broadcastState, Broadcast.                          *)
(***************************************************************************)

\* Mutated form: nothing is pushed unless there was another call.
ReadTotalOfNewCall ==
  /\ push = "idle"
  /\ total # snap.total
  /\ push' = "counting"
  /\ unread' = Workers
  /\ last' = snap
  /\ snap' = [Empty EXCEPT !.total = total]
  /\ UNCHANGED <<connVars, callVars, toWrite, shown>>

\* A tick: the total is read first.
ReadTotal ==
  /\ push = "idle"
  /\ push' = "counting"
  /\ unread' = Workers
  /\ last' = snap
  /\ snap' = [Empty EXCEPT !.total = total]
  /\ UNCHANGED <<connVars, callVars, toWrite, shown>>

\* The counters are read one after the other, while calls go on.
ReadCounter(w) ==
  /\ push = "counting" /\ w \in unread
  /\ snap' = [snap EXCEPT !.routed[w] = routed[w]]
  /\ unread' = unread \ {w}
  /\ UNCHANGED <<connVars, callVars, push, toWrite, last, shown>>

\* RLock, and the range over the clients begins.
StartWriting ==
  /\ push = "counting" /\ unread = {}
  /\ push' = "writing"
  /\ toWrite' = clients
  /\ UNCHANGED <<connVars, callVars, unread, snap, last, shown>>

\* WriteMessage returns; what a peer does not read is buffered for a while.
WriteOk(c) ==
  /\ push = "writing" /\ c \in toWrite
  /\ sock[c] # "closed"
  /\ shown' = [shown EXCEPT ![c] = snap]
  /\ toWrite' = toWrite \ {c}
  /\ UNCHANGED <<connVars, callVars, push, unread, snap, last>>

WriteError(c) ==
  /\ push = "writing" /\ c \in toWrite
  /\ sock[c] \in {"gone", "closed"}
  /\ sock' = [sock EXCEPT ![c] = "closed"]
  /\ clients' = clients \ {c}
  /\ toWrite' = toWrite \ {c}
  /\ UNCHANGED <<reader, callVars, push, unread, snap, last, shown>>

\* Every client has had its turn: RUnlock.
EndWriting ==
  /\ push = "writing" /\ toWrite = {}
  /\ push' = "idle"
  /\ UNCHANGED <<connVars, callVars, unread, toWrite, snap, last, shown>>

-----------------------------------------------------------------------------
Connection(c) ==
  \/ Upgrade(c) \/ Register(c) \/ StartReader(c) \/ ReadError(c)
  \/ Remove(c) \/ CloseConn(c) \/ Peer(c)

Counting == Accept \/ Unavailable \/ \E w \in Workers : Succeed(w)

Pushing ==
  \/ ReadTotal \/ StartWriting \/ EndWriting
  \/ \E w \in Workers : ReadCounter(w)
  \/ \E c \in Conns : WriteOk(c) \/ WriteError(c)

Next == Counting \/ Pushing \/ \E c \in Conns : Connection(c)

Spec == Init /\ [][Next]_vars

(***************************************************************************)
(* Goroutines that can run do, and the ticker goes on.  Register and       *)
(* Remove wait for mu, which is free again and again rather than all the   *)
(* time: an RWMutex lets a waiting writer in before the next reader.  A    *)
(* write returns if the peer has left, or reads now and then; nothing sets *)
(* a deadline (broadcast.go 91), so to a peer that has stalled for good it *)
(* need not return.                                                        *)
(***************************************************************************)
Fairness ==
  /\ WF_vars(ReadTotal \/ StartWriting \/ EndWriting)
  /\ WF_vars(\E w \in Workers : ReadCounter(w))
  /\ \A c \in Conns : /\ SF_vars(Register(c)) /\ SF_vars(Remove(c))
                      /\ WF_vars(StartReader(c)) /\ WF_vars(ReadError(c))
                      /\ WF_vars(CloseConn(c)) /\ WF_vars(WriteError(c))
                      /\ SF_vars(sock[c] = "open" /\ WriteOk(c))

FairSpec == Spec /\ Fairness

\* Peers that stall are slow only: every write returns in the end.
WritesReturn == \A c \in Conns : WF_vars(WriteOk(c) \/ WriteError(c))
SlowPeersSpec == FairSpec /\ WritesReturn

-----------------------------------------------------------------------------
(***************************************************************************)
(* A connection in the map is one that the router has not closed, and it   *)
(* has a goroutine that is going to take it out: Broadcast never writes to *)
(* a connection it or the reader has closed, and no entry outlives its     *)
(* connection.  The reader deletes under the lock before it closes         *)
(* (broadcast.go 36-38, 44-48); Broadcast does both under the read lock.   *)
(***************************************************************************)
ClientsAreLive ==
  \A c \in clients : /\ sock[c] # "closed"
                     /\ reader[c] \in {"registered", "reading", "leaving"}

(***************************************************************************)
(* While Broadcast ranges over the map nobody but Broadcast changes it,    *)
(* although it holds mu for reading only (broadcast.go 36-38, 45-47,       *)
(* 87-95).  There is one broadcast loop, so nobody else holds it for       *)
(* reading.                                                                *)
(***************************************************************************)
RangeIsStable ==
  push = "writing" /\ push' = "writing" =>
    /\ clients \ clients' \subseteq toWrite \ toWrite'
    /\ clients' \subseteq clients

MapIsStable == [][RangeIsStable]_vars

Sum(counters) == FoldFunction(+, 0, counters)

(***************************************************************************)
(* What the dashboard shows is ahead by one push at most: a snapshot may   *)
(* count more routed requests than requests, because the total is read     *)
(* first and calls go on (router.go 211, 233-235), but all of them are in  *)
(* the total of the next snapshot.                                         *)
(***************************************************************************)
SnapshotsOverlap == Sum(last.routed) <= snap.total

(***************************************************************************)
(* No counter that the dashboard shows ever goes back, although each is    *)
(* read at a moment of its own (router.go 211, 233-235).                   *)
(***************************************************************************)
SnapshotsGrow ==
  /\ last.total <= snap.total
  /\ \A w \in Workers \ unread : last.routed[w] <= snap.routed[w]

(***************************************************************************)
(* "push state to dashboard every 500ms" (router.go:101): a client that    *)
(* stays connected and reads is shown every change of the counters,        *)
(* whatever the other clients do.                                          *)
(***************************************************************************)
PushReachesReaders ==
  \A c \in Conns :
    <>[](c \in clients /\ sock[c] = "open")
      => <>[](shown[c] = [total |-> total, routed |-> routed])

(***************************************************************************)
(* A peer that has left is forgotten, by the reader or by the next write,  *)
(* whichever comes first (broadcast.go 44-55, 91-93).                      *)
(***************************************************************************)
GoneAreForgotten == \A c \in Conns : sock[c] = "gone" ~> c \notin clients
=============================================================================
