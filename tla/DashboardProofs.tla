-------------------------- MODULE DashboardProofs --------------------------
(***************************************************************************)
(* Proofs about Dashboard, for any connections, workers and number of      *)
(* calls.                                                                  *)
(***************************************************************************)
EXTENDS Dashboard, Induction

(***************************************************************************)
(* What ClientsAreLive needs to be inductive.  A connection that is gone   *)
(* from the table has no goroutine left, and nobody closes one before it   *)
(* is registered.                                                          *)
(***************************************************************************)
ConnStages ==
  \A c \in Conns : /\ sock[c] = "none" => reader[c] = "none"
                   /\ reader[c] = "upgraded" => sock[c] # "closed"

(***************************************************************************)
(* What SnapshotsGrow needs: what has been read is not more than there is  *)
(* by now.                                                                 *)
(***************************************************************************)
ReadIsPast ==
  /\ snap.total <= total
  /\ \A w \in Workers : /\ snap.routed[w] <= routed[w]
                       /\ last.routed[w] <= routed[w]

-----------------------------------------------------------------------------
(***************************************************************************)
(* Types.  That toWrite is part of clients, which Remove makes smaller,    *)
(* needs to know that it is empty whenever Remove can have the lock.       *)
(***************************************************************************)
RangeEnds == push # "writing" => toWrite = {}

Typed == TypeOK /\ RangeEnds

LEMMA TypeInit == Init => Typed
  BY DashboardAssumption DEF Init, Typed, RangeEnds, TypeOK, Empty, Snapshots

LEMMA TypeStep == Typed /\ [Next]_vars => Typed'
<1> SUFFICES ASSUME Typed, [Next]_vars PROVE Typed'
  OBVIOUS
<1> USE DashboardAssumption DEF Typed, RangeEnds, TypeOK
<1>1. CASE Counting
  <2>1. CASE Accept
    BY <2>1 DEF Accept, connVars, pushVars
  <2>2. CASE Unavailable
    BY <2>2 DEF Unavailable, connVars, pushVars
  <2>3. ASSUME NEW w \in Workers, Succeed(w) PROVE Typed'
    BY <2>3 DEF Succeed, connVars, pushVars
  <2> QED
    BY <1>1, <2>1, <2>2, <2>3 DEF Counting
<1>2. CASE Pushing
  <2>1. CASE ReadTotal
    BY <2>1 DEF ReadTotal, connVars, callVars, Empty, Snapshots
  <2>2. CASE StartWriting
    BY <2>2 DEF StartWriting, connVars, callVars
  <2>3. CASE EndWriting
    BY <2>3 DEF EndWriting, connVars, callVars
  <2>4. ASSUME NEW w \in Workers, ReadCounter(w) PROVE Typed'
    BY <2>4 DEF ReadCounter, connVars, callVars, Snapshots
  <2>5. ASSUME NEW c \in Conns, WriteOk(c) PROVE Typed'
    BY <2>5 DEF WriteOk, connVars, callVars
  <2>6. ASSUME NEW c \in Conns, WriteError(c) PROVE Typed'
    BY <2>6 DEF WriteError, callVars
  <2> QED
    BY <1>2, <2>1, <2>2, <2>3, <2>4, <2>5, <2>6 DEF Pushing
<1>3. ASSUME NEW c \in Conns, Connection(c) PROVE Typed'
  <2>1. CASE Upgrade(c)
    BY <2>1 DEF Upgrade, callVars, pushVars
  <2>2. CASE Register(c)
    BY <2>2 DEF Register, callVars, Empty, Snapshots
  <2>3. CASE StartReader(c)
    BY <2>3 DEF StartReader, callVars, pushVars
  <2>4. CASE ReadError(c)
    BY <2>4 DEF ReadError, callVars, pushVars
  <2>5. CASE Remove(c)
    BY <2>5 DEF Remove, callVars, pushVars, LockFree
  <2>6. CASE CloseConn(c)
    BY <2>6 DEF CloseConn, callVars, pushVars
  <2>7. CASE Peer(c)
    BY <2>7 DEF Peer, callVars, pushVars
  <2> QED
    BY <1>3, <2>1, <2>2, <2>3, <2>4, <2>5, <2>6, <2>7 DEF Connection
<1>4. CASE UNCHANGED vars
  BY <1>4 DEF vars, connVars, callVars, pushVars
<1> QED
  BY <1>1, <1>2, <1>3, <1>4 DEF Next

(***************************************************************************)
(* The variables of the dashboard have their types: among them, a range    *)
(* over the clients only has clients left to visit (broadcast.go 90).      *)
(***************************************************************************)
THEOREM DashboardTypeCorrect == Spec => []TypeOK
<1>1. Spec => []Typed
  BY TypeInit, TypeStep, PTL DEF Spec
<1> QED
  BY <1>1, PTL DEF Typed

-----------------------------------------------------------------------------
(***************************************************************************)
(* Connections.                                                            *)
(***************************************************************************)
Live == ClientsAreLive /\ ConnStages

LEMMA LiveStep == Typed /\ Live /\ [Next]_vars => Live'
<1> SUFFICES ASSUME Typed, Live, [Next]_vars PROVE Live'
  OBVIOUS
<1> USE DEF Typed, TypeOK, Live, ClientsAreLive, ConnStages
<1>1. ASSUME Counting PROVE Live'
  BY <1>1 DEF Counting, Accept, Unavailable, Succeed, connVars
<1>2. CASE Pushing
  <2>1. ASSUME NEW c \in Conns, WriteError(c) PROVE Live'
    <3>1. /\ c \in clients
          /\ sock' = [sock EXCEPT ![c] = "closed"]
          /\ clients' = clients \ {c}
          /\ reader' = reader
      BY <2>1 DEF WriteError
    <3> QED
      BY <3>1
  <2>2. CASE UNCHANGED connVars
    BY <2>2 DEF connVars
  <2> QED
    BY <1>2, <2>1, <2>2
    DEF Pushing, ReadTotal, StartWriting, EndWriting, ReadCounter, WriteOk
<1>3. ASSUME NEW c \in Conns, Connection(c) PROVE Live'
  <2>1. CASE Upgrade(c)
    BY <2>1 DEF Upgrade
  <2>2. CASE Register(c)
    BY <2>2 DEF Register
  <2>3. CASE StartReader(c)
    BY <2>3 DEF StartReader
  <2>4. CASE ReadError(c)
    BY <2>4 DEF ReadError
  <2>5. CASE Remove(c)
    BY <2>5 DEF Remove
  <2>6. CASE CloseConn(c)
    BY <2>6 DEF CloseConn
  <2>7. CASE Peer(c)
    BY <2>7 DEF Peer
  <2> QED
    BY <1>3, <2>1, <2>2, <2>3, <2>4, <2>5, <2>6, <2>7 DEF Connection
<1>4. CASE UNCHANGED vars
  BY <1>4 DEF vars, connVars
<1> QED
  BY <1>1, <1>2, <1>3, <1>4 DEF Next

(***************************************************************************)
(* Whatever connections come, stall and go, the router has not closed any  *)
(* that is in the map, and each of them has its goroutine to take it out.  *)
(***************************************************************************)
THEOREM RegisteredAreLive == Spec => []ClientsAreLive
<1>1. Init => Live
  BY DEF Init, Live, ClientsAreLive, ConnStages
<1>2. Spec => [](Typed /\ Live)
  BY <1>1, TypeInit, TypeStep, LiveStep, PTL DEF Spec
<1> QED
  BY <1>2, PTL DEF Live

-----------------------------------------------------------------------------
(***************************************************************************)
(* The map.                                                                *)
(***************************************************************************)
LEMMA StableStep == [Next]_vars => RangeIsStable
<1> SUFFICES ASSUME [Next]_vars, push = "writing", push' = "writing"
             PROVE /\ clients \ clients' \subseteq toWrite \ toWrite'
                   /\ clients' \subseteq clients
  BY DEF RangeIsStable
<1>1. ASSUME Counting PROVE UNCHANGED clients
  BY <1>1 DEF Counting, Accept, Unavailable, Succeed, connVars
<1>2. ASSUME Pushing
      PROVE /\ clients \ clients' \subseteq toWrite \ toWrite'
            /\ clients' \subseteq clients
  BY <1>2 DEF Pushing, ReadTotal, StartWriting, EndWriting, ReadCounter,
              WriteOk, WriteError, connVars
<1>3. ASSUME NEW c \in Conns, Connection(c) PROVE UNCHANGED clients
  BY <1>3 DEF Connection, Upgrade, Register, StartReader, ReadError, Remove,
              CloseConn, Peer, LockFree
<1>4. CASE UNCHANGED vars
  BY <1>4 DEF vars, connVars
<1> QED
  BY <1>1, <1>2, <1>3, <1>4 DEF Next

(***************************************************************************)
(* No goroutine but Broadcast changes the map while it ranges over it, and *)
(* Broadcast itself only deletes what it has come to.                      *)
(***************************************************************************)
THEOREM MapStaysStable == Spec => MapIsStable
  BY StableStep, PTL DEF Spec, MapIsStable

-----------------------------------------------------------------------------
(***************************************************************************)
(* Snapshots.                                                              *)
(***************************************************************************)
Growing == SnapshotsGrow /\ ReadIsPast

LEMMA GrowStep == Typed /\ Growing /\ [Next]_vars => Growing'
<1> SUFFICES ASSUME Typed, Growing, [Next]_vars PROVE Growing'
  OBVIOUS
<1> USE DEF Typed, TypeOK, Snapshots, Growing, SnapshotsGrow, ReadIsPast
<1>1. CASE Counting
  <2>1. CASE Accept
    BY <2>1, DashboardAssumption DEF Accept, pushVars
  <2>2. CASE Unavailable
    BY <2>2 DEF Unavailable, pushVars
  <2>3. ASSUME NEW w \in Workers, Succeed(w) PROVE Growing'
    BY <2>3 DEF Succeed, pushVars
  <2> QED
    BY <1>1, <2>1, <2>2, <2>3 DEF Counting
<1>2. CASE Pushing
  <2>1. CASE ReadTotal
    BY <2>1 DEF ReadTotal, callVars, Empty
  <2>2. ASSUME NEW w \in Workers, ReadCounter(w) PROVE Growing'
    BY <2>2 DEF ReadCounter, callVars
  <2>3. CASE UNCHANGED <<callVars, unread, snap, last>>
    BY <2>3 DEF callVars
  <2> QED
    BY <1>2, <2>1, <2>2, <2>3
    DEF Pushing, StartWriting, EndWriting, WriteOk, WriteError
<1>3. ASSUME NEW c \in Conns, Connection(c) PROVE Growing'
  <2>1. UNCHANGED <<callVars, unread, snap, last>>
    BY <1>3 DEF Connection, Upgrade, Register, StartReader, ReadError, Remove,
                CloseConn, Peer, pushVars
  <2> QED
    BY <2>1 DEF callVars
<1>4. CASE UNCHANGED vars
  BY <1>4 DEF vars, callVars, pushVars
<1> QED
  BY <1>1, <1>2, <1>3, <1>4 DEF Next

(***************************************************************************)
(* No number on the dashboard goes back from one push to the next.         *)
(***************************************************************************)
THEOREM NumbersOnlyGrow == Spec => []SnapshotsGrow
<1>1. Init => Growing
  BY DEF Init, Growing, SnapshotsGrow, ReadIsPast, Empty
<1>2. Spec => [](Typed /\ Growing)
  BY <1>1, TypeInit, TypeStep, GrowStep, PTL DEF Spec
<1> QED
  BY <1>2, PTL DEF Growing

-----------------------------------------------------------------------------
(***************************************************************************)
(* Sums.  Every routed call was accepted and is no longer open.            *)
(***************************************************************************)
RoutedWereOpen == Sum(routed) + open <= total

Overlapping == SnapshotsOverlap /\ RoutedWereOpen

LEMMA SumIsTotal == \A f : Sum(f) = Total(f)
  BY DEF Sum, Total

LEMMA CountersAreInts ==
  ASSUME NEW f \in [Workers -> Nat]
  PROVE  f \in [Workers -> Int] /\ Sum(f) \in Int
<1>1. f \in [Workers -> Int]
  OBVIOUS
<1> QED
  BY <1>1, SumIsTotal, TotalType, DashboardAssumption

LEMMA OverlapInit == Init => Overlapping
<1> SUFFICES ASSUME Init PROVE Overlapping
  OBVIOUS
<1> DEFINE zeros == [w \in Workers |-> 0]
<1>1. Sum(zeros) = 0
  <2>1. zeros \in [Workers -> Int] /\ \A w \in Workers : zeros[w] = 0
    OBVIOUS
  <2> HIDE DEF zeros
  <2> QED
    BY <2>1, SumIsTotal, TotalOfZeros, DashboardAssumption
<1> QED
  BY <1>1 DEF Init, Empty, Overlapping, SnapshotsOverlap, RoutedWereOpen

LEMMA OverlapStep == Typed /\ Growing /\ Overlapping /\ [Next]_vars => Overlapping'
<1> SUFFICES ASSUME Typed, Growing, Overlapping, [Next]_vars PROVE Overlapping'
  OBVIOUS
<1> USE DEF Overlapping, SnapshotsOverlap, RoutedWereOpen
<1>1. /\ total \in Int /\ open \in Nat /\ snap.total \in Int
      /\ routed \in [Workers -> Nat]
      /\ snap.routed \in [Workers -> Nat] /\ last.routed \in [Workers -> Nat]
  BY DashboardAssumption DEF Typed, TypeOK, Snapshots
<1>2. Sum(routed) \in Int /\ Sum(last.routed) \in Int
  BY <1>1, CountersAreInts
<1>3. CASE Counting
  <2>1. CASE Accept
    BY <1>1, <1>2, <2>1 DEF Accept, pushVars
  <2>2. CASE Unavailable
    BY <1>1, <1>2, <2>2 DEF Unavailable, pushVars
  <2>3. ASSUME NEW w \in Workers, Succeed(w) PROVE Overlapping'
    <3>1. Sum(routed') = Sum(routed) + 1
      <4>1. routed \in [Workers -> Int] /\ routed[w] \in Int /\ routed[w] + 1 \in Int
        BY <1>1
      <4>2. Total([routed EXCEPT ![w] = routed[w] + 1])
              = Total(routed) - routed[w] + (routed[w] + 1)
        BY <4>1, TotalChange, DashboardAssumption
      <4>3. routed' = [routed EXCEPT ![w] = routed[w] + 1]
        BY <2>3 DEF Succeed
      <4> QED
        BY <1>2, <4>1, <4>2, <4>3, SumIsTotal
    <3> QED
      BY <1>1, <1>2, <2>3, <3>1 DEF Succeed, pushVars
  <2> QED
    BY <1>3, <2>1, <2>2, <2>3 DEF Counting
<1>4. CASE ReadTotal
  <2>1. Sum(snap.routed) <= Sum(routed)
    <3>1. \A w \in Workers : snap.routed[w] <= routed[w]
      BY DEF Growing, ReadIsPast
    <3>2. snap.routed \in [Workers -> Int] /\ routed \in [Workers -> Int]
      BY <1>1
    <3> QED
      BY <3>1, <3>2, SumIsTotal, TotalCompare, DashboardAssumption
  <2>2. Sum(snap.routed) \in Int
    BY <1>1, CountersAreInts
  <2> QED
    BY <1>1, <1>2, <1>4, <2>1, <2>2 DEF ReadTotal, callVars, Empty
<1>5. CASE UNCHANGED <<callVars, last, snap>>
  BY <1>5 DEF callVars
<1>6. ASSUME NEW w \in Workers, ReadCounter(w) PROVE Overlapping'
  BY <1>6 DEF ReadCounter, callVars, Typed, TypeOK, Snapshots
<1> QED
  BY <1>3, <1>4, <1>5, <1>6
  DEF Next, Pushing, StartWriting, EndWriting, WriteOk, WriteError, Connection,
      Upgrade, Register, StartReader, ReadError, Remove, CloseConn, Peer, vars, pushVars

(***************************************************************************)
(* For any workers and calls, a snapshot counts no routed request that the *)
(* total of the next one does not have.                                    *)
(***************************************************************************)
THEOREM SnapshotsAreClose == Spec => []SnapshotsOverlap
<1>1. Init => Growing
  BY DEF Init, Growing, SnapshotsGrow, ReadIsPast, Empty
<1>2. Spec => [](Typed /\ Growing /\ Overlapping)
  BY <1>1, TypeInit, TypeStep, GrowStep, OverlapInit, OverlapStep, PTL DEF Spec
<1> QED
  BY <1>2, PTL DEF Overlapping
=============================================================================
