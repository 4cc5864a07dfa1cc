----------------------------- MODULE HeapQueue ------------------------------
(***************************************************************************)
(* PriorityQueue as it is implemented (pkg/worker/queue.go): a binary heap *)
(* in a slice, kept by container/heap through the methods Less, Swap, Push *)
(* and Pop.  Every operation holds mu throughout, so it is one step here.  *)
(* Slices count from 0 and sequences from 1: the request at slice index k  *)
(* is items[k + 1].                                                        *)
(***************************************************************************)
EXTENDS RequestOrder, Loops

CONSTANT Limits   \* the values of n that DequeueN is called with

ASSUME LimitsAssumption == Limits \subseteq Nat

VARIABLES
  items,     \* PriorityQueue.items
  index,     \* index[r]: r.index, -1 once popped
  out        \* what the last DequeueN returned

vars == <<items, index, out>>

\* The state that the methods work on.
Heap == [items : Seq(Requests), index : [Requests -> Int]]

-----------------------------------------------------------------------------
(***************************************************************************)
(* heap.Interface.                                                         *)
(***************************************************************************)

\* Mutated form: the timestamps are not compared.
LessAtByPriority(h, i, j) == Priority[h.items[i]] > Priority[h.items[j]]

LessAt(h, i, j) == Less(h.items[i], h.items[j])

\* Mutated form: the moved requests keep their old index.
SwapItemsOnly(h, i, j) ==
  [h EXCEPT !.items = [@ EXCEPT ![i] = h.items[j], ![j] = h.items[i]]]

Swap(h, i, j) ==
  [items |-> [h.items EXCEPT ![i] = h.items[j], ![j] = h.items[i]],
   index |-> [h.index EXCEPT ![h.items[j]] = i - 1, ![h.items[i]] = j - 1]]

Push(h, r) ==
  [items |-> Append(h.items, r),
   index |-> [h.index EXCEPT ![r] = Len(h.items)]]

\* Pop removes the last item of the slice.
Last(h) == h.items[Len(h.items)]
Pop(h) ==
  [items |-> SubSeq(h.items, 1, Len(h.items) - 1),
   index |-> [h.index EXCEPT ![Last(h)] = -1]]

-----------------------------------------------------------------------------
(***************************************************************************)
(* container/heap (external).                                              *)
(***************************************************************************)

\* The state of a loop that moves an item: the heap, and where the item is.
Places == Heap \X Nat

\* Move the item at j towards the root until its parent is not after it.
UpOver(h, j) == j = 1 \/ ~LessAt(h, j, j \div 2)

UpStep ==
  [s \in Places |->
     LET h == s[1]
         j == s[2]
     IN  IF UpOver(h, j) THEN s ELSE <<Swap(h, j \div 2, j), j \div 2>>]

Up(h, j) == Rounds(UpStep, <<h, j>>)[j][1]

\* The child of i that comes first, among the first n items.
FirstChild(h, i, n) ==
  IF 2 * i + 1 <= n /\ LessAt(h, 2 * i + 1, 2 * i) THEN 2 * i + 1 ELSE 2 * i

\* Move the item at i away from the root while a child comes before it.
DownOver(h, i, n) == 2 * i > n \/ ~LessAt(h, FirstChild(h, i, n), i)

DownStep(n) ==
  [s \in Places |->
     LET h == s[1]
         i == s[2]
         j == FirstChild(h, i, n)
     IN  IF DownOver(h, i, n) THEN s ELSE <<Swap(h, i, j), j>>]

Down(h, i, n) == Rounds(DownStep(n), <<h, i>>)[n][1]

HeapPush(h, r) == Up(Push(h, r), Len(h.items) + 1)

\* The root goes to the end of the slice, from where Pop removes it.
HeapPopMoved(h) ==
  LET n == Len(h.items) IN Down(Swap(h, 1, n), 1, n - 1)

-----------------------------------------------------------------------------
\* The loop of DequeueN: a round pops one request and appends it to result.
PopStep ==
  [s \in Heap \X Seq(Requests) |->
     LET m == HeapPopMoved(s[1]) IN <<Pop(m), Append(s[2], Last(m))>>]

PopAll(h, count) == Rounds(PopStep, <<h, << >> >>)[count]

Now == [items |-> items, index |-> index]

Init ==
  /\ items = <<>>
  /\ index = [r \in Requests |-> -1]
  /\ out = <<>>

Enqueue(r) ==
  /\ r \notin Range(items)
  /\ LET h == HeapPush(Now, r)
     IN  items' = h.items /\ index' = h.index
  /\ UNCHANGED out

DequeueN(n) ==
  LET done == PopAll(Now, DequeueCount(n, Len(items)))
  IN  /\ items' = done[1].items
      /\ index' = done[1].index
      /\ out' = done[2]

Next ==
  \/ \E r \in Requests : Enqueue(r)
  \/ \E n \in Limits : DequeueN(n)

Spec == Init /\ [][Next]_vars

-----------------------------------------------------------------------------
TypeOK ==
  /\ Now \in Heap
  /\ \A r \in Requests : index[r] \in -1 .. Cardinality(Requests) - 1
  /\ out \in Seq(Requests)

\* Every held request knows its place in the slice, every other has -1 (the
\* index field, "used by heap", queue.go 17 and 80-100); so none is held twice.
IndexIsPlace ==
  /\ \A k \in DOMAIN items : index[items[k]] = k - 1
  /\ \A r \in Requests \ Range(items) : index[r] = -1

\* No request comes before its parent in the tree.
ParentsComeFirst == \A k \in 2 .. Len(items) : ~LessAt(Now, k, k \div 2)

(***************************************************************************)
(* Between two operations the slice is a heap whose requests know their    *)
(* places: what container/heap requires of Less, Swap, Push and Pop.       *)
(***************************************************************************)
HeapIsSound == TypeOK /\ IndexIsPlace /\ ParentsComeFirst

(***************************************************************************)
(* The heap is a correct priority queue: whatever sequence of Enqueue and  *)
(* DequeueN produced the slice, DequeueN returns the most urgent requests  *)
(* in order, leaves the others, and loses none.                            *)
(***************************************************************************)
Queue == INSTANCE RequestQueue WITH queued <- Range(items)
ImplementsRequestQueue == Queue!Spec
=============================================================================
