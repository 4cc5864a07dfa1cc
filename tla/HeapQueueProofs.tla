-------------------------- MODULE HeapQueueProofs --------------------------
(***************************************************************************)
(* Proofs about HeapQueue: for any requests, priorities, timestamps and    *)
(* limits, the heap in the slice is a priority queue.                      *)
(***************************************************************************)
EXTENDS HeapQueue, Induction

-----------------------------------------------------------------------------
(***************************************************************************)
(* The order.                                                              *)
(***************************************************************************)
LEMMA LessIsAsymmetric ==
  ASSUME NEW a \in Requests, NEW b \in Requests, Less(a, b)
  PROVE  ~Less(b, a)
<1>1. /\ Priority[a] \in Int /\ Priority[b] \in Int
      /\ Timestamp[a] \in Int /\ Timestamp[b] \in Int
  BY RequestAssumption
<1> QED
  BY <1>1 DEF Less

LEMMA NotLessIsTransitive ==
  ASSUME NEW a \in Requests, NEW b \in Requests, NEW c \in Requests,
         ~Less(b, a), ~Less(c, b)
  PROVE  ~Less(c, a)
<1>1. \A r \in {a, b, c} : Priority[r] \in Int /\ Timestamp[r] \in Int
  BY RequestAssumption
<1> QED
  BY <1>1 DEF Less

-----------------------------------------------------------------------------
(***************************************************************************)
(* A heap whose requests know their places, which is what IndexIsPlace     *)
(* says of the queue.                                                      *)
(***************************************************************************)
Placed(h) ==
  /\ h \in Heap
  /\ \A k \in 1 .. Len(h.items) : h.index[h.items[k]] = k - 1
  /\ \A r \in Requests \ Range(h.items) : h.index[r] = -1

LEMMA PlacedType ==
  ASSUME NEW h, Placed(h)
  PROVE  /\ h.items \in Seq(Requests) /\ h.index \in [Requests -> Int]
         /\ Len(h.items) \in Nat /\ DOMAIN h.items = 1 .. Len(h.items)
         /\ h.items \in [1 .. Len(h.items) -> Requests]
         /\ \A k \in 1 .. Len(h.items) : h.items[k] \in Requests
         /\ \A k, l \in 1 .. Len(h.items) : h.items[k] = h.items[l] => k = l
         /\ h = [items |-> h.items, index |-> h.index]
<1>1. /\ h.items \in Seq(Requests) /\ h.index \in [Requests -> Int]
      /\ h = [items |-> h.items, index |-> h.index]
  BY DEF Placed, Heap
<1>2. /\ Len(h.items) \in Nat /\ DOMAIN h.items = 1 .. Len(h.items)
      /\ h.items \in [1 .. Len(h.items) -> Requests]
  BY <1>1, LenProperties
<1>3. ASSUME NEW k \in 1 .. Len(h.items), NEW l \in 1 .. Len(h.items),
             h.items[k] = h.items[l]
      PROVE  k = l
  <2>1. k - 1 = l - 1
    BY <1>3 DEF Placed
  <2> QED
    BY <1>2, <2>1
<1> QED
  BY <1>1, <1>2, <1>3

LEMMA SwapPlaced ==
  ASSUME NEW h, Placed(h), NEW i \in 1 .. Len(h.items), NEW j \in 1 .. Len(h.items)
  PROVE  /\ Placed(Swap(h, i, j))
         /\ Len(Swap(h, i, j).items) = Len(h.items)
         /\ Range(Swap(h, i, j).items) = Range(h.items)
         /\ Swap(h, i, j).items[i] = h.items[j]
         /\ Swap(h, i, j).items[j] = h.items[i]
         /\ \A k \in 1 .. Len(h.items) :
              k # i /\ k # j => Swap(h, i, j).items[k] = h.items[k]
<1> DEFINE n == Len(h.items)
           t == Swap(h, i, j)
<1>1. /\ h.items \in Seq(Requests) /\ h.index \in [Requests -> Int]
      /\ n \in Nat /\ DOMAIN h.items = 1 .. n
      /\ h.items \in [1 .. n -> Requests]
      /\ \A k \in 1 .. n : h.items[k] \in Requests
      /\ \A k, l \in 1 .. n : h.items[k] = h.items[l] => k = l
  BY PlacedType
<1>2. /\ t.items = [h.items EXCEPT ![i] = h.items[j], ![j] = h.items[i]]
      /\ t.index = [h.index EXCEPT ![h.items[j]] = i - 1, ![h.items[i]] = j - 1]
      /\ t = [items |-> t.items, index |-> t.index]
  BY DEF Swap
<1> HIDE DEF t
<1>3. /\ t.items \in Seq(Requests) /\ Len(t.items) = n
      /\ \A k \in 1 .. n : t.items[k] = IF k = j THEN h.items[i]
                                        ELSE IF k = i THEN h.items[j] ELSE h.items[k]
  <2> DEFINE u == [h.items EXCEPT ![i] = h.items[j]]
  <2>1. /\ u \in Seq(Requests) /\ Len(u) = n
        /\ \A k \in 1 .. n : u[k] = IF k = i THEN h.items[j] ELSE h.items[k]
    BY <1>1, ExceptSeq
  <2>2. t.items = [u EXCEPT ![j] = h.items[i]]
    BY <1>2
  <2> HIDE DEF u
  <2> QED
    BY <1>1, <2>1, <2>2, ExceptSeq
<1>4. DOMAIN t.items = 1 .. n
  BY <1>3, LenProperties
<1>5. /\ t.index \in [Requests -> Int]
      /\ \A r \in Requests : t.index[r] = IF r = h.items[i] THEN j - 1
                                          ELSE IF r = h.items[j] THEN i - 1 ELSE h.index[r]
  <2> DEFINE a == h.items[i]
             b == h.items[j]
  <2>1. i - 1 \in Int /\ j - 1 \in Int /\ a \in Requests /\ b \in Requests
    BY <1>1
  <2>2. t.index = [h.index EXCEPT ![b] = i - 1, ![a] = j - 1]
    BY <1>2
  <2> HIDE DEF a, b
  <2>3. /\ t.index \in [Requests -> Int]
        /\ \A r \in Requests : t.index[r] = IF r = a THEN j - 1
                                            ELSE IF r = b THEN i - 1 ELSE h.index[r]
    BY <1>1, <2>1, <2>2
  <2> QED
    BY <2>3 DEF a, b
<1>6. /\ t.items[i] = h.items[j]
      /\ t.items[j] = h.items[i]
      /\ \A k \in 1 .. n : k # i /\ k # j => t.items[k] = h.items[k]
  BY <1>3
<1>7. Range(t.items) = Range(h.items)
  <2>1. \A k \in 1 .. n : \E l \in 1 .. n : t.items[k] = h.items[l]
    BY <1>6
  <2>2. \A k \in 1 .. n : \E l \in 1 .. n : h.items[k] = t.items[l]
    BY <1>6
  <2>3. Range(t.items) = { t.items[k] : k \in 1 .. n }
    BY <1>4 DEF Range
  <2>4. Range(h.items) = { h.items[k] : k \in 1 .. n }
    BY <1>1 DEF Range
  <2>5. Range(t.items) \subseteq Range(h.items)
    BY <2>1, <2>3, <2>4
  <2>6. Range(h.items) \subseteq Range(t.items)
    BY <2>2, <2>3, <2>4
  <2> QED
    BY <2>5, <2>6
<1>8. \A k \in 1 .. n : t.index[t.items[k]] = k - 1
  <2> SUFFICES ASSUME NEW k \in 1 .. n PROVE t.index[t.items[k]] = k - 1
    OBVIOUS
  <2>1. CASE k = j
    BY <1>1, <1>3, <1>5, <2>1
  <2>2. CASE k = i /\ k # j
    BY <1>1, <1>3, <1>5, <2>2
  <2>3. CASE k # i /\ k # j
    <3>1. /\ t.items[k] = h.items[k] /\ h.items[k] # h.items[i] /\ h.items[k] # h.items[j]
          /\ h.items[k] \in Requests
      BY <1>1, <1>6, <2>3
    <3>2. t.index[h.items[k]] = h.index[h.items[k]]
      BY <1>5, <3>1
    <3> QED
      BY <3>1, <3>2 DEF Placed
  <2> QED
    BY <2>1, <2>2, <2>3
<1>9. \A r \in Requests \ Range(t.items) : t.index[r] = -1
  <2> SUFFICES ASSUME NEW r \in Requests, r \notin Range(h.items) PROVE t.index[r] = -1
    BY <1>7
  <2>1. r # h.items[i] /\ r # h.items[j]
    BY <1>1 DEF Range
  <2> QED
    BY <1>5, <2>1 DEF Placed
<1>10. Placed(t)
  BY <1>2, <1>3, <1>5, <1>8, <1>9 DEF Placed, Heap
<1> QED
  BY <1>3, <1>6, <1>7, <1>10 DEF t

LEMMA PushPlaced ==
  ASSUME NEW h, Placed(h), NEW r \in Requests, r \notin Range(h.items)
  PROVE  /\ Placed(Push(h, r))
         /\ Len(Push(h, r).items) = Len(h.items) + 1
         /\ Range(Push(h, r).items) = Range(h.items) \cup {r}
         /\ \A k \in 1 .. Len(h.items) : Push(h, r).items[k] = h.items[k]
<1> DEFINE n == Len(h.items)
           t == Push(h, r)
<1>1. /\ h.items \in Seq(Requests) /\ h.index \in [Requests -> Int]
      /\ n \in Nat /\ DOMAIN h.items = 1 .. n
      /\ \A k \in 1 .. n : h.items[k] \in Requests
  BY PlacedType
<1>2. /\ t.items = Append(h.items, r)
      /\ t.index = [h.index EXCEPT ![r] = n]
      /\ t = [items |-> t.items, index |-> t.index]
  BY DEF Push
<1> HIDE DEF t
<1>3. /\ t.items \in Seq(Requests) /\ Len(t.items) = n + 1
      /\ \A k \in 1 .. n : t.items[k] = h.items[k]
      /\ t.items[n + 1] = r
  BY <1>1, <1>2, AppendProperties
<1>4. /\ DOMAIN t.items = 1 .. n + 1
      /\ \A k \in 1 .. n + 1 : k \in 1 .. n \/ k = n + 1
  BY <1>1, <1>3, LenProperties
<1>5. Range(t.items) = Range(h.items) \cup {r}
  <2>1. Range(t.items) \subseteq Range(h.items) \cup {r}
    BY <1>1, <1>3, <1>4 DEF Range
  <2>2. Range(h.items) \subseteq Range(t.items)
    BY <1>1, <1>3, <1>4 DEF Range
  <2>3. r \in Range(t.items)
    BY <1>1, <1>3, <1>4 DEF Range
  <2> QED
    BY <2>1, <2>2, <2>3
<1>6. /\ t.index \in [Requests -> Int] /\ t.index[r] = n
      /\ \A s \in Requests : s # r => t.index[s] = h.index[s]
  BY <1>1, <1>2
<1>7. \A k \in 1 .. n + 1 : t.index[t.items[k]] = k - 1
  <2> SUFFICES ASSUME NEW k \in 1 .. n + 1 PROVE t.index[t.items[k]] = k - 1
    OBVIOUS
  <2>1. CASE k = n + 1
    BY <1>1, <1>3, <1>6, <2>1
  <2>2. CASE k \in 1 .. n
    <3>1. h.items[k] # r
      BY <1>1, <2>2 DEF Range
    <3> QED
      BY <1>1, <1>3, <1>6, <2>2, <3>1 DEF Placed
  <2> QED
    BY <1>4, <2>1, <2>2
<1>8. \A s \in Requests \ Range(t.items) : t.index[s] = -1
  BY <1>5, <1>6 DEF Placed
<1>9. Placed(t)
  BY <1>2, <1>3, <1>6, <1>7, <1>8 DEF Placed, Heap
<1> QED
  BY <1>3, <1>5, <1>9 DEF t

LEMMA PopPlaced ==
  ASSUME NEW h, Placed(h), Len(h.items) > 0
  PROVE  /\ Placed(Pop(h))
         /\ Len(Pop(h).items) = Len(h.items) - 1
         /\ Last(h) \in Requests
         /\ Range(Pop(h).items) = Range(h.items) \ {Last(h)}
         /\ \A k \in 1 .. Len(h.items) - 1 : Pop(h).items[k] = h.items[k]
<1> DEFINE n == Len(h.items)
           t == Pop(h)
           r == Last(h)
<1>1. /\ h.items \in Seq(Requests) /\ h.index \in [Requests -> Int]
      /\ n \in Nat /\ n > 0 /\ DOMAIN h.items = 1 .. n
      /\ \A k \in 1 .. n : h.items[k] \in Requests
      /\ \A k, l \in 1 .. n : h.items[k] = h.items[l] => k = l
  BY PlacedType
<1>2. /\ t.items = SubSeq(h.items, 1, n - 1)
      /\ t.index = [h.index EXCEPT ![r] = -1]
      /\ t = [items |-> t.items, index |-> t.index]
      /\ r = h.items[n] /\ r \in Requests
  BY <1>1 DEF Pop, Last
<1> HIDE DEF t, r
<1>3. /\ t.items \in Seq(Requests) /\ Len(t.items) = n - 1
      /\ \A k \in 1 .. n - 1 : t.items[k] = h.items[k]
  <2>1. \A k \in 1 .. n - 1 : h.items[k] \in Requests
    BY <1>1
  <2>2. /\ SubSeq(h.items, 1, n - 1) \in Seq(Requests)
        /\ Len(SubSeq(h.items, 1, n - 1)) = IF 1 <= n - 1 THEN (n - 1) - 1 + 1 ELSE 0
        /\ \A i \in 1 .. (n - 1) - 1 + 1 : SubSeq(h.items, 1, n - 1)[i] = h.items[1 + i - 1]
    <3>1. 1 \in Int /\ n - 1 \in Int
      BY <1>1
    <3> QED
      BY <2>1, <3>1, SubSeqProperties
  <2> QED
    BY <1>1, <1>2, <2>2
<1>4. /\ DOMAIN t.items = 1 .. n - 1
      /\ \A k \in 1 .. n : k \in 1 .. n - 1 \/ k = n
      /\ \A k \in 1 .. n - 1 : k \in 1 .. n /\ k # n
  BY <1>1, <1>3, LenProperties
<1>5. Range(t.items) = Range(h.items) \ {r}
  <2>1. Range(t.items) \subseteq Range(h.items)
    BY <1>1, <1>3, <1>4 DEF Range
  <2>2. Range(h.items) \subseteq Range(t.items) \cup {r}
    <3> SUFFICES ASSUME NEW k \in 1 .. n PROVE h.items[k] \in Range(t.items) \cup {r}
      BY <1>1 DEF Range
    <3>1. CASE k = n
      BY <1>2, <3>1
    <3>2. CASE k \in 1 .. n - 1
      BY <1>3, <1>4, <3>2 DEF Range
    <3> QED
      BY <1>4, <3>1, <3>2
  <2>3. r \notin Range(t.items)
    <3> SUFFICES ASSUME NEW k \in 1 .. n - 1, t.items[k] = r PROVE FALSE
      BY <1>4 DEF Range
    <3>1. h.items[k] = h.items[n] /\ k \in 1 .. n /\ k # n /\ n \in 1 .. n
      BY <1>1, <1>2, <1>3, <1>4
    <3> QED
      BY <1>1, <3>1
  <2> QED
    BY <2>1, <2>2, <2>3
<1>6. /\ t.index \in [Requests -> Int] /\ t.index[r] = -1
      /\ \A s \in Requests : s # r => t.index[s] = h.index[s]
  BY <1>1, <1>2
<1>7. \A k \in 1 .. n - 1 : t.index[t.items[k]] = k - 1
  <2> SUFFICES ASSUME NEW k \in 1 .. n - 1 PROVE t.index[t.items[k]] = k - 1
    OBVIOUS
  <2>1. k \in 1 .. n /\ k # n /\ n \in 1 .. n
    BY <1>1, <1>4
  <2>2. h.items[k] \in Requests /\ h.items[k] # r
    BY <1>1, <1>2, <2>1
  <2> QED
    BY <1>3, <1>6, <2>1, <2>2 DEF Placed
<1>8. \A s \in Requests \ Range(t.items) : t.index[s] = -1
  BY <1>5, <1>6 DEF Placed
<1>9. Placed(t)
  BY <1>2, <1>3, <1>6, <1>7, <1>8 DEF Placed, Heap
<1> QED
  BY <1>2, <1>3, <1>5, <1>9 DEF t, r

-----------------------------------------------------------------------------
(***************************************************************************)
(* The tree in the slice: the parent of k is k \div 2.                     *)
(***************************************************************************)
LEMMA Parents ==
  ASSUME NEW k \in Nat
  PROVE  /\ k \div 2 \in Nat
         /\ k >= 2 => k \div 2 >= 1 /\ k \div 2 < k
         /\ \A i \in Nat : k \div 2 = i <=> k = 2 * i \/ k = 2 * i + 1
  OBVIOUS

(***************************************************************************)
(* Among the first n requests, none comes before its parent.               *)
(***************************************************************************)
Ordered(h, n) == \A k \in 2 .. n : ~LessAt(h, k, k \div 2)

LEMMA RootIsFirst ==
  ASSUME NEW h, Placed(h), NEW n \in 0 .. Len(h.items), Ordered(h, n)
  PROVE  \A k \in 1 .. n : ~LessAt(h, k, 1)
<1> DEFINE T == { k \in Nat : k \in 1 .. n /\ LessAt(h, k, 1) }
<1> SUFFICES ASSUME T # {} PROVE FALSE
  BY PlacedType
<1>1. PICK m \in T : \A k \in T : m <= k
  BY LeastNatural
<1>2. \A k \in 1 .. n : h.items[k] \in Requests
  BY PlacedType
<1>3. m \in 1 .. n /\ LessAt(h, m, 1)
  BY <1>1
<1>4. m # 1
  BY <1>2, <1>3, LessIsAsymmetric DEF LessAt
<1>5. m \in 2 .. n /\ m \div 2 \in 1 .. n /\ m \div 2 < m
  BY <1>3, <1>4, Parents
<1>6. ~LessAt(h, m, m \div 2)
  BY <1>5 DEF Ordered
<1>7. ~LessAt(h, m \div 2, 1)
  BY <1>1, <1>5
<1>8. ~LessAt(h, m, 1)
  <2>1. 1 \in 1 .. n
    BY <1>3
  <2>2. h.items[1] \in Requests /\ h.items[m] \in Requests /\ h.items[m \div 2] \in Requests
    BY <1>2, <1>3, <1>5, <2>1
  <2> QED
    BY <1>6, <1>7, <2>2, NotLessIsTransitive DEF LessAt
<1> QED
  BY <1>3, <1>8

-----------------------------------------------------------------------------
(***************************************************************************)
(* Up.  While an item moves up from j, it alone may come before its        *)
(* parent, and its children do not come before its parent.                 *)
(***************************************************************************)
SameRequests(h, g) ==
  /\ Len(h.items) = Len(g.items)
  /\ Range(h.items) = Range(g.items)

UpInv(g, h, j) ==
  /\ Placed(h) /\ SameRequests(h, g)
  /\ j \in 1 .. Len(g.items)
  /\ \A k \in 2 .. Len(g.items) : k # j => ~LessAt(h, k, k \div 2)
  /\ \A k \in 2 .. Len(g.items) : k \div 2 = j /\ j > 1 => ~LessAt(h, k, j \div 2)

LEMMA UpRound ==
  ASSUME NEW g, NEW h, NEW j, UpInv(g, h, j), ~UpOver(h, j)
  PROVE  j \div 2 < j /\ UpInv(g, Swap(h, j \div 2, j), j \div 2)
<1> DEFINE n == Len(g.items)
           p == j \div 2
           t == Swap(h, p, j)
<1>1. /\ n \in Nat /\ Len(h.items) = n /\ Placed(h) /\ SameRequests(h, g)
      /\ \A k \in 1 .. n : h.items[k] \in Requests
      /\ j \in 1 .. n
  BY PlacedType DEF UpInv, SameRequests
<1>2. j \in 2 .. n /\ p \in 1 .. n /\ p < j /\ LessAt(h, j, p)
  <2>1. j # 1 /\ LessAt(h, j, p)
    BY DEF UpOver
  <2> QED
    BY <1>1, <2>1, Parents
<1>3. /\ Placed(t) /\ SameRequests(t, g)
      /\ t.items[p] = h.items[j] /\ t.items[j] = h.items[p]
      /\ \A k \in 1 .. n : k # p /\ k # j => t.items[k] = h.items[k]
  BY <1>1, <1>2, SwapPlaced DEF SameRequests
<1> HIDE DEF t
<1>4. /\ \A k \in 2 .. n : k # j => ~LessAt(h, k, k \div 2)
      /\ \A k \in 2 .. n : k \div 2 = j => ~LessAt(h, k, p)
  BY <1>2 DEF UpInv
<1>5. \A k \in 2 .. n : k \in 1 .. n /\ k \div 2 \in 1 .. n /\ k \div 2 < k
  BY <1>1, Parents
<1>6. ~Less(h.items[p], h.items[j])
  BY <1>1, <1>2, LessIsAsymmetric DEF LessAt
<1>7. ASSUME NEW k \in 2 .. n, k # p PROVE ~LessAt(t, k, k \div 2)
  <2>1. CASE k = j
    BY <1>3, <1>6, <2>1 DEF LessAt
  <2>2. CASE k # j /\ k \div 2 = j
    <3>1. ~Less(h.items[k], h.items[p])
      BY <1>4, <2>2 DEF LessAt
    <3> QED
      BY <1>3, <1>5, <1>7, <2>2, <3>1 DEF LessAt
  <2>3. CASE k # j /\ k \div 2 = p
    <3>1. ~Less(h.items[k], h.items[p])
      BY <1>4, <2>3 DEF LessAt
    <3>2. ~Less(h.items[k], h.items[j])
      BY <1>1, <1>2, <1>5, <1>6, <3>1, NotLessIsTransitive
    <3> QED
      BY <1>3, <1>5, <1>7, <2>3, <3>2 DEF LessAt
  <2>4. CASE k # j /\ k \div 2 # j /\ k \div 2 # p
    <3>1. ~Less(h.items[k], h.items[k \div 2])
      BY <1>4, <2>4 DEF LessAt
    <3> QED
      BY <1>3, <1>5, <1>7, <2>4, <3>1 DEF LessAt
  <2> QED
    BY <2>1, <2>2, <2>3, <2>4
<1>8. ASSUME NEW k \in 2 .. n, k \div 2 = p, p > 1 PROVE ~LessAt(t, k, p \div 2)
  <2>1. p \in 2 .. n /\ p # j /\ p \div 2 \in 1 .. n /\ p \div 2 < p /\ k # p
    BY <1>1, <1>2, <1>5, <1>8
  <2>2. ~Less(h.items[p], h.items[p \div 2])
    BY <1>4, <2>1 DEF LessAt
  <2>3. t.items[p \div 2] = h.items[p \div 2]
    BY <1>2, <1>3, <2>1
  <2>4. CASE k = j
    BY <1>3, <2>2, <2>3, <2>4 DEF LessAt
  <2>5. CASE k # j
    <3>1. ~Less(h.items[k], h.items[p])
      BY <1>4, <1>8, <2>5 DEF LessAt
    <3>2. ~Less(h.items[k], h.items[p \div 2])
      BY <1>1, <1>2, <1>5, <2>1, <2>2, <3>1, NotLessIsTransitive
    <3> QED
      BY <1>3, <1>5, <2>1, <2>3, <2>5, <3>2 DEF LessAt
  <2> QED
    BY <2>4, <2>5
<1>9. UpInv(g, t, p)
  BY <1>2, <1>3, <1>7, <1>8 DEF UpInv
<1> QED
  BY <1>2, <1>9 DEF t

LEMMA UpStepDef ==
  ASSUME NEW h \in Heap, NEW j \in Nat
  PROVE  UpStep[<<h, j>>] =
           IF UpOver(h, j) THEN <<h, j>> ELSE <<Swap(h, j \div 2, j), j \div 2>>
  BY DEF UpStep, Places

LEMMA UpOrders ==
  ASSUME NEW h, NEW j, UpInv(h, h, j)
  PROVE  /\ Placed(Up(h, j)) /\ SameRequests(Up(h, j), h)
         /\ Ordered(Up(h, j), Len(h.items))
<1> DEFINE R == Rounds(UpStep, <<h, j>>)
<1>1. h \in Heap /\ j \in Nat /\ j \in 1 .. Len(h.items) /\ Len(h.items) \in Nat
  BY PlacedType DEF UpInv, Placed
<1>2. R[0] = <<h, j>> /\ \A m \in Nat : R[m + 1] = UpStep[R[m]]
  BY RoundsDef
<1> HIDE DEF R
<1> DEFINE T == { m \in Nat : \E t \in Heap, i \in Nat :
                    /\ R[m] = <<t, i>> /\ UpInv(h, t, i)
                    /\ UpOver(t, i) \/ i + m <= j }
<1>3. 0 \in T
  BY <1>1, <1>2
<1>4. ASSUME NEW m \in Nat, m \in T PROVE m + 1 \in T
  <2>1. PICK t \in Heap, i \in Nat :
          R[m] = <<t, i>> /\ UpInv(h, t, i) /\ (UpOver(t, i) \/ i + m <= j)
    BY <1>4
  <2>2. CASE UpOver(t, i)
    <3>1. R[m + 1] = <<t, i>>
      BY <1>2, <2>1, <2>2, UpStepDef
    <3> QED
      BY <2>1, <2>2, <3>1
  <2>3. CASE ~UpOver(t, i)
    <3> DEFINE u == Swap(t, i \div 2, i)
               p == i \div 2
    <3>1. R[m + 1] = <<u, p>>
      BY <1>2, <2>1, <2>3, UpStepDef
    <3>2. p < i /\ UpInv(h, u, p)
      BY <2>1, <2>3, UpRound
    <3> HIDE DEF u, p
    <3>3. u \in Heap /\ p \in Nat
      BY <1>1, <3>2 DEF UpInv, Placed
    <3>4. p + (m + 1) <= j
      BY <1>1, <2>1, <2>3, <3>2, <3>3
    <3> QED
      BY <3>1, <3>2, <3>3, <3>4
  <2> QED
    BY <2>2, <2>3
<1>5. j \in T
  <2>1. \A m \in Nat : m \in T => m + 1 \in T
    BY <1>4
  <2> HIDE DEF T
  <2> QED
    BY <1>1, <1>3, <2>1, Induct
<1>6. PICK t \in Heap, i \in Nat :
        R[j] = <<t, i>> /\ UpInv(h, t, i) /\ (UpOver(t, i) \/ i + j <= j)
  BY <1>5
<1>7. UpOver(t, i)
  BY <1>1, <1>6 DEF UpInv
<1>8. Up(h, j) = t
  BY <1>6 DEF Up, R
<1>9. Ordered(t, Len(h.items))
  BY <1>6, <1>7 DEF UpInv, UpOver, Ordered
<1> QED
  BY <1>6, <1>8, <1>9 DEF UpInv

LEMMA HeapPushOrders ==
  ASSUME NEW h, Placed(h), Ordered(h, Len(h.items)),
         NEW r \in Requests, r \notin Range(h.items)
  PROVE  LET t == HeapPush(h, r)
         IN  /\ Placed(t) /\ Ordered(t, Len(t.items))
             /\ Range(t.items) = Range(h.items) \cup {r}
<1> DEFINE n == Len(h.items)
           u == Push(h, r)
<1>1. /\ Placed(u) /\ Len(u.items) = n + 1
      /\ Range(u.items) = Range(h.items) \cup {r}
      /\ \A k \in 1 .. n : u.items[k] = h.items[k]
  BY PushPlaced
<1>2. n \in Nat
  BY PlacedType
<1> HIDE DEF u
<1>3. \A k \in 2 .. n + 1 : k # n + 1 => ~LessAt(u, k, k \div 2)
  <2> SUFFICES ASSUME NEW k \in 2 .. n PROVE ~LessAt(u, k, k \div 2)
    BY <1>2
  <2>1. k \in 1 .. n /\ k \div 2 \in 1 .. n
    BY <1>2, Parents
  <2>2. ~LessAt(h, k, k \div 2)
    BY DEF Ordered
  <2> QED
    BY <1>1, <2>1, <2>2 DEF LessAt
<1>4. \A k \in 2 .. n + 1 : k \div 2 # n + 1
  BY <1>2, Parents
<1>5. UpInv(u, u, n + 1)
  <2> DEFINE m == n + 1
  <2>1. /\ m \in 1 .. m /\ Len(u.items) = m
        /\ \A k \in 2 .. m : k # m => ~LessAt(u, k, k \div 2)
        /\ \A k \in 2 .. m : k \div 2 # m
    BY <1>1, <1>2, <1>3, <1>4
  <2> HIDE DEF m
  <2>2. UpInv(u, u, m)
    BY <1>1, <2>1 DEF UpInv, SameRequests
  <2> QED
    BY <2>2 DEF m
<1>6. HeapPush(h, r) = Up(u, n + 1)
  BY DEF HeapPush, u
<1> QED
  BY <1>1, <1>5, <1>6, UpOrders DEF SameRequests

-----------------------------------------------------------------------------
(***************************************************************************)
(* Down, among the first n requests.  While an item moves down from i, its *)
(* children alone may come before their parent, and they do not come       *)
(* before its parent.  The requests after the first n stay.                *)
(***************************************************************************)
DownInv(g, n, h, i) ==
  /\ Placed(h) /\ SameRequests(h, g)
  /\ i \in Nat /\ i >= 1
  /\ \A k \in n + 1 .. Len(g.items) : h.items[k] = g.items[k]
  /\ \A k \in 2 .. n : k \div 2 # i => ~LessAt(h, k, k \div 2)
  /\ \A k \in 2 .. n : k \div 2 = i /\ i > 1 => ~LessAt(h, k, i \div 2)

LEMMA FirstChildIsFirst ==
  ASSUME NEW h, Placed(h), NEW n \in 0 .. Len(h.items),
         NEW i \in Nat, i >= 1, 2 * i <= n
  PROVE  LET j == FirstChild(h, i, n)
         IN  /\ j \in 2 .. n /\ j \div 2 = i /\ i < j
             /\ \A k \in 2 .. n : k \div 2 = i => ~LessAt(h, k, j)
<1> DEFINE j == FirstChild(h, i, n)
<1>1. \A k \in 1 .. n : h.items[k] \in Requests
  BY PlacedType
<1>2. n \in Nat
  BY PlacedType
<1>3. j = 2 * i \/ j = 2 * i + 1
  BY DEF FirstChild
<1>4. j \in 2 .. n /\ j \div 2 = i /\ i < j
  BY <1>2 DEF FirstChild
<1>5. ASSUME NEW k \in 2 .. n, k \div 2 = i PROVE ~LessAt(h, k, j)
  <2>1. k = 2 * i \/ k = 2 * i + 1
    BY <1>2, <1>5, Parents
  <2>2. CASE k = j
    <3>1. h.items[k] \in Requests
      BY <1>1, <1>2
    <3> QED
      BY <2>2, <3>1, LessIsAsymmetric DEF LessAt
  <2>3. CASE k = 2 * i /\ j = 2 * i + 1
    <3>1. LessAt(h, 2 * i + 1, 2 * i)
      BY <2>3 DEF FirstChild
    <3>2. h.items[k] \in Requests /\ h.items[j] \in Requests
      BY <1>1, <1>2, <1>4
    <3> QED
      BY <2>3, <3>1, <3>2, LessIsAsymmetric DEF LessAt
  <2>4. CASE k = 2 * i + 1 /\ j = 2 * i
    <3>1. 2 * i + 1 <= n
      BY <1>2, <2>4
    <3>2. ~LessAt(h, 2 * i + 1, 2 * i)
      BY <2>4, <3>1 DEF FirstChild
    <3> QED
      BY <2>4, <3>2
  <2> QED
    BY <1>3, <2>1, <2>2, <2>3, <2>4
<1> QED
  BY <1>4, <1>5

LEMMA DownRound ==
  ASSUME NEW g, NEW n \in 0 .. Len(g.items), NEW h, NEW i,
         DownInv(g, n, h, i), ~DownOver(h, i, n)
  PROVE  LET j == FirstChild(h, i, n)
         IN  i < j /\ DownInv(g, n, Swap(h, i, j), j)
<1> DEFINE j == FirstChild(h, i, n)
           t == Swap(h, i, j)
           L == Len(g.items)
<1>1. /\ L \in Nat /\ Len(h.items) = L /\ Placed(h) /\ SameRequests(h, g)
      /\ \A k \in 1 .. L : h.items[k] \in Requests
      /\ i \in Nat /\ i >= 1 /\ n \in Nat /\ n <= L
  BY PlacedType DEF DownInv, SameRequests
<1>2. /\ j \in 2 .. n /\ j \div 2 = i /\ i < j
      /\ \A k \in 2 .. n : k \div 2 = i => ~LessAt(h, k, j)
      /\ LessAt(h, j, i)
  BY <1>1, FirstChildIsFirst DEF DownOver
<1> HIDE DEF j
<1>3. i \in 1 .. n /\ j \in 1 .. n /\ i \in 1 .. L /\ j \in 1 .. L
  BY <1>1, <1>2
<1>4. /\ Placed(t) /\ SameRequests(t, g)
      /\ t.items[i] = h.items[j] /\ t.items[j] = h.items[i]
      /\ \A k \in 1 .. L : k # i /\ k # j => t.items[k] = h.items[k]
  BY <1>1, <1>3, SwapPlaced DEF SameRequests
<1> HIDE DEF t
<1>5. /\ \A k \in 2 .. n : k \div 2 # i => ~LessAt(h, k, k \div 2)
      /\ \A k \in 2 .. n : k \div 2 = i /\ i > 1 => ~LessAt(h, k, i \div 2)
      /\ \A k \in n + 1 .. L : h.items[k] = g.items[k]
  BY DEF DownInv
<1>6. \A k \in 2 .. n : k \in 1 .. L /\ k \div 2 \in 1 .. L /\ k \div 2 < k
  BY <1>1, Parents
<1>7. ASSUME NEW k \in 2 .. n, k \div 2 # j PROVE ~LessAt(t, k, k \div 2)
  <2>1. CASE k = j
    <3>1. ~Less(h.items[i], h.items[j])
      BY <1>1, <1>2, <1>3, LessIsAsymmetric DEF LessAt
    <3> QED
      BY <1>2, <1>4, <2>1, <3>1 DEF LessAt
  <2>2. CASE k = i
    <3>1. i > 1 /\ i \div 2 \in 1 .. L /\ i \div 2 # i /\ i \div 2 # j
      BY <1>1, <1>2, <1>6, <2>2
    <3>2. ~Less(h.items[j], h.items[i \div 2])
      BY <1>2, <1>5, <3>1 DEF LessAt
    <3> QED
      BY <1>4, <2>2, <3>1, <3>2 DEF LessAt
  <2>3. CASE k # i /\ k # j /\ k \div 2 = i
    <3>1. ~Less(h.items[k], h.items[j])
      BY <1>2, <2>3 DEF LessAt
    <3> QED
      BY <1>4, <1>6, <2>3, <3>1 DEF LessAt
  <2>4. CASE k # i /\ k # j /\ k \div 2 # i
    <3>1. ~Less(h.items[k], h.items[k \div 2])
      BY <1>5, <2>4 DEF LessAt
    <3> QED
      BY <1>4, <1>6, <1>7, <2>4, <3>1 DEF LessAt
  <2> QED
    BY <2>1, <2>2, <2>3, <2>4
<1>8. ASSUME NEW k \in 2 .. n, k \div 2 = j, j > 1 PROVE ~LessAt(t, k, j \div 2)
  <2>1. k # i /\ k # j /\ k \in 1 .. L
    BY <1>1, <1>2, <1>6, <1>8
  <2>2. ~Less(h.items[k], h.items[j])
    BY <1>1, <1>2, <1>5, <1>8 DEF LessAt
  <2> QED
    BY <1>2, <1>4, <2>1, <2>2 DEF LessAt
<1>9. \A k \in n + 1 .. L : t.items[k] = g.items[k]
  BY <1>1, <1>3, <1>4, <1>5
<1>10. j \in Nat /\ j >= 1
  BY <1>1, <1>2
<1>11. DownInv(g, n, t, j)
  BY <1>4, <1>7, <1>8, <1>9, <1>10 DEF DownInv
<1> QED
  BY <1>2, <1>11 DEF t, j

LEMMA DownStepDef ==
  ASSUME NEW h \in Heap, NEW i \in Nat, NEW n
  PROVE  DownStep(n)[<<h, i>>] =
           IF DownOver(h, i, n) THEN <<h, i>>
           ELSE <<Swap(h, i, FirstChild(h, i, n)), FirstChild(h, i, n)>>
  BY DEF DownStep, Places

LEMMA DownRounds ==
  ASSUME NEW h, NEW n
  PROVE  LET R == Rounds(DownStep(n), <<h, 1>>)
         IN  R[0] = <<h, 1>> /\ \A m \in Nat : R[m + 1] = DownStep(n)[R[m]]
  BY RoundsDef

LEMMA DownOrders ==
  ASSUME NEW h, NEW n \in 0 .. Len(h.items), DownInv(h, n, h, 1)
  PROVE  LET t == Down(h, 1, n)
         IN  /\ Placed(t) /\ SameRequests(t, h) /\ Ordered(t, n)
             /\ \A k \in n + 1 .. Len(h.items) : t.items[k] = h.items[k]
<1> DEFINE R == Rounds(DownStep(n), <<h, 1>>)
<1>1. h \in Heap /\ n \in Nat /\ Len(h.items) \in Nat /\ n <= Len(h.items)
  BY PlacedType DEF DownInv, Placed
<1>2. R[0] = <<h, 1>> /\ \A m \in Nat : R[m + 1] = DownStep(n)[R[m]]
  BY DownRounds
<1> HIDE DEF R
<1> DEFINE T == { m \in Nat : \E t \in Heap, i \in Nat :
                    /\ R[m] = <<t, i>> /\ DownInv(h, n, t, i)
                    /\ DownOver(t, i, n) \/ i >= 1 + m }
<1>3. 0 \in T
  BY <1>1, <1>2
<1>4. ASSUME NEW m \in Nat, m \in T PROVE m + 1 \in T
  <2>1. PICK t \in Heap, i \in Nat :
          R[m] = <<t, i>> /\ DownInv(h, n, t, i) /\ (DownOver(t, i, n) \/ i >= 1 + m)
    BY <1>4
  <2>2. CASE DownOver(t, i, n)
    <3>1. R[m + 1] = <<t, i>>
      BY <1>2, <2>1, <2>2, DownStepDef
    <3> QED
      BY <2>1, <2>2, <3>1
  <2>3. CASE ~DownOver(t, i, n)
    <3> DEFINE j == FirstChild(t, i, n)
               u == Swap(t, i, j)
    <3>1. R[m + 1] = <<u, j>>
      BY <1>2, <2>1, <2>3, DownStepDef
    <3>2. i < j /\ DownInv(h, n, u, j)
      BY <2>1, <2>3, DownRound
    <3> HIDE DEF u, j
    <3>3. u \in Heap /\ j \in Nat
      BY <3>2 DEF DownInv, Placed
    <3>4. j >= 1 + (m + 1)
      BY <2>1, <2>3, <3>2, <3>3
    <3> QED
      BY <3>1, <3>2, <3>3, <3>4
  <2> QED
    BY <2>2, <2>3
<1>5. n \in T
  <2>1. \A m \in Nat : m \in T => m + 1 \in T
    BY <1>4
  <2> HIDE DEF T
  <2> QED
    BY <1>1, <1>3, <2>1, Induct
<1>6. PICK t \in Heap, i \in Nat :
        R[n] = <<t, i>> /\ DownInv(h, n, t, i) /\ (DownOver(t, i, n) \/ i >= 1 + n)
  BY <1>5
<1>7. DownOver(t, i, n)
  BY <1>1, <1>6 DEF DownOver
<1>8. Down(h, 1, n) = t
  BY <1>6 DEF Down, R
<1>9. Ordered(t, n)
  <2> SUFFICES ASSUME NEW k \in 2 .. n PROVE ~LessAt(t, k, k \div 2)
    BY DEF Ordered
  <2>1. CASE k \div 2 # i
    BY <1>6, <2>1 DEF DownInv
  <2>2. CASE k \div 2 = i
    <3> DEFINE j == FirstChild(t, i, n)
    <3>1. k \in Nat /\ i >= 1 /\ 2 * i <= n
      BY <1>1, <1>6, <2>2, Parents DEF DownInv
    <3>2. Placed(t) /\ Len(t.items) = Len(h.items)
      BY <1>6 DEF DownInv, SameRequests
    <3>3. j \in 2 .. n /\ ~LessAt(t, k, j)
      BY <1>1, <2>2, <3>1, <3>2, FirstChildIsFirst
    <3>4. ~LessAt(t, j, i)
      BY <1>1, <1>7, <3>1 DEF DownOver
    <3> HIDE DEF j
    <3>5. /\ t.items[i] \in Requests /\ t.items[j] \in Requests
          /\ t.items[k] \in Requests
      <4>1. i \in 1 .. Len(t.items) /\ j \in 1 .. Len(t.items) /\ k \in 1 .. Len(t.items)
        BY <1>1, <3>1, <3>2, <3>3
      <4> QED
        BY <3>2, <4>1, PlacedType
    <3> QED
      BY <2>2, <3>3, <3>4, <3>5, NotLessIsTransitive DEF LessAt
  <2> QED
    BY <2>1, <2>2
<1> QED
  BY <1>6, <1>8, <1>9 DEF DownInv

-----------------------------------------------------------------------------
(***************************************************************************)
(* Pop takes the first request.                                            *)
(***************************************************************************)
LEMMA HeapPopMovedOrders ==
  ASSUME NEW h, Placed(h), Ordered(h, Len(h.items)), Len(h.items) > 0
  PROVE  LET t == HeapPopMoved(h)
         IN  /\ Placed(t) /\ SameRequests(t, h) /\ Ordered(t, Len(h.items) - 1)
             /\ Last(t) = h.items[1]
<1> DEFINE n == Len(h.items)
           u == Swap(h, 1, n)
<1>1. n \in Nat /\ n >= 1 /\ 1 \in 1 .. n /\ n \in 1 .. n
  BY PlacedType
<1>2. /\ Placed(u) /\ SameRequests(u, h)
      /\ u.items[n] = h.items[1]
      /\ \A k \in 1 .. n : k # 1 /\ k # n => u.items[k] = h.items[k]
  BY <1>1, SwapPlaced DEF SameRequests
<1>3. HeapPopMoved(h) = Down(u, 1, n - 1)
  BY DEF HeapPopMoved
<1> HIDE DEF u
<1>4. n - 1 \in 0 .. Len(u.items) /\ Len(u.items) = n
  BY <1>1, <1>2 DEF SameRequests
<1>5. ASSUME NEW k \in 2 .. n - 1, k \div 2 # 1 PROVE ~LessAt(u, k, k \div 2)
  <2>1. /\ k \in 1 .. n /\ k # 1 /\ k # n
        /\ k \div 2 \in 1 .. n /\ k \div 2 # n
    BY <1>1, Parents
  <2>2. ~LessAt(h, k, k \div 2)
    BY <1>1 DEF Ordered
  <2> QED
    BY <1>2, <1>5, <2>1, <2>2 DEF LessAt
<1>6. DownInv(u, n - 1, u, 1)
  BY <1>2, <1>5 DEF DownInv, SameRequests
<1> DEFINE t == Down(u, 1, n - 1)
<1>7. /\ Placed(t) /\ SameRequests(t, u) /\ Ordered(t, n - 1)
      /\ \A k \in (n - 1) + 1 .. Len(u.items) : t.items[k] = u.items[k]
  BY <1>4, <1>6, DownOrders
<1> HIDE DEF t
<1>8. SameRequests(t, h) /\ Len(t.items) = n
  BY <1>2, <1>7 DEF SameRequests
<1>9. t.items[n] = u.items[n]
  BY <1>1, <1>4, <1>7
<1> QED
  BY <1>2, <1>3, <1>7, <1>8, <1>9 DEF Last, t

LEMMA PopRound ==
  ASSUME NEW h, Placed(h), Ordered(h, Len(h.items)), Len(h.items) > 0,
         NEW b \in Seq(Requests)
  PROVE  \E t \in Heap, r \in Range(h.items) :
           /\ PopStep[<<h, b>>] = <<t, Append(b, r)>>
           /\ Placed(t) /\ Ordered(t, Len(t.items))
           /\ Len(t.items) = Len(h.items) - 1
           /\ Range(t.items) = Range(h.items) \ {r}
           /\ \A s \in Range(h.items) : ~Less(s, r)
<1> DEFINE n == Len(h.items)
           m == HeapPopMoved(h)
           t == Pop(m)
           r == Last(m)
<1>1. h \in Heap /\ n \in Nat /\ DOMAIN h.items = 1 .. n /\ 1 \in 1 .. n
  BY PlacedType DEF Placed
<1>2. PopStep[<<h, b>>] = <<t, Append(b, r)>>
  BY <1>1 DEF PopStep
<1>3. /\ Placed(m) /\ Len(m.items) = n /\ Range(m.items) = Range(h.items)
      /\ Ordered(m, n - 1) /\ r = h.items[1]
  BY HeapPopMovedOrders DEF SameRequests
<1> HIDE DEF m
<1>4. /\ Placed(t) /\ Len(t.items) = n - 1
      /\ Range(t.items) = Range(h.items) \ {r}
      /\ \A k \in 1 .. n - 1 : t.items[k] = m.items[k]
  BY <1>3, PopPlaced
<1>5. t \in Heap /\ r \in Range(h.items)
  BY <1>1, <1>3, <1>4 DEF Placed, Range
<1>6. Ordered(t, n - 1)
  <2> SUFFICES ASSUME NEW k \in 2 .. n - 1 PROVE ~LessAt(t, k, k \div 2)
    BY DEF Ordered
  <2>1. k \in 1 .. n - 1 /\ k \div 2 \in 1 .. n - 1
    BY <1>1, Parents
  <2>2. ~LessAt(m, k, k \div 2)
    BY <1>3 DEF Ordered
  <2> HIDE DEF t
  <2> QED
    BY <1>4, <2>1, <2>2 DEF LessAt
<1>7. \A s \in Range(h.items) : ~Less(s, r)
  <2> SUFFICES ASSUME NEW k \in 1 .. n PROVE ~Less(h.items[k], r)
    BY <1>1 DEF Range
  <2>1. n \in 0 .. Len(h.items)
    BY <1>1
  <2>2. ~LessAt(h, k, 1)
    BY <2>1, RootIsFirst
  <2> QED
    BY <1>3, <2>2 DEF LessAt
<1> QED
  BY <1>2, <1>4, <1>5, <1>6, <1>7

(***************************************************************************)
(* Of the requests of h, those in b were taken, most urgent first, and t   *)
(* has the others, none more urgent than one taken.                        *)
(***************************************************************************)
Taken(h, t, b) ==
  /\ Range(b) \subseteq Range(h.items)
  /\ Range(t.items) = Range(h.items) \ Range(b)
  /\ \A i, j \in 1 .. Len(b) : i # j => b[i] # b[j]
  /\ \A i, j \in 1 .. Len(b) : i < j => ~Less(b[j], b[i])
  /\ \A i \in 1 .. Len(b) : \A r \in Range(t.items) : ~Less(r, b[i])

LEMMA PopRounds ==
  ASSUME NEW h
  PROVE  LET R == Rounds(PopStep, <<h, << >> >>)
         IN  R[0] = <<h, << >> >> /\ \A m \in Nat : R[m + 1] = PopStep[R[m]]
  BY RoundsDef

LEMMA PopAllTakes ==
  ASSUME NEW h, Placed(h), Ordered(h, Len(h.items)), NEW count \in 0 .. Len(h.items)
  PROVE  \E t \in Heap, b \in Seq(Requests) :
           /\ PopAll(h, count) = <<t, b>> /\ Len(b) = count
           /\ Placed(t) /\ Ordered(t, Len(t.items)) /\ Taken(h, t, b)
<1> DEFINE L == Len(h.items)
           R == Rounds(PopStep, <<h, << >> >>)
<1>1. h \in Heap /\ L \in Nat
  BY PlacedType DEF Placed
<1>2. R[0] = <<h, << >> >> /\ \A m \in Nat : R[m + 1] = PopStep[R[m]]
  BY PopRounds
<1> HIDE DEF R
<1> DEFINE T == { m \in Nat : m <= L =>
                    \E t \in Heap, b \in Seq(Requests) :
                      /\ R[m] = <<t, b>> /\ Len(b) = m /\ Len(t.items) = L - m
                      /\ Placed(t) /\ Ordered(t, Len(t.items)) /\ Taken(h, t, b) }
<1>3. 0 \in T
  <2> DEFINE e == << >>
  <2>1. e \in Seq(Requests) /\ Len(e) = 0 /\ DOMAIN e = 1 .. 0
    OBVIOUS
  <2>2. R[0] = <<h, e>>
    BY <1>2
  <2> HIDE DEF e
  <2>3. Range(e) = {}
    BY <2>1 DEF Range
  <2>4. Taken(h, h, e)
    BY <2>1, <2>3 DEF Taken
  <2>5. Len(h.items) = L - 0
    BY <1>1
  <2> QED
    BY <1>1, <2>1, <2>2, <2>4, <2>5
<1>4. ASSUME NEW m \in Nat, m \in T, m + 1 <= L
      PROVE  \E t \in Heap, b \in Seq(Requests) :
               /\ R[m + 1] = <<t, b>> /\ Len(b) = m + 1 /\ Len(t.items) = L - (m + 1)
               /\ Placed(t) /\ Ordered(t, Len(t.items)) /\ Taken(h, t, b)
  <2>1. PICK u \in Heap, a \in Seq(Requests) :
          /\ R[m] = <<u, a>> /\ Len(a) = m /\ Len(u.items) = L - m
          /\ Placed(u) /\ Ordered(u, Len(u.items)) /\ Taken(h, u, a)
    BY <1>1, <1>4
  <2>2. Len(u.items) > 0
    BY <1>1, <1>4, <2>1
  <2>3. PICK t \in Heap, r \in Range(u.items) :
          /\ PopStep[<<u, a>>] = <<t, Append(a, r)>>
          /\ Placed(t) /\ Ordered(t, Len(t.items))
          /\ Len(t.items) = Len(u.items) - 1
          /\ Range(t.items) = Range(u.items) \ {r}
          /\ \A s \in Range(u.items) : ~Less(s, r)
    BY <2>1, <2>2, PopRound
  <2> DEFINE b == Append(a, r)
  <2>4. r \in Requests
    BY <2>1, PlacedType DEF Range
  <2>5. /\ b \in Seq(Requests) /\ Len(b) = m + 1
        /\ \A i \in 1 .. m : b[i] = a[i]
        /\ b[m + 1] = r
    BY <2>1, <2>4, AppendProperties
  <2>6. R[m + 1] = <<t, b>>
    BY <1>2, <2>1, <2>3
  <2> HIDE DEF b
  <2>7. DOMAIN a = 1 .. m /\ DOMAIN b = 1 .. m + 1
    BY <2>1, <2>5, LenProperties
  <2>8. \A i \in 1 .. m + 1 : i \in 1 .. m \/ i = m + 1
    OBVIOUS
  <2>9. Range(b) = Range(a) \cup {r}
    <3>1. Range(b) \subseteq Range(a) \cup {r}
      BY <2>5, <2>7, <2>8 DEF Range
    <3>2. Range(a) \subseteq Range(b)
      BY <2>5, <2>7 DEF Range
    <3>3. r \in Range(b)
      BY <2>5, <2>7 DEF Range
    <3> QED
      BY <3>1, <3>2, <3>3
  <2>10. \A i \in 1 .. m : a[i] \in Range(a) /\ a[i] # r /\ ~Less(r, a[i])
    <3> SUFFICES ASSUME NEW i \in 1 .. m
                 PROVE  a[i] \in Range(a) /\ a[i] # r /\ ~Less(r, a[i])
      OBVIOUS
    <3>1. a[i] \in Range(a)
      BY <2>7 DEF Range
    <3> QED
      BY <2>1, <3>1 DEF Taken
  <2>11. Taken(h, t, b)
    <3>1. Range(b) \subseteq Range(h.items)
      BY <2>1, <2>9 DEF Taken
    <3>2. Range(t.items) = Range(h.items) \ Range(b)
      BY <2>1, <2>3, <2>9 DEF Taken
    <3>3. ASSUME NEW i \in 1 .. m + 1, NEW j \in 1 .. m + 1, i # j PROVE b[i] # b[j]
      BY <2>1, <2>5, <2>8, <2>10, <3>3 DEF Taken
    <3>4. ASSUME NEW i \in 1 .. m + 1, NEW j \in 1 .. m + 1, i < j
          PROVE  ~Less(b[j], b[i])
      <4>1. i \in 1 .. m
        BY <3>4
      <4>2. CASE j = m + 1
        BY <2>5, <2>10, <4>1, <4>2
      <4>3. CASE j \in 1 .. m
        BY <2>1, <2>5, <3>4, <4>1, <4>3 DEF Taken
      <4> QED
        BY <2>8, <4>2, <4>3
    <3>5. ASSUME NEW i \in 1 .. m + 1, NEW s \in Range(t.items)
          PROVE  ~Less(s, b[i])
      <4>1. s \in Range(u.items)
        BY <2>3
      <4>2. CASE i = m + 1
        BY <2>3, <2>5, <4>1, <4>2
      <4>3. CASE i \in 1 .. m
        BY <2>1, <2>5, <4>1, <4>3 DEF Taken
      <4> QED
        BY <2>8, <4>2, <4>3
    <3> QED
      BY <2>5, <3>1, <3>2, <3>3, <3>4, <3>5 DEF Taken
  <2>12. Len(t.items) = L - (m + 1)
    BY <1>1, <2>1, <2>3
  <2> QED
    BY <2>3, <2>5, <2>6, <2>11, <2>12
<1>5. count \in T
  <2>1. \A m \in Nat : m \in T => m + 1 \in T
    <3> SUFFICES ASSUME NEW m \in Nat, m \in T PROVE m + 1 \in T
      OBVIOUS
    <3>1. m + 1 \in Nat
      OBVIOUS
    <3>2. CASE m + 1 <= L
      BY <1>4, <3>1, <3>2
    <3>3. CASE ~(m + 1 <= L)
      BY <3>1, <3>3
    <3> QED
      BY <3>2, <3>3
  <2> HIDE DEF T
  <2> QED
    BY <1>1, <1>3, <2>1, Induct
<1>6. PICK t \in Heap, b \in Seq(Requests) :
        /\ R[count] = <<t, b>> /\ Len(b) = count
        /\ Placed(t) /\ Ordered(t, Len(t.items)) /\ Taken(h, t, b)
  BY <1>1, <1>5
<1>7. PopAll(h, count) = <<t, b>>
  BY <1>6 DEF PopAll, R
<1> QED
  BY <1>6, <1>7

-----------------------------------------------------------------------------
(***************************************************************************)
(* The specification.                                                      *)
(***************************************************************************)
LEMMA LengthOfRange ==
  ASSUME NEW h, Placed(h)
  PROVE  /\ Cardinality(Range(h.items)) = Len(h.items)
         /\ Len(h.items) <= Cardinality(Requests)
         /\ Cardinality(Requests) \in Nat
<1> DEFINE n == Len(h.items)
           S == Range(h.items)
<1>1. /\ n \in Nat /\ DOMAIN h.items = 1 .. n
      /\ h.items \in [1 .. n -> Requests]
      /\ \A k, l \in 1 .. n : h.items[k] = h.items[l] => k = l
  BY PlacedType
<1>2. S = { h.items[k] : k \in 1 .. n } /\ S \in SUBSET Requests
  BY <1>1 DEF Range
<1>3. h.items \in Bijection(1 .. n, S)
  <2>1. h.items \in [1 .. n -> S]
    BY <1>1, <1>2
  <2>2. \A s \in S : \E k \in 1 .. n : h.items[k] = s
    BY <1>2
  <2> QED
    BY <1>1, <2>1, <2>2 DEF Bijection, Injection, Surjection, IsInjective
<1>4. Cardinality(S) = n
  <2>1. ExistsBijection(1 .. n, S)
    BY <1>3 DEF ExistsBijection
  <2> QED
    BY <1>1, <2>1, FS_CountingElements
<1>5. Cardinality(S) <= Cardinality(Requests)
  BY <1>2, RequestAssumption, FS_Subset
<1> QED
  BY <1>4, <1>5, RequestAssumption, FS_CardinalityType

Stored == Placed(Now) /\ Ordered(Now, Len(items)) /\ out \in Seq(Requests)

LEMMA SoundIsStored == HeapIsSound <=> Stored
<1>1. Now.items = items /\ Now.index = index
  BY DEF Now
<1>2. ASSUME HeapIsSound PROVE Stored
  <2>1. Now \in Heap /\ out \in Seq(Requests)
    BY <1>2 DEF HeapIsSound, TypeOK
  <2>2. items \in Seq(Requests)
    BY <1>1, <2>1 DEF Heap
  <2>3. DOMAIN items = 1 .. Len(items)
    BY <2>2, LenProperties
  <2> QED
    BY <1>1, <1>2, <2>1, <2>3 DEF HeapIsSound, IndexIsPlace, ParentsComeFirst, Stored, Placed, Ordered
<1>3. ASSUME Stored PROVE HeapIsSound
  <2>0. Placed(Now) /\ Ordered(Now, Len(items)) /\ out \in Seq(Requests)
    BY <1>3 DEF Stored
  <2>1. DOMAIN items = 1 .. Len(items) /\ Len(items) \in Nat
    BY <1>1, <2>0, PlacedType
  <2>2. IndexIsPlace /\ ParentsComeFirst
    BY <1>1, <2>0, <2>1 DEF IndexIsPlace, ParentsComeFirst, Placed, Ordered
  <2>3. ASSUME NEW r \in Requests PROVE index[r] \in -1 .. Cardinality(Requests) - 1
    <3>1. CASE r \notin Range(items)
      <4>1. index[r] = -1 /\ Cardinality(Requests) \in Nat
        BY <2>0, <2>2, <3>1, LengthOfRange DEF IndexIsPlace
      <4> QED
        BY <4>1
    <3>2. CASE r \in Range(items)
      <4>1. PICK k \in 1 .. Len(items) : items[k] = r
        BY <2>1, <3>2 DEF Range
      <4>2. index[r] = k - 1
        BY <2>1, <2>2, <4>1 DEF IndexIsPlace
      <4>3. Len(items) <= Cardinality(Requests) /\ Cardinality(Requests) \in Nat
        BY <1>1, <2>0, LengthOfRange
      <4> QED
        BY <2>1, <4>1, <4>2, <4>3
    <3> QED
      BY <3>1, <3>2
  <2>4. Now \in Heap
    BY <2>0 DEF Placed
  <2> QED
    BY <2>0, <2>2, <2>3, <2>4 DEF HeapIsSound, TypeOK
<1> QED
  BY <1>2, <1>3

LEMMA SoundInit == Init => HeapIsSound /\ Queue!Init
<1> SUFFICES ASSUME Init PROVE HeapIsSound /\ Queue!Init
  OBVIOUS
<1>1. /\ items \in Seq(Requests) /\ Len(items) = 0 /\ DOMAIN items = 1 .. 0
      /\ index \in [Requests -> Int] /\ \A r \in Requests : index[r] = -1
      /\ out \in Seq(Requests) /\ out = << >>
  BY DEF Init
<1>2. Range(items) = {}
  BY <1>1 DEF Range
<1>3. Placed(Now) /\ Ordered(Now, Len(items))
  BY <1>1 DEF Placed, Heap, Now, Ordered
<1> QED
  BY <1>1, <1>2, <1>3, SoundIsStored DEF Stored, Queue!Init

LEMMA EnqueueStep ==
  ASSUME HeapIsSound, NEW r \in Requests, Enqueue(r)
  PROVE  HeapIsSound' /\ Queue!Enqueue(r)
<1> DEFINE t == HeapPush(Now, r)
<1>1. /\ Placed(Now) /\ Ordered(Now, Len(items)) /\ out \in Seq(Requests)
      /\ Now.items = items
  BY SoundIsStored DEF Stored, Now
<1>2. /\ Placed(t) /\ Ordered(t, Len(t.items))
      /\ Range(t.items) = Range(items) \cup {r}
  BY <1>1, HeapPushOrders DEF Enqueue
<1>3. items' = t.items /\ index' = t.index /\ out' = out /\ r \notin Range(items)
  BY DEF Enqueue
<1> HIDE DEF t
<1>4. Now' = t
  <2>1. t = [items |-> t.items, index |-> t.index]
    BY <1>2, PlacedType
  <2> QED
    BY <1>3, <2>1 DEF Now
<1>5. Stored'
  BY <1>1, <1>2, <1>3, <1>4 DEF Stored
<1>6. HeapIsSound'
  BY <1>5, SoundIsStored, PTL
<1> QED
  BY <1>2, <1>3, <1>6 DEF Queue!Enqueue

LEMMA DequeueStep ==
  ASSUME HeapIsSound, NEW n \in Limits, DequeueN(n)
  PROVE  HeapIsSound' /\ Queue!DequeueN(n)
<1> DEFINE count == DequeueCount(n, Len(items))
<1>1. /\ Placed(Now) /\ Ordered(Now, Len(items)) /\ out \in Seq(Requests)
      /\ Now.items = items
  BY SoundIsStored DEF Stored, Now
<1>2. /\ Len(items) \in Nat /\ Cardinality(Range(items)) = Len(items)
      /\ n \in Nat /\ count \in 0 .. Len(items)
  BY <1>1, PlacedType, LengthOfRange, LimitsAssumption DEF DequeueCount
<1>3. PICK t \in Heap, b \in Seq(Requests) :
        /\ PopAll(Now, count) = <<t, b>> /\ Len(b) = count
        /\ Placed(t) /\ Ordered(t, Len(t.items)) /\ Taken(Now, t, b)
  BY <1>1, <1>2, PopAllTakes
<1>4. items' = t.items /\ index' = t.index /\ out' = b
  BY <1>3 DEF DequeueN
<1>5. Now' = t
  BY <1>3, <1>4, PlacedType DEF Now
<1>6. Stored'
  BY <1>3, <1>4, <1>5 DEF Stored
<1>7. HeapIsSound'
  BY <1>6, SoundIsStored, PTL
<1> HIDE DEF count
<1>8. /\ DOMAIN b = 1 .. count
      /\ Range(b) \subseteq Range(items)
      /\ Range(t.items) = Range(items) \ Range(b)
      /\ \A i, j \in DOMAIN b : i # j => b[i] # b[j]
      /\ \A i, j \in DOMAIN b : i < j => ~Less(b[j], b[i])
      /\ \A i \in DOMAIN b : \A r \in Range(items) \ Range(b) : ~Less(r, b[i])
  <2>1. DOMAIN b = 1 .. Len(b)
    BY LenProperties
  <2> QED
    BY <1>1, <1>3, <2>1 DEF Taken
<1>9. b \in [1 .. DequeueCount(n, Cardinality(Range(items))) -> Range(items)]
  <2>1. \A i \in 1 .. count : b[i] \in Range(items)
    BY <1>8 DEF Range
  <2>2. b \in [1 .. Len(b) -> Requests]
    BY LenProperties
  <2>3. b \in [1 .. count -> Range(items)]
    BY <1>3, <2>1, <2>2
  <2> QED
    BY <1>2, <2>3 DEF count
<1>10. /\ Queue!Range(b) = Range(b)
       /\ Queue!Cardinality(Range(items)) = Cardinality(Range(items))
  BY DEF Queue!Range, Range, Queue!Cardinality, Cardinality
<1>11. b \in Queue!Dequeues(Range(items), n)
  <2>1. \A k \in Nat : Queue!DequeueCount(n, k) = DequeueCount(n, k)
    BY DEF Queue!DequeueCount, DequeueCount
  <2>2. \A r, s \in Requests : Queue!Less(r, s) <=> Less(r, s)
    BY DEF Queue!Less, Less
  <2>3. Range(items) \subseteq Requests /\ Range(b) \subseteq Requests
    BY <1>1, PlacedType, RangeOfSeq DEF Range
  <2>4. \A i \in DOMAIN b : b[i] \in Requests
    BY <1>8, <2>3 DEF Range
  <2> QED
    BY <1>2, <1>8, <1>9, <1>10, <2>1, <2>2, <2>3, <2>4 DEF Queue!Dequeues
<1> QED
  BY <1>4, <1>7, <1>8, <1>11, <1>10 DEF Queue!DequeueN

(***************************************************************************)
(* The slice stays a heap, and every request in it knows its place,        *)
(* whatever sequence of Enqueue and DequeueN is called.                    *)
(***************************************************************************)
THEOREM HeapStaysSound == Spec => []HeapIsSound
<1>1. Init => HeapIsSound
  BY SoundInit
<1>2. HeapIsSound /\ [Next]_vars => HeapIsSound'
  <2> SUFFICES ASSUME HeapIsSound, [Next]_vars PROVE HeapIsSound'
    OBVIOUS
  <2>1. CASE \E r \in Requests : Enqueue(r)
    BY <2>1, EnqueueStep
  <2>2. CASE \E n \in Limits : DequeueN(n)
    BY <2>2, DequeueStep
  <2>3. CASE UNCHANGED vars
    BY <2>3 DEF vars, HeapIsSound, TypeOK, IndexIsPlace, ParentsComeFirst, Now, Heap, LessAt
  <2> QED
    BY <2>1, <2>2, <2>3 DEF Next
<1> QED
  BY <1>1, <1>2, PTL DEF Spec

(***************************************************************************)
(* The heap is a priority queue: every DequeueN returns as many requests   *)
(* as it should, the most urgent ones, in order, and loses none.           *)
(***************************************************************************)
THEOREM HeapIsAPriorityQueue == Spec => ImplementsRequestQueue
<1>1. Init => Queue!Init
  BY SoundInit
<1>2. HeapIsSound /\ [Next]_vars => [Queue!Next]_Queue!vars
  <2> SUFFICES ASSUME HeapIsSound, [Next]_vars PROVE [Queue!Next]_Queue!vars
    OBVIOUS
  <2>1. CASE \E r \in Requests : Enqueue(r)
    BY <2>1, EnqueueStep DEF Queue!Next
  <2>2. CASE \E n \in Limits : DequeueN(n)
    BY <2>2, DequeueStep DEF Queue!Next
  <2>3. CASE UNCHANGED vars
    BY <2>3 DEF vars, Queue!vars
  <2> QED
    BY <2>1, <2>2, <2>3 DEF Next
<1> QED
  BY <1>1, <1>2, HeapStaysSound, PTL DEF Spec, ImplementsRequestQueue, Queue!Spec
=============================================================================
