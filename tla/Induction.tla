----------------------------- MODULE Induction -----------------------------
(***************************************************************************)
(* Induction over the natural numbers and over finite sets, and what it    *)
(* gives for the two recursive definitions that the models use: a loop,    *)
(* as the sequence of its states, and a sum.  A property is a set here,    *)
(* that of the numbers or sets that have it, not an operator.              *)
(***************************************************************************)
EXTENDS Loops, Functions, FiniteSetTheorems, SequenceTheorems, WellFoundedInduction, TLAPS

LEMMA LeastNatural ==
  ASSUME NEW T \in SUBSET Nat, T # {}
  PROVE  \E m \in T : \A n \in T : m <= n
<1>1. PICK m \in T : \A n \in T : ~(<<n, m>> \in OpToRel(<, Nat))
  BY NatLessThanWellFounded, WFMin
<1>2. \A n \in T : ~(n < m)
  BY <1>1 DEF OpToRel
<1> QED
  BY <1>2

LEMMA Induct ==
  ASSUME NEW T, 0 \in T, \A n \in Nat : n \in T => n + 1 \in T
  PROVE  Nat \subseteq T
<1> SUFFICES ASSUME Nat \ T # {} PROVE FALSE
  OBVIOUS
<1>1. PICK m \in Nat \ T : \A n \in Nat \ T : m <= n
  BY LeastNatural
<1>2. m # 0 /\ m - 1 \in Nat /\ m - 1 \notin Nat \ T
  BY <1>1
<1>3. (m - 1) + 1 \in T
  BY <1>2
<1> QED
  BY <1>1, <1>3

-----------------------------------------------------------------------------
(***************************************************************************)
(* The states of a loop up to round k.                                     *)
(***************************************************************************)
FirstRounds(step, s, g, k) ==
  /\ g = [n \in 0 .. k |-> g[n]]
  /\ g[0] = s
  /\ \A n \in 0 .. k : n < k => g[n + 1] = step[g[n]]

LEMMA FirstRoundsExist ==
  ASSUME NEW step, NEW s, NEW k \in Nat
  PROVE  \E g : FirstRounds(step, s, g, k)
<1> DEFINE T == { j \in Nat : \E g : FirstRounds(step, s, g, j) }
<1>1. 0 \in T
  <2> DEFINE g == [n \in 0 .. 0 |-> s]
  <2>1. FirstRounds(step, s, g, 0)
    BY DEF FirstRounds
  <2> QED
    BY <2>1
<1>2. ASSUME NEW n \in Nat, n \in T PROVE n + 1 \in T
  <2>1. PICK g : FirstRounds(step, s, g, n)
    BY <1>2
  <2> DEFINE h == [i \in 0 .. n + 1 |-> IF i = n + 1 THEN step[g[n]] ELSE g[i]]
  <2>2. /\ h[0] = s
        /\ \A i \in 0 .. n + 1 : i < n + 1 => h[i + 1] = step[h[i]]
    <3>1. h[0] = s
      BY <2>1 DEF FirstRounds
    <3>2. ASSUME NEW i \in 0 .. n + 1, i < n + 1 PROVE h[i + 1] = step[h[i]]
      <4>1. i \in 0 .. n /\ i + 1 \in 0 .. n + 1 /\ h[i] = g[i]
        BY <3>2
      <4>2. CASE i = n
        BY <4>1, <4>2
      <4>3. CASE i < n
        <5>1. h[i + 1] = g[i + 1]
          BY <4>1, <4>3
        <5> QED
          BY <2>1, <4>1, <4>3, <5>1 DEF FirstRounds
      <4> QED
        BY <4>1, <4>2, <4>3
    <3> QED
      BY <3>1, <3>2
  <2>3. FirstRounds(step, s, h, n + 1)
    BY <2>2 DEF FirstRounds
  <2> QED
    BY <2>3
<1> QED
  BY <1>1, <1>2, Induct

LEMMA FirstRoundsAgree ==
  ASSUME NEW step, NEW s, NEW k \in Nat, NEW l \in Nat, k <= l,
         NEW g, FirstRounds(step, s, g, k), NEW h, FirstRounds(step, s, h, l),
         NEW n \in 0 .. k
  PROVE  g[n] = h[n]
<1> DEFINE T == { i \in Nat : i <= k => g[i] = h[i] }
<1>1. 0 \in T
  BY DEF FirstRounds
<1>2. ASSUME NEW i \in Nat, i \in T, i + 1 <= k PROVE g[i + 1] = h[i + 1]
  <2>1. i \in 0 .. k /\ i < k /\ i \in 0 .. l /\ i < l /\ g[i] = h[i]
    BY <1>2
  <2> QED
    BY <2>1 DEF FirstRounds
<1>3. \A i \in Nat : i \in T => i + 1 \in T
  BY <1>2
<1>4. Nat \subseteq T
  <2> HIDE DEF T
  <2> QED
    BY <1>1, <1>3, Induct
<1> QED
  BY <1>4

(***************************************************************************)
(* The recursive definition of Rounds defines what it says.                *)
(***************************************************************************)
LEMMA RoundsDef ==
  ASSUME NEW step, NEW s
  PROVE  /\ Rounds(step, s)[0] = s
         /\ \A n \in Nat : Rounds(step, s)[n + 1] = step[Rounds(step, s)[n]]
<1> DEFINE First(k) == CHOOSE g : FirstRounds(step, s, g, k)
           F == [n \in Nat |-> First(n)[n]]
           Def(f) == f = [n \in Nat |-> IF n = 0 THEN s ELSE step[f[n - 1]]]
<1>1. \A k \in Nat : FirstRounds(step, s, First(k), k)
  BY FirstRoundsExist
<1> HIDE DEF First
<1>2. F[0] = s
  BY <1>1 DEF FirstRounds
<1>3. ASSUME NEW n \in Nat PROVE F[n + 1] = step[F[n]]
  <2>1. First(n + 1)[n + 1] = step[First(n + 1)[n]]
    <3>1. FirstRounds(step, s, First(n + 1), n + 1)
      BY <1>1
    <3>2. n \in 0 .. n + 1 /\ n < n + 1
      OBVIOUS
    <3> QED
      BY <3>1, <3>2 DEF FirstRounds
  <2>2. First(n)[n] = First(n + 1)[n]
    BY <1>1, FirstRoundsAgree
  <2> QED
    BY <2>1, <2>2
<1>4. Def(F)
  <2>1. ASSUME NEW n \in Nat PROVE F[n] = IF n = 0 THEN s ELSE step[F[n - 1]]
    <3>1. CASE n = 0
      BY <1>2, <3>1
    <3>2. CASE n # 0
      <4>1. n - 1 \in Nat /\ (n - 1) + 1 = n
        BY <3>2
      <4> QED
        BY <1>3, <3>2, <4>1
    <3> QED
      BY <3>1, <3>2
  <2> QED
    BY <2>1
<1>5. Rounds(step, s) = CHOOSE f : Def(f)
  BY DEF Rounds
<1> HIDE DEF F
<1>6. Def(Rounds(step, s))
  BY <1>4, <1>5
<1>7. Rounds(step, s)[0] = s
  BY <1>6
<1>8. ASSUME NEW n \in Nat
      PROVE  Rounds(step, s)[n + 1] = step[Rounds(step, s)[n]]
  <2>1. n + 1 \in Nat /\ n + 1 # 0 /\ (n + 1) - 1 = n
    OBVIOUS
  <2> QED
    BY <1>6, <2>1
<1> QED
  BY <1>7, <1>8

-----------------------------------------------------------------------------
(***************************************************************************)
(* Induction over the subsets of a finite set.                             *)
(***************************************************************************)
LEMMA InductOnSubsets ==
  ASSUME NEW S, IsFiniteSet(S), NEW P, {} \in P,
         \A T \in SUBSET S, x \in S : T \in P /\ x \notin T => T \cup {x} \in P
  PROVE  SUBSET S \subseteq P
<1> DEFINE N == { n \in Nat : \A T \in SUBSET S : Cardinality(T) = n => T \in P }
<1>1. \A T \in SUBSET S : IsFiniteSet(T) /\ Cardinality(T) \in Nat
  BY FS_Subset, FS_CardinalityType
<1>2. 0 \in N
  BY <1>1, FS_EmptySet
<1>3. ASSUME NEW n \in Nat, n \in N PROVE n + 1 \in N
  <2> SUFFICES ASSUME NEW T \in SUBSET S, Cardinality(T) = n + 1 PROVE T \in P
    OBVIOUS
  <2>1. PICK x \in T : TRUE
    <3>1. T # {}
      BY <1>1, FS_EmptySet
    <3> QED
      BY <3>1
  <2>2. Cardinality(T \ {x}) = n
    <3>1. Cardinality(T \ {x}) = Cardinality(T) - 1
      BY <1>1, <2>1, FS_RemoveElement
    <3> QED
      BY <3>1
  <2>3. T \ {x} \in P
    BY <1>3, <2>2
  <2>4. (T \ {x}) \cup {x} \in P
    BY <2>1, <2>3
  <2>5. (T \ {x}) \cup {x} = T
    BY <2>1
  <2> QED
    BY <2>4, <2>5
<1>4. Nat \subseteq N
  <2>1. \A n \in Nat : n \in N => n + 1 \in N
    BY <1>3
  <2> HIDE DEF N
  <2> QED
    BY <1>2, <2>1, Induct
<1> QED
  BY <1>1, <1>4

-----------------------------------------------------------------------------
(***************************************************************************)
(* Sums.  FoldFunction adds the values of f up in some order: sums[s] is   *)
(* the sum over the set s.                                                 *)
(***************************************************************************)
AnyOf(s) == CHOOSE x \in s : TRUE

NextSums(f, sums) ==
  [s \in SUBSET DOMAIN f |-> IF s = {} THEN 0 ELSE f[AnyOf(s)] + sums[s \ {AnyOf(s)}]]

SumsOf(f) == CHOOSE sums : sums = NextSums(f, sums)

Total(f) == FoldFunction(+, 0, f)

LEMMA TotalIsSum == ASSUME NEW f PROVE Total(f) = SumsOf(f)[DOMAIN f]
  BY DEF Total, SumsOf, NextSums, AnyOf, FoldFunction, FoldFunctionOnSet, MapThenFoldSet

(***************************************************************************)
(* SumsOf is the function that its equation describes: carrying the        *)
(* equation out as often as there are elements leads to it.                *)
(***************************************************************************)
LEMMA SumsOfDef ==
  ASSUME NEW D, IsFiniteSet(D), NEW f \in [D -> Int]
  PROVE  SumsOf(f) = NextSums(f, SumsOf(f))
<1> DEFINE F == [SUBSET D -> Int]
           step == [g \in F |-> NextSums(f, g)]
           R == Rounds(step, [s \in SUBSET D |-> 0])
<1>1. \A g \in F : step[g] = NextSums(f, g) /\ NextSums(f, g) \in F
  <2> SUFFICES ASSUME NEW g \in F PROVE NextSums(f, g) \in F
    OBVIOUS
  <2>1. \A s \in SUBSET D : s # {} => AnyOf(s) \in D /\ s \ {AnyOf(s)} \in SUBSET D
    BY DEF AnyOf
  <2> QED
    BY <2>1 DEF NextSums
<1>2. /\ R[0] \in F
      /\ \A n \in Nat : R[n + 1] = step[R[n]]
  <2> DEFINE zero == [s \in SUBSET D |-> 0]
  <2>1. zero \in F
    OBVIOUS
  <2>2. R = Rounds(step, zero)
    OBVIOUS
  <2> HIDE DEF step, zero, F, R
  <2>3. R[0] = zero /\ \A n \in Nat : R[n + 1] = step[R[n]]
    BY <2>2, RoundsDef
  <2> QED
    BY <2>1, <2>3
<1>3. \A T \in SUBSET D : IsFiniteSet(T) /\ Cardinality(T) \in Nat
  BY FS_Subset, FS_CardinalityType
<1> HIDE DEF step, R, F
<1>4. \A n \in Nat : R[n] \in F
  <2> DEFINE T == { n \in Nat : R[n] \in F }
  <2>1. 0 \in T
    BY <1>2
  <2>2. \A n \in Nat : n \in T => n + 1 \in T
    BY <1>1, <1>2
  <2>3. Nat \subseteq T
    <3> HIDE DEF T
    <3> QED
      BY <2>1, <2>2, Induct
  <2> QED
    BY <2>3
<1>5. \A n \in Nat : \A s \in SUBSET D : Cardinality(s) < n => R[n + 1][s] = R[n][s]
  <2> DEFINE T == { n \in Nat : \A s \in SUBSET D : Cardinality(s) < n => R[n + 1][s] = R[n][s] }
  <2>1. 0 \in T
    BY <1>3
  <2>2. ASSUME NEW n \in Nat, n \in T PROVE n + 1 \in T
    <3> SUFFICES ASSUME NEW s \in SUBSET D, Cardinality(s) < n + 1
                 PROVE  R[n + 1 + 1][s] = R[n + 1][s]
      OBVIOUS
    <3>1. R[n + 1 + 1] = NextSums(f, R[n + 1]) /\ R[n + 1] = NextSums(f, R[n])
      <4>1. n + 1 \in Nat
        OBVIOUS
      <4> QED
        BY <1>1, <1>2, <1>4, <4>1
    <3>2. CASE s = {}
      BY <3>1, <3>2 DEF NextSums
    <3>3. CASE s # {}
      <4> DEFINE rest == s \ {AnyOf(s)}
      <4>1. AnyOf(s) \in s
        BY <3>3 DEF AnyOf
      <4>2. Cardinality(rest) = Cardinality(s) - 1
        BY <1>3, <4>1, FS_RemoveElement
      <4>3. Cardinality(rest) < n /\ rest \in SUBSET D
        BY <1>3, <4>2
      <4>4. R[n + 1][rest] = R[n][rest]
        BY <2>2, <4>3
      <4> QED
        BY <3>1, <3>3, <4>4 DEF NextSums
    <3> QED
      BY <3>2, <3>3
  <2>3. Nat \subseteq T
    <3>1. \A n \in Nat : n \in T => n + 1 \in T
      BY <2>2
    <3> HIDE DEF T
    <3> QED
      BY <2>1, <3>1, Induct
  <2> QED
    BY <2>3
<1> DEFINE N == Cardinality(D) + 1
<1>6. R[N] = NextSums(f, R[N])
  <2>1. N \in Nat /\ N + 1 \in Nat
    BY <1>3
  <2>2. \A s \in SUBSET D : Cardinality(s) < N
    BY <1>3, FS_Subset
  <2>3. R[N + 1] = R[N]
    <3> USE DEF F
    <3> HIDE DEF N
    <3> QED
      BY <1>4, <1>5, <2>1, <2>2
  <2> QED
    BY <1>1, <1>2, <1>4, <2>1, <2>3
<1> QED
  BY <1>6 DEF SumsOf

LEMMA SumsType ==
  ASSUME NEW D, IsFiniteSet(D), NEW f \in [D -> Int]
  PROVE  /\ SumsOf(f)[{}] = 0
         /\ \A T \in SUBSET D : SumsOf(f)[T] \in Int
<1> DEFINE N == { n \in Nat : \A T \in SUBSET D : Cardinality(T) = n => SumsOf(f)[T] \in Int }
<1>0. \A T \in SUBSET D : IsFiniteSet(T) /\ Cardinality(T) \in Nat
  BY FS_Subset, FS_CardinalityType
<1>1. /\ SumsOf(f)[{}] = 0
      /\ \A T \in SUBSET D :
           T # {} => SumsOf(f)[T] = f[AnyOf(T)] + SumsOf(f)[T \ {AnyOf(T)}]
  BY SumsOfDef DEF NextSums
<1>2. 0 \in N
  BY <1>0, <1>1, FS_EmptySet
<1>3. ASSUME NEW n \in Nat, n \in N PROVE n + 1 \in N
  <2> SUFFICES ASSUME NEW T \in SUBSET D, Cardinality(T) = n + 1
               PROVE  SumsOf(f)[T] \in Int
    OBVIOUS
  <2>1. T # {}
    BY FS_EmptySet
  <2>2. AnyOf(T) \in T
    BY <2>1 DEF AnyOf
  <2>3. Cardinality(T \ {AnyOf(T)}) = Cardinality(T) - 1
    BY <1>0, <2>2, FS_RemoveElement
  <2>4. SumsOf(f)[T \ {AnyOf(T)}] \in Int
    BY <1>3, <2>3
  <2> QED
    BY <1>1, <2>1, <2>2, <2>4
<1>4. Nat \subseteq N
  <2>1. \A n \in Nat : n \in N => n + 1 \in N
    BY <1>3
  <2> HIDE DEF N
  <2> QED
    BY <1>2, <2>1, Induct
<1> QED
  BY <1>0, <1>1, <1>4

(***************************************************************************)
(* Any element may be added last.                                          *)
(***************************************************************************)
LEMMA SumsRemove ==
  ASSUME NEW D, IsFiniteSet(D), NEW f \in [D -> Int]
  PROVE  \A T \in SUBSET D : \A x \in T : SumsOf(f)[T] = f[x] + SumsOf(f)[T \ {x}]
<1> DEFINE S == SumsOf(f)
           N == { n \in Nat : \A T \in SUBSET D : Cardinality(T) = n =>
                    \A x \in T : S[T] = f[x] + S[T \ {x}] }
<1>0. \A T \in SUBSET D : IsFiniteSet(T) /\ Cardinality(T) \in Nat
  BY FS_Subset, FS_CardinalityType
<1>1. \A T \in SUBSET D : T # {} => S[T] = f[AnyOf(T)] + S[T \ {AnyOf(T)}]
  BY SumsOfDef DEF NextSums
<1>2. \A T \in SUBSET D : S[T] \in Int
  BY SumsType
<1> HIDE DEF S
<1>3. 0 \in N
  BY <1>0, FS_EmptySet
<1>4. ASSUME NEW n \in Nat, n \in N PROVE n + 1 \in N
  <2> SUFFICES ASSUME NEW T \in SUBSET D, Cardinality(T) = n + 1, NEW x \in T
               PROVE  S[T] = f[x] + S[T \ {x}]
    OBVIOUS
  <2> DEFINE c == AnyOf(T)
  <2>1. c \in T
    BY DEF AnyOf
  <2>2. Cardinality(T \ {c}) = n /\ Cardinality(T \ {x}) = n
    <3>1. Cardinality(T \ {c}) = Cardinality(T) - 1
      BY <1>0, <2>1, FS_RemoveElement
    <3>2. Cardinality(T \ {x}) = Cardinality(T) - 1
      BY <1>0, FS_RemoveElement
    <3> QED
      BY <3>1, <3>2
  <2>3. S[T] = f[c] + S[T \ {c}]
    BY <1>1
  <2> HIDE DEF c
  <2>4. CASE x = c
    BY <2>3, <2>4
  <2>5. CASE x # c
    <3>1. S[T \ {c}] = f[x] + S[(T \ {c}) \ {x}]
      BY <1>4, <2>2, <2>5
    <3>2. S[T \ {x}] = f[c] + S[(T \ {x}) \ {c}]
      BY <1>4, <2>1, <2>2, <2>5
    <3>3. (T \ {c}) \ {x} = (T \ {x}) \ {c}
      OBVIOUS
    <3>4. f[c] \in Int /\ f[x] \in Int /\ S[(T \ {x}) \ {c}] \in Int
      BY <1>2, <2>1
    <3>5. S[T] = f[c] + (f[x] + S[(T \ {x}) \ {c}])
      BY <2>3, <3>1, <3>3
    <3>6. \A a, b, d \in Int : a + (b + d) = b + (a + d)
      OBVIOUS
    <3> QED
      BY <3>2, <3>4, <3>5, <3>6
  <2> QED
    BY <2>4, <2>5
<1>5. Nat \subseteq N
  <2>1. \A n \in Nat : n \in N => n + 1 \in N
    BY <1>4
  <2> HIDE DEF N
  <2> QED
    BY <1>3, <2>1, Induct
<1> QED
  BY <1>0, <1>5 DEF S

(***************************************************************************)
(* Sums of smaller numbers are smaller.                                    *)
(***************************************************************************)
LEMMA SumsCompare ==
  ASSUME NEW D, IsFiniteSet(D), NEW f \in [D -> Int], NEW g \in [D -> Int],
         NEW T \in SUBSET D, \A x \in T : f[x] <= g[x]
  PROVE  SumsOf(f)[T] <= SumsOf(g)[T]
<1> DEFINE P == { U \in SUBSET T : SumsOf(f)[U] <= SumsOf(g)[U] }
<1>1. {} \in P
  BY SumsType
<1>2. ASSUME NEW U \in SUBSET T, NEW x \in T, U \in P, x \notin U
      PROVE  U \cup {x} \in P
  <2>1. U \cup {x} \in SUBSET D /\ (U \cup {x}) \ {x} = U
    BY <1>2
  <2>2. /\ SumsOf(f)[U \cup {x}] = f[x] + SumsOf(f)[U]
        /\ SumsOf(g)[U \cup {x}] = g[x] + SumsOf(g)[U]
    BY <2>1, SumsRemove
  <2>3. SumsOf(f)[U] \in Int /\ SumsOf(g)[U] \in Int /\ f[x] \in Int /\ g[x] \in Int
    BY SumsType
  <2> QED
    BY <1>2, <2>2, <2>3
<1>3. SUBSET T \subseteq P
  <2>1. IsFiniteSet(T)
    BY FS_Subset
  <2>2. \A U \in SUBSET T, x \in T : U \in P /\ x \notin U => U \cup {x} \in P
    BY <1>2
  <2> HIDE DEF P
  <2> QED
    BY <1>1, <2>1, <2>2, InductOnSubsets
<1> QED
  BY <1>3

-----------------------------------------------------------------------------
(***************************************************************************)
(* What the models need of a sum.                                          *)
(***************************************************************************)
LEMMA TotalType ==
  ASSUME NEW D, IsFiniteSet(D), NEW f \in [D -> Int]
  PROVE  Total(f) \in Int
  BY TotalIsSum, SumsType

LEMMA TotalCompare ==
  ASSUME NEW D, IsFiniteSet(D), NEW f \in [D -> Int], NEW g \in [D -> Int],
         \A x \in D : f[x] <= g[x]
  PROVE  Total(f) <= Total(g)
  BY TotalIsSum, SumsCompare

LEMMA TotalOfZeros ==
  ASSUME NEW D, IsFiniteSet(D), NEW f \in [D -> Int], \A x \in D : f[x] = 0
  PROVE  Total(f) = 0
<1> DEFINE P == { U \in SUBSET D : SumsOf(f)[U] = 0 }
<1>1. {} \in P
  BY SumsType
<1>2. ASSUME NEW U \in SUBSET D, NEW x \in D, U \in P, x \notin U
      PROVE  U \cup {x} \in P
  <2>1. U \cup {x} \in SUBSET D /\ (U \cup {x}) \ {x} = U
    BY <1>2
  <2>2. SumsOf(f)[U \cup {x}] = f[x] + SumsOf(f)[U]
    BY <2>1, SumsRemove
  <2> QED
    BY <1>2, <2>2
<1>3. SUBSET D \subseteq P
  <2>1. \A U \in SUBSET D, x \in D : U \in P /\ x \notin U => U \cup {x} \in P
    BY <1>2
  <2> HIDE DEF P
  <2> QED
    BY <1>1, <2>1, InductOnSubsets
<1> QED
  BY <1>3, TotalIsSum

(***************************************************************************)
(* When one number changes, the sum changes by as much.                    *)
(***************************************************************************)
LEMMA TotalChange ==
  ASSUME NEW D, IsFiniteSet(D), NEW f \in [D -> Int], NEW k \in D, NEW v \in Int
  PROVE  Total([f EXCEPT ![k] = v]) = Total(f) - f[k] + v
<1> DEFINE g == [f EXCEPT ![k] = v]
           T == D \ {k}
<1>1. g \in [D -> Int] /\ DOMAIN f = D /\ DOMAIN g = D /\ g[k] = v
  OBVIOUS
<1>2. \A x \in T : f[x] <= g[x] /\ g[x] <= f[x]
  OBVIOUS
<1> HIDE DEF g
<1>3. SumsOf(f)[T] \in Int /\ SumsOf(g)[T] \in Int
  BY <1>1, SumsType
<1>4. SumsOf(f)[T] = SumsOf(g)[T]
  <2>1. SumsOf(f)[T] <= SumsOf(g)[T]
    BY <1>1, <1>2, SumsCompare
  <2>2. SumsOf(g)[T] <= SumsOf(f)[T]
    BY <1>1, <1>2, SumsCompare
  <2> QED
    BY <1>3, <2>1, <2>2
<1>5. SumsOf(f)[D] = f[k] + SumsOf(f)[T]
  BY <1>1, SumsRemove
<1>6. SumsOf(g)[D] = g[k] + SumsOf(g)[T]
  BY <1>1, SumsRemove
<1>7. f[k] \in Int
  OBVIOUS
<1>8. Total(g) = Total(f) - f[k] + v
  BY <1>1, <1>3, <1>4, <1>5, <1>6, <1>7, TotalIsSum
<1> QED
  BY <1>8 DEF g
=============================================================================
