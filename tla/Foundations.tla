---------------------------- MODULE Foundations ----------------------------
(***************************************************************************)
(* Facts that stand in for induction over numbers, functions each of whose *)
(* values is made from another, and what two operators on sequences        *)
(* return: At, the elements at some positions, in order, and FlattenSeq,   *)
(* which has every element of its sequences in one place.                  *)
(***************************************************************************)
EXTENDS Naturals, SequencesExt, Subsequences, SequenceTheorems, FiniteSetTheorems,
        WellFoundedInduction, TLAPS

\* Every nonempty set of numbers has a least one.
LEMMA LeastNumber ==
    ASSUME NEW T \in SUBSET Nat, T # {}
    PROVE  \E x \in T : \A y \in T : x <= y
<1> DEFINE R == OpToRel(<, Nat)
<1>1. IsWellFoundedOn(R, Nat)
  BY NatLessThanWellFounded
<1>2. \A a, b \in Nat : a < b => <<a, b>> \in R
  BY DEF OpToRel
<1> HIDE DEF R
<1>3. PICK x \in T : \A y \in T : ~(<<y, x>> \in R)
  BY <1>1, WFMin
<1>4. \A y \in T : y \in Nat
  OBVIOUS
<1>5. ASSUME NEW y \in T
      PROVE  x <= y
  <2>1. x \in Nat /\ y \in Nat /\ ~(<<y, x>> \in R)
    BY <1>3, <1>4
  <2>2. ~(y < x)
    BY <2>1, <1>2
  <2> QED
    BY <2>1, <2>2
<1> QED
  BY <1>5

\* Every nonempty finite set of numbers has a greatest one: one without would
\* have, at the least size there is, an element less with a greatest.
LEMMA GreatestNumber ==
    ASSUME NEW T \in SUBSET Nat, IsFiniteSet(T), T # {}
    PROVE  \E x \in T : \A y \in T : y <= x
<1> DEFINE HasGreatest(S) == \E x \in S : \A y \in S : y <= x
           Bad == {S \in SUBSET T : S # {} /\ ~HasGreatest(S)}
           Sizes == {Cardinality(S) : S \in Bad}
<1>1. \A S \in Bad : IsFiniteSet(S) /\ Cardinality(S) \in Nat
  BY FS_Subset, FS_CardinalityType
<1>2. Sizes \in SUBSET Nat
  BY <1>1
<1> SUFFICES ASSUME Bad # {}
             PROVE  FALSE
  OBVIOUS
<1> HIDE DEF Sizes
<1>3. PICK k \in Sizes : \A l \in Sizes : k <= l
  <2>1. Sizes # {}
    BY DEF Sizes
  <2> QED
    BY <1>2, <2>1, LeastNumber
<1> USE DEF Sizes
<1>4. PICK S \in Bad : k = Cardinality(S)
  BY <1>3
<1>5. PICK x \in S : TRUE
  OBVIOUS
<1>6. IsFiniteSet(S \ {x}) /\ Cardinality(S \ {x}) = k - 1 /\ k \in Nat
  BY <1>1, <1>4, <1>5, FS_RemoveElement
<1>7. S \ {x} \notin Bad
  <2> SUFFICES ASSUME S \ {x} \in Bad
               PROVE  FALSE
    OBVIOUS
  <2>1. Cardinality(S \ {x}) \in Sizes
    OBVIOUS
  <2>2. k <= Cardinality(S \ {x})
    BY <1>3, <2>1
  <2> QED
    BY <1>6, <2>2
<1>8. CASE S = {x}
  BY <1>8
<1>9. CASE S # {x}
  <2>1. PICK m \in S \ {x} : \A y \in S \ {x} : y <= m
    BY <1>5, <1>7, <1>9
  <2>2. m \in Nat /\ x \in Nat /\ \A y \in S : y \in Nat
    BY <2>1, <1>5
  <2> QED
    BY <2>1, <2>2, <1>5
<1> QED
  BY <1>8, <1>9

\* Max is that number.
LEMMA MaxOfSet ==
    ASSUME NEW T \in SUBSET Nat, IsFiniteSet(T), T # {}
    PROVE  Max(T) \in T /\ \A y \in T : y <= Max(T)
<1>1. PICK x \in T : \A y \in T : y <= x
  BY GreatestNumber
<1>2. x \in T /\ \A y \in T : x >= y
  BY <1>1
<1>3. Max(T) \in T /\ \A y \in T : Max(T) >= y
  BY <1>2 DEF Max
<1> QED
  BY <1>3

\* Up to a bound, every nonempty set has both.
LEMMA LeastAndGreatest ==
    ASSUME NEW n \in Nat, NEW T \in SUBSET (0..n), T # {}
    PROVE  /\ \E x \in T : \A y \in T : x <= y
           /\ \E x \in T : \A y \in T : y <= x
<1>1. IsFiniteSet(T)
  <2>1. 0 \in Int /\ n \in Int
    OBVIOUS
  <2>2. IsFiniteSet(0..n)
    BY <2>1, FS_Interval
  <2> QED
    BY <2>2, FS_Subset
<1>2. T \in SUBSET Nat
  OBVIOUS
<1> QED
  BY <1>1, <1>2, LeastNumber, GreatestNumber

\* A set of numbers that holds the next one as well holds all.
LEMMA UpTo ==
    ASSUME NEW N \in Nat, NEW T, 0 \in T, \A n \in 1..N : n - 1 \in T => n \in T
    PROVE  \A n \in 0..N : n \in T
<1> DEFINE Out == {n \in 0..N : n \notin T}
<1>1. ASSUME Out # {}
      PROVE  FALSE
  <2>1. PICK x \in Out : \A y \in Out : x <= y
    <3>1. Out \in SUBSET Nat
      OBVIOUS
    <3> QED
      BY <1>1, <3>1, LeastNumber
  <2>2. x \in 1..N /\ x - 1 \in 0..N /\ x - 1 \notin Out
    BY <2>1
  <2> QED
    BY <2>1, <2>2
<1> QED
  BY <1>1

\* Downwards, where each number may need all those above it.
LEMMA DownFrom ==
    ASSUME NEW N \in Nat, NEW T, \A n \in 1..N : (\A m \in (n + 1)..N : m \in T) => n \in T
    PROVE  \A n \in 1..N : n \in T
<1> DEFINE Out == {k \in 0..N : k < N /\ N - k \notin T}
<1>1. ASSUME Out # {}
      PROVE  FALSE
  <2>1. PICK x \in Out : \A y \in Out : x <= y
    <3>1. Out \in SUBSET Nat
      OBVIOUS
    <3> QED
      BY <1>1, <3>1, LeastNumber
  <2>2. x \in 0..N /\ x < N /\ N - x \in 1..N /\ N - x \notin T
    BY <2>1
  <2>3. ASSUME NEW m \in (N - x + 1)..N
        PROVE  m \in T
    <3>1. N - m \in 0..N /\ N - m < x /\ N - m < N /\ N - (N - m) = m
      BY <2>2, <2>3
    <3>2. N - m \notin Out
      BY <2>1, <3>1
    <3> QED
      BY <3>1, <3>2
  <2> QED
    BY <2>2, <2>3
<1>2. ASSUME NEW n \in 1..N
      PROVE  n \in T
  <2>1. N - n \in 0..N /\ N - n < N /\ N - (N - n) = n
    OBVIOUS
  <2> QED
    BY <1>1, <2>1
<1> QED
  BY <1>2

\* The values of f up to the n-th are made by step, one from the other.
Iterates(f, n, base, step) == f[0] = base /\ \A m \in 1..n : f[m] = step[<<f[m - 1], m>>]

\* A step function has iterates.
LEMMA Iterated ==
    ASSUME NEW N \in Nat, NEW S, NEW base \in S, NEW step \in [S \X (1..N) -> S]
    PROVE  \E f \in [0..N -> S] : Iterates(f, N, base, step)
<1> USE DEF Iterates
<1> DEFINE Good(f, n) == Iterates(f, n, base, step)
           T == {n \in 0..N : \E f \in [0..N -> S] : Good(f, n)}
<1>1. 0 \in T
  <2> DEFINE g == [n \in 0..N |-> base]
  <2>1. g \in [0..N -> S] /\ g[0] = base
    OBVIOUS
  <2> HIDE DEF g
  <2>2. Good(g, 0)
    BY <2>1
  <2> QED
    BY <2>1, <2>2
<1>2. ASSUME NEW n \in 1..N, n - 1 \in T
      PROVE  n \in T
  <2>1. PICK f \in [0..N -> S] : Good(f, n - 1)
    BY <1>2
  <2> DEFINE g == [f EXCEPT ![n] = step[<<f[n - 1], n>>]]
  <2>2. f[n - 1] \in S /\ <<f[n - 1], n>> \in S \X (1..N)
    OBVIOUS
  <2>3. g \in [0..N -> S]
    BY <2>2
  <2>4. g[0] = base /\ g[n] = step[<<f[n - 1], n>>] /\ \A m \in 0..(n - 1) : g[m] = f[m]
    BY <2>1
  <2>5. ASSUME NEW m \in 1..n
        PROVE  g[m] = step[<<g[m - 1], m>>]
    <3>1. CASE m = n
      BY <3>1, <2>4
    <3>2. CASE m # n
      <4>1. m \in 1..(n - 1) /\ m - 1 \in 0..(n - 1) /\ m \in 0..(n - 1)
        BY <3>2
      <4> QED
        BY <4>1, <2>1, <2>4
    <3> QED
      BY <3>1, <3>2
  <2> HIDE DEF g
  <2>6. Good(g, n)
    BY <2>4, <2>5
  <2> QED
    BY <2>3, <2>6
<1> HIDE DEF T
<1>3. N \in T
  BY <1>1, <1>2, UpTo
<1> QED
  BY <1>3 DEF T

\* f and g begin alike and go on alike.
Alike(f, g, N) == f[0] = g[0] /\ \A n \in 1..N : f[n - 1] = g[n - 1] => f[n] = g[n]

\* Then they are the same.
LEMMA SameIterates ==
    ASSUME NEW N \in Nat, NEW f, NEW g, Alike(f, g, N)
    PROVE  f[N] = g[N]
<1> DEFINE T == {n \in 0..N : f[n] = g[n]}
<1>1. 0 \in T /\ \A n \in 1..N : n - 1 \in T => n \in T
  BY DEF Alike
<1> HIDE DEF T
<1>2. N \in T
  BY <1>1, UpTo
<1> QED
  BY <1>2 DEF T

\* The least number of a set.
LEMMA MinOfSet ==
    ASSUME NEW T \in SUBSET Nat, T # {}
    PROVE  Min(T) \in T /\ \A y \in T : Min(T) <= y
<1>1. PICK x \in T : \A y \in T : x <= y
  BY LeastNumber
<1> QED
  BY <1>1 DEF Min

\* f goes down from N + 1: each value is made from that at next, further up.
GoesDown(f, N, base, next, step) ==
    /\ f[N + 1] = base
    /\ \A i \in 1..N : f[i] = step[<<i, f[next[i]]>>]

LEMMA Downwards ==
    ASSUME NEW N \in Nat, NEW S, NEW base \in S,
           NEW next \in [1..N -> 1..(N + 1)], \A i \in 1..N : i < next[i],
           NEW step \in [(1..N) \X S -> S]
    PROVE  \E f \in [1..(N + 1) -> S] : GoesDown(f, N, base, next, step)
<1> DEFINE Good(f, k) == f[N + 1] = base /\ \A i \in 1..N : k <= i => f[i] = step[<<i, f[next[i]]>>]
           T == {n \in 0..N : \E f \in [1..(N + 1) -> S] : Good(f, N + 1 - n)}
<1>1. 0 \in T
  <2> DEFINE g == [i \in 1..(N + 1) |-> base]
  <2>1. g \in [1..(N + 1) -> S] /\ g[N + 1] = base
    OBVIOUS
  <2>2. \A i \in 1..N : ~(N + 1 - 0 <= i)
    OBVIOUS
  <2> HIDE DEF g
  <2>3. Good(g, N + 1 - 0)
    BY <2>1, <2>2
  <2> HIDE DEF Good
  <2> QED
    BY <2>1, <2>3
<1>2. ASSUME NEW n \in 1..N, n - 1 \in T
      PROVE  n \in T
  <2> DEFINE k == N + 1 - n
             U == 1..(N + 1)
  <2>1. k \in 1..N /\ N + 1 - (n - 1) = k + 1 /\ k \in U /\ N + 1 \in U /\ N + 1 # k
    OBVIOUS
  <2>2. PICK f \in [U -> S] : Good(f, k + 1)
    <3> HIDE DEF Good, k
    <3> QED
      BY <1>2, <2>1
  <2> DEFINE v == step[<<k, f[next[k]]>>]
             g == [f EXCEPT ![k] = v]
  <2> HIDE DEF k
  <2>3. next[k] \in U /\ f[next[k]] \in S
    BY <2>1
  <2>4. v \in S
    <3>1. <<k, f[next[k]]>> \in (1..N) \X S
      BY <2>1, <2>3
    <3> QED
      BY <3>1
  <2> HIDE DEF v, U
  <2>5. g \in [U -> S] /\ g[k] = v /\ \A i \in U : i # k => g[i] = f[i]
    BY <2>1, <2>4
  <2> HIDE DEF g
  <2>6. g[N + 1] = base
    BY <2>1, <2>2, <2>5
  <2>7. ASSUME NEW i \in 1..N, k <= i
        PROVE  g[i] = step[<<i, g[next[i]]>>]
    <3>1. next[i] \in U /\ next[i] # k /\ i \in U
      BY <2>1, <2>7 DEF U
    <3>2. g[next[i]] = f[next[i]]
      BY <3>1, <2>5
    <3>3. CASE i = k
      BY <3>2, <3>3, <2>5 DEF v
    <3>4. CASE i # k
      <4>1. k + 1 <= i
        BY <2>1, <2>7, <3>4
      <4>2. f[i] = step[<<i, f[next[i]]>>]
        BY <4>1, <2>2
      <4>3. g[i] = f[i]
        BY <3>1, <3>4, <2>5
      <4> QED
        BY <4>2, <4>3, <3>2
    <3> QED
      BY <3>3, <3>4
  <2>8. Good(g, k)
    BY <2>6, <2>7
  <2> HIDE DEF Good
  <2> QED
    BY <2>5, <2>8 DEF k, U
<1> HIDE DEF T
<1>3. N \in T
  <2>1. \A n \in 0..N : n \in T
    BY <1>1, <1>2, UpTo
  <2> QED
    BY <2>1
<1>4. PICK f \in [1..(N + 1) -> S] : Good(f, N + 1 - N)
  BY <1>3 DEF T
<1>5. \A i \in 1..N : N + 1 - N <= i
  OBVIOUS
<1> QED
  BY <1>4, <1>5 DEF GoesDown


-----------------------------------------------------------------------------
(* Counting and selecting.                                                 *)

\* How many numbers of a set there are up to one of its numbers.
LEMMA CountUpTo ==
    ASSUME NEW T \in SUBSET Nat, IsFiniteSet(T), NEW x \in T
    PROVE  /\ Cardinality({y \in T : y <= x}) \in 1..Cardinality(T)
           /\ \A z \in T : x < z =>
                 Cardinality({y \in T : y <= x}) < Cardinality({y \in T : y <= z})
<1> DEFINE U(z) == {y \in T : y <= z}
<1>1. \A z \in T : /\ IsFiniteSet(U(z)) /\ Cardinality(U(z)) \in Nat
                   /\ Cardinality(U(z)) <= Cardinality(T) /\ Cardinality(T) \in Nat
                   /\ z \in U(z)
  BY FS_Subset, FS_CardinalityType
<1>2. \A z \in T : Cardinality(U(z)) # 0
  BY <1>1, FS_EmptySet
<1>3. ASSUME NEW z \in T, x < z
      PROVE  Cardinality(U(x)) < Cardinality(U(z))
  <2>1. x \in Nat /\ z \in Nat /\ \A y \in T : y \in Nat
    OBVIOUS
  <2>2. U(x) \in SUBSET U(z) /\ z \notin U(x)
    <3>1. \A y \in T : y <= x => y <= z
      BY <1>3, <2>1
    <3>2. ~(z <= x)
      BY <1>3, <2>1
    <3> QED
      BY <3>1, <3>2
  <2> QED
    BY <2>2, <1>1, FS_Subset
<1> QED
  BY <1>1, <1>2, <1>3

\* Nth counts a finite set of numbers through, upwards.
LEMMA NthCounts ==
    ASSUME NEW T \in SUBSET Nat, IsFiniteSet(T)
    PROVE  /\ \A k \in 1..Cardinality(T) : Nth(T, k) \in T
           /\ \A k, l \in 1..Cardinality(T) : k < l => Nth(T, k) < Nth(T, l)
           /\ \A x \in T : \E k \in 1..Cardinality(T) : Nth(T, k) = x
<1> DEFINE U(z) == {y \in T : y <= z}
<1>0. Cardinality(T) \in Nat
  BY FS_CardinalityType
<1>1. \A z \in T : Cardinality(U(z)) \in 1..Cardinality(T)
  BY CountUpTo
<1>2. \A x, z \in T : x < z => Cardinality(U(x)) < Cardinality(U(z))
  BY CountUpTo
<1>3. \A x, z \in T : Cardinality(U(x)) = Cardinality(U(z)) => x = z
  BY <1>1, <1>2, <1>0
<1>4. ASSUME NEW k \in 1..Cardinality(T)
      PROVE  \E x \in T : Cardinality(U(x)) = k
  <2> DEFINE X == {x \in T : k <= Cardinality(U(x))}
  <2>1. X \in SUBSET Nat /\ X # {}
    <3>1. T # {}
      BY <1>0, FS_EmptySet
    <3>2. PICK m \in T : \A y \in T : y <= m
      BY <3>1, GreatestNumber
    <3>3. U(m) = T
      BY <3>2
    <3>4. m \in X
      BY <3>3, <1>0
    <3> QED
      BY <3>4
  <2>2. PICK x \in X : \A y \in X : x <= y
    BY <2>1, LeastNumber
  <2>3. x \in T /\ k <= Cardinality(U(x))
    OBVIOUS
  <2>4. SUFFICES ASSUME k < Cardinality(U(x))
                 PROVE  FALSE
    BY <2>3, <1>1, <1>0
  <2>5. IsFiniteSet(U(x)) /\ x \in U(x)
    BY <2>3, FS_Subset
  <2> DEFINE B == U(x) \ {x}
  <2>6. IsFiniteSet(B) /\ Cardinality(B) = Cardinality(U(x)) - 1
    BY <2>5, FS_RemoveElement
  <2>7. k <= Cardinality(B) /\ Cardinality(B) # 0
    BY <2>4, <2>6, <1>0, <1>1, <2>3
  <2>8. B # {} /\ B \in SUBSET Nat
    BY <2>6, <2>7, FS_EmptySet
  <2>9. PICK b \in B : \A y \in B : y <= b
    BY <2>6, <2>8, GreatestNumber
  <2>10. b \in T /\ b < x /\ U(b) = B
    <3>1. x \in Nat /\ \A y \in T : y \in Nat
      BY <2>3
    <3>2. b \in T /\ b <= x /\ b # x
      BY <2>9
    <3>3. \A y \in T : y <= b => y \in B
      BY <3>1, <3>2
    <3>4. b < x
      BY <3>1, <3>2
    <3>5. \A y \in B : y \in T /\ y <= b
      BY <2>9
    <3>6. U(b) = B
      BY <3>3, <3>5
    <3> QED
      BY <3>2, <3>4, <3>6
  <2>11. b \in X
    BY <2>7, <2>10
  <2> QED
    BY <2>2, <2>10, <2>11
<1>5. \A k \in 1..Cardinality(T) : Nth(T, k) \in T /\ Cardinality(U(Nth(T, k))) = k
  BY <1>4 DEF Nth
<1>6. ASSUME NEW k \in 1..Cardinality(T), NEW l \in 1..Cardinality(T), k < l
      PROVE  Nth(T, k) < Nth(T, l)
  <2>1. Nth(T, k) \in Nat /\ Nth(T, l) \in Nat /\ Nth(T, k) \in T /\ Nth(T, l) \in T
    BY <1>5
  <2>2. Cardinality(U(Nth(T, k))) = k /\ Cardinality(U(Nth(T, l))) = l
    BY <1>5
  <2>3. Nth(T, l) < Nth(T, k) => l < k
    BY <1>2, <2>1, <2>2
  <2>4. Nth(T, l) # Nth(T, k)
    BY <2>2, <1>6, <1>0
  <2> QED
    BY <2>1, <2>3, <2>4, <1>6, <1>0
<1>7. ASSUME NEW x \in T
      PROVE  \E k \in 1..Cardinality(T) : Nth(T, k) = x
  <2>1. Cardinality(U(x)) \in 1..Cardinality(T)
    BY <1>1
  <2> QED
    BY <2>1, <1>5, <1>3
<1> QED
  BY <1>5, <1>6, <1>7

\* At keeps the order, and each of the elements once.
LEMMA AtKeeps ==
    ASSUME NEW S, NEW s \in Seq(S), NEW T \in SUBSET (DOMAIN s)
    PROVE  /\ At(s, T) \in Seq(S)
           /\ DOMAIN At(s, T) = 1..Cardinality(T) /\ Len(At(s, T)) = Cardinality(T)
           /\ Cardinality(T) \in Nat
           /\ ToSet(At(s, T)) = {s[i] : i \in T}
           /\ \A k \in DOMAIN At(s, T) : Nth(T, k) \in T /\ At(s, T)[k] = s[Nth(T, k)]
           /\ \A k, l \in DOMAIN At(s, T) : k < l => Nth(T, k) < Nth(T, l)
           /\ IsInjective(s) => IsInjective(At(s, T))
<1>1. DOMAIN s = 1..Len(s) /\ Len(s) \in Nat /\ \A i \in DOMAIN s : s[i] \in S
  BY LenProperties, ElementOfSeq
<1>2. T \in SUBSET Nat /\ IsFiniteSet(T) /\ Cardinality(T) \in Nat
  <2>1. IsFiniteSet(1..Len(s))
    BY <1>1, FS_Interval
  <2>2. T \in SUBSET (1..Len(s)) /\ T \in SUBSET Nat
    BY <1>1
  <2>3. IsFiniteSet(T)
    BY <2>1, <2>2, FS_Subset
  <2> QED
    BY <2>2, <2>3, FS_CardinalityType
<1>3. /\ \A k \in 1..Cardinality(T) : Nth(T, k) \in T
      /\ \A k, l \in 1..Cardinality(T) : k < l => Nth(T, k) < Nth(T, l)
      /\ \A x \in T : \E k \in 1..Cardinality(T) : Nth(T, k) = x
  BY <1>2, NthCounts
<1> DEFINE a == At(s, T)
<1>4. a = [k \in 1..Cardinality(T) |-> s[Nth(T, k)]]
  BY DEF At
<1>5. \A k \in 1..Cardinality(T) : s[Nth(T, k)] \in S
  BY <1>1, <1>3
<1>6. a \in [1..Cardinality(T) -> S]
  BY <1>4, <1>5
<1>7. a \in Seq(S)
  BY <1>6, <1>2, SeqDef
<1>8. DOMAIN a = 1..Cardinality(T) /\ Len(a) = Cardinality(T)
  BY <1>4, <1>2, <1>7, LenProperties
<1>9. ToSet(a) = {s[i] : i \in T}
  BY <1>4, <1>3, <1>8 DEF ToSet
<1>10. ASSUME IsInjective(s)
       PROVE  IsInjective(a)
  <2>1. \A i, j \in DOMAIN s : s[i] = s[j] => i = j
    BY <1>10 DEF IsInjective
  <2>2. ASSUME NEW k \in 1..Cardinality(T), NEW l \in 1..Cardinality(T), a[k] = a[l]
        PROVE  k = l
    <3>1. Nth(T, k) = Nth(T, l) /\ Nth(T, k) \in Nat
      BY <2>1, <2>2, <1>3, <1>4, <1>2
    <3>2. ~(k < l) /\ ~(l < k)
      BY <3>1, <1>3
    <3> QED
      BY <3>2, <1>2
  <2> QED
    BY <2>2, <1>8 DEF IsInjective
<1> QED
  BY <1>2, <1>3, <1>4, <1>7, <1>8, <1>9, <1>10


-----------------------------------------------------------------------------
(* Sequences of sequences.                                                  *)

\* f[n] is what the first n sequences of ss make together.
Flattens(f, ss) == f[0] = <<>> /\ \A n \in 1..Len(ss) : f[n] = f[n - 1] \o ss[n]

\* FlattenSeq puts the sequences together, one after the other.
LEMMA FlattenDefined ==
    ASSUME NEW S, NEW ss \in Seq(Seq(S))
    PROVE  \E f \in [0..Len(ss) -> Seq(S)] : Flattens(f, ss) /\ FlattenSeq(ss) = f[Len(ss)]
<1> DEFINE N == Len(ss)
           Q == Seq(S)
           step == [x \in Q \X (1..N) |-> x[1] \o ss[x[2]]]
<1>1. N \in Nat /\ <<>> \in Q /\ \A n \in 1..N : ss[n] \in Q
  OBVIOUS
<1>2. step \in [Q \X (1..N) -> Q]
  <2>1. \A x \in Q \X (1..N) : x[1] \in Q /\ ss[x[2]] \in Q
    BY <1>1
  <2>2. \A a, b \in Q : a \o b \in Q
    BY ConcatProperties
  <2> QED
    BY <2>1, <2>2
<1>3. PICK f \in [0..N -> Q] : Iterates(f, N, <<>>, step)
  <2> HIDE DEF N, Q, step
  <2> QED
    BY <1>1, <1>2, Iterated
<1>4. Flattens(f, ss)
  <2>1. ASSUME NEW n \in 1..N
        PROVE  f[n] = f[n - 1] \o ss[n]
    <3>1. f[n - 1] \in Q /\ <<f[n - 1], n>> \in Q \X (1..N)
      <4> HIDE DEF N, Q
      <4>1. n - 1 \in 0..N
        BY <1>1
      <4> QED
        BY <4>1
    <3>2. f[n] = step[<<f[n - 1], n>>]
      BY <1>3 DEF Iterates
    <3> QED
      BY <3>1, <3>2
  <2> QED
    BY <1>3, <2>1 DEF Flattens, Iterates
<1>5. CASE N = 0
  <2>1. ss = <<>> /\ FlattenSeq(ss) = ss
    BY <1>5 DEF FlattenSeq
  <2>2. f[N] = <<>>
    BY <1>4, <1>5 DEF Flattens
  <2> QED
    BY <1>4, <2>1, <2>2
<1>6. CASE N # 0
  <2> DEFINE Is(g) == g = [i \in 1..Len(ss) |-> IF i = 1 THEN ss[i] ELSE g[i - 1] \o ss[i]]
             h == [i \in 1..N |-> f[i]]
  <2>1. Is(h)
    <3>1. \A a \in Q : <<>> \o a = a
      BY ConcatEmptySeq
    <3>2. ASSUME NEW i \in 1..N
          PROVE  h[i] = IF i = 1 THEN ss[i] ELSE h[i - 1] \o ss[i]
      <4>1. f[i] = f[i - 1] \o ss[i]
        BY <1>4 DEF Flattens
      <4>2. CASE i = 1
        BY <4>1, <4>2, <1>1, <1>4, <3>1 DEF Flattens
      <4>3. CASE i # 1
        <5>1. i - 1 \in 1..N
          BY <4>3, <1>1
        <5> QED
          BY <4>1, <4>3, <5>1
      <4> QED
        BY <4>2, <4>3
    <3> QED
      BY <3>2
  <2> DEFINE G == CHOOSE g : Is(g)
  <2>2. Is(G)
    BY <2>1
  <2>3. FlattenSeq(ss) = G[N]
    BY <1>6 DEF FlattenSeq
  <2> HIDE DEF G
  <2> DEFINE T == {n \in 1..N : G[n] = f[n]}
  <2>4. ASSUME NEW n \in 1..N, n = 1 \/ n - 1 \in T
        PROVE  n \in T
    <3>1. G[n] = IF n = 1 THEN ss[n] ELSE G[n - 1] \o ss[n]
      BY <2>2
    <3>2. h[n] = IF n = 1 THEN ss[n] ELSE h[n - 1] \o ss[n]
      <4> HIDE DEF h
      <4> QED BY <2>1
    <3>3. n # 1 => n - 1 \in 1..N
      BY <1>1
    <3> QED
      BY <2>4, <3>1, <3>2, <3>3
  <2>5. N \in T
    <3> DEFINE U == {0} \cup T
    <3>1. 0 \in U /\ \A n \in 1..N : n - 1 \in U => n \in U
      <4> HIDE DEF T
      <4> QED
        BY <2>4
    <3> HIDE DEF U, T, N
    <3>2. N \in U
      <4>1. N \in Nat
        BY <1>1
      <4>2. \A n \in 0..N : n \in U
        BY <3>1, <4>1, UpTo
      <4> QED
        BY <4>1, <4>2
    <3> QED
      BY <3>2, <1>6 DEF U
  <2> QED
    BY <1>4, <2>3, <2>5
<1> QED
  BY <1>5, <1>6

\* The positions of ss and in its sequences.
Pairs(ss) == UNION {{i} \X DOMAIN ss[i] : i \in DOMAIN ss}

LEMMA PairsAre ==
    ASSUME NEW S, NEW ss \in Seq(Seq(S))
    PROVE  /\ \A q \in Pairs(ss) : q[1] \in DOMAIN ss /\ q[2] \in Nat /\ q[2] \in DOMAIN ss[q[1]]
                                 /\ q = <<q[1], q[2]>>
           /\ \A i \in DOMAIN ss : \A j \in DOMAIN ss[i] : <<i, j>> \in Pairs(ss)
<1>1. \A i \in DOMAIN ss : DOMAIN ss[i] \in SUBSET Nat
  OBVIOUS
<1> QED
  BY <1>1 DEF Pairs

\* p places the elements of s in the first n sequences of ss, each in one place.
Placing(p, s, ss, n) ==
    /\ p \in [1..Len(s) -> Pairs(ss)]
    /\ \A x \in 1..Len(s) : p[x][1] <= n /\ s[x] = ss[p[x][1]][p[x][2]]
    /\ \A x, y \in 1..Len(s) : p[x] = p[y] => x = y
    /\ \A q \in Pairs(ss) : q[1] <= n => \E x \in 1..Len(s) : p[x] = q

LEMMA PlacesMore ==
    ASSUME NEW S, NEW ss \in Seq(Seq(S)), NEW n \in 1..Len(ss),
           NEW s \in Seq(S), NEW p, Placing(p, s, ss, n - 1)
    PROVE  \E r : Placing(r, s \o ss[n], ss, n)
<1> DEFINE L == Len(s)
           M == Len(ss[n])
           t == s \o ss[n]
           r == [x \in 1..Len(t) |-> IF x <= L THEN p[x] ELSE <<n, x - L>>]
<1>1. /\ ss[n] \in Seq(S) /\ L \in Nat /\ M \in Nat /\ Len(t) = L + M /\ t \in Seq(S)
      /\ n \in DOMAIN ss /\ n \in Nat /\ DOMAIN ss[n] = 1..M
      /\ \A i \in DOMAIN ss : i \in Nat
  OBVIOUS
<1>2. /\ \A x \in 1..L : t[x] = s[x]
      /\ \A x \in 1..(L + M) : x > L => t[x] = ss[n][x - L]
  OBVIOUS
<1>3. \A q \in Pairs(ss) : q[1] \in DOMAIN ss /\ q[2] \in Nat /\ q[2] \in DOMAIN ss[q[1]] /\ q = <<q[1], q[2]>>
  BY PairsAre
<1>4. \A j \in 1..M : <<n, j>> \in Pairs(ss)
  <2>1. \A i \in DOMAIN ss : \A j \in DOMAIN ss[i] : <<i, j>> \in Pairs(ss)
    BY PairsAre
  <2> HIDE DEF M, L, t, r
  <2> QED
    BY <2>1, <1>1
<1>5. /\ p \in [1..L -> Pairs(ss)]
      /\ \A x \in 1..L : p[x][1] <= n - 1 /\ s[x] = ss[p[x][1]][p[x][2]]
      /\ \A x, y \in 1..L : p[x] = p[y] => x = y
      /\ \A q \in Pairs(ss) : q[1] <= n - 1 => \E x \in 1..L : p[x] = q
  BY DEF Placing
<1> HIDE DEF t, L, M
<1>6. \A x \in 1..(L + M) : x <= L => r[x] = p[x] /\ x \in 1..L
  BY <1>1
<1>7. \A x \in 1..(L + M) : ~(x <= L) => r[x] = <<n, x - L>> /\ x - L \in 1..M /\ x > L
  BY <1>1
<1>8. r \in [1..Len(t) -> Pairs(ss)]
  BY <1>1, <1>4, <1>5, <1>6, <1>7
<1> HIDE DEF r
<1>9. ASSUME NEW x \in 1..Len(t)
      PROVE  r[x][1] <= n /\ t[x] = ss[r[x][1]][r[x][2]]
  <2>1. x \in 1..(L + M)
    BY <1>1
  <2>2. CASE x <= L
    <3>1. x \in 1..L /\ r[x] = p[x] /\ p[x] \in Pairs(ss)
      BY <2>1, <2>2, <1>6, <1>5
    <3>2. p[x][1] \in Nat /\ p[x][1] <= n - 1
      BY <3>1, <1>1, <1>3, <1>5
    <3>3. p[x][1] <= n
      BY <3>2, <1>1
    <3>4. t[x] = s[x] /\ s[x] = ss[p[x][1]][p[x][2]]
      BY <3>1, <1>2, <1>5
    <3> QED
      BY <3>1, <3>3, <3>4
  <2>3. CASE ~(x <= L)
    BY <2>1, <2>3, <1>7, <1>2, <1>1
  <2> QED
    BY <2>2, <2>3
<1>10. ASSUME NEW x \in 1..Len(t), NEW y \in 1..Len(t), r[x] = r[y]
       PROVE  x = y
  <2>1. x \in 1..(L + M) /\ y \in 1..(L + M)
    BY <1>1
  <2>2. ASSUME NEW a \in 1..(L + M), NEW b \in 1..(L + M), a <= L, ~(b <= L)
        PROVE  r[a] # r[b]
    <3>1. a \in 1..L /\ r[a] = p[a] /\ p[a] \in Pairs(ss)
      BY <2>2, <1>6, <1>5
    <3>2. p[a][1] \in Nat /\ p[a][1] <= n - 1
      BY <3>1, <1>1, <1>3, <1>5
    <3>3. r[b][1] = n
      BY <2>2, <1>7
    <3> QED
      BY <3>1, <3>2, <3>3, <1>1
  <2>3. CASE x <= L /\ y <= L
    BY <2>1, <2>3, <1>10, <1>5, <1>6
  <2>4. CASE ~(x <= L) /\ ~(y <= L)
    <3>1. x - L = y - L
      BY <2>1, <2>4, <1>10, <1>7
    <3> QED
      BY <3>1, <2>1, <1>1
  <2> QED
    BY <2>1, <2>2, <2>3, <2>4, <1>10
<1>11. ASSUME NEW q \in Pairs(ss), q[1] <= n
       PROVE  \E x \in 1..Len(t) : r[x] = q
  <2>1. CASE q[1] <= n - 1
    <3>1. PICK x \in 1..L : p[x] = q
      BY <2>1, <1>5
    <3>2. x \in 1..(L + M) /\ x <= L
      BY <1>1
    <3> QED
      BY <3>1, <3>2, <1>6, <1>1
  <2>2. CASE ~(q[1] <= n - 1)
    <3>1. q[1] = n
      BY <2>2, <1>1, <1>3, <1>11
    <3>2. q[2] \in 1..M /\ q = <<n, q[2]>>
      BY <3>1, <1>1, <1>3
    <3> DEFINE x == L + q[2]
    <3>3. x \in 1..(L + M) /\ ~(x <= L) /\ x - L = q[2]
      BY <3>2, <1>1
    <3> HIDE DEF x
    <3>4. r[x] = q
      BY <3>2, <3>3, <1>7
    <3> QED
      BY <3>3, <3>4, <1>1
  <2> QED
    BY <2>1, <2>2
<1>12. Placing(r, t, ss, n)
  BY <1>8, <1>9, <1>10, <1>11 DEF Placing
<1> QED
  BY <1>12 DEF t

\* Put together, every element is in one place.
LEMMA FlattenPlaces ==
    ASSUME NEW S, NEW ss \in Seq(Seq(S))
    PROVE  /\ FlattenSeq(ss) \in Seq(S)
           /\ \E p : Placing(p, FlattenSeq(ss), ss, Len(ss))
<1> DEFINE N == Len(ss)
<1>1. PICK f \in [0..N -> Seq(S)] : Flattens(f, ss) /\ FlattenSeq(ss) = f[N]
  BY FlattenDefined
<1> DEFINE T == {n \in 0..N : \E p : Placing(p, f[n], ss, n)}
<1>2. N \in Nat
  OBVIOUS
<1>3. 0 \in T
  <2> DEFINE p == [x \in 1..0 |-> <<0, 0>>]
  <2>1. f[0] = <<>> /\ Len(<<>>) = 0 /\ 1..0 = {}
    BY <1>1 DEF Flattens
  <2>2. p \in [1..0 -> Pairs(ss)]
    BY <2>1
  <2>3. \A q \in Pairs(ss) : ~(q[1] <= 0)
    <3>1. \A q \in Pairs(ss) : q[1] \in DOMAIN ss
      BY PairsAre
    <3>2. \A i \in DOMAIN ss : ~(i <= 0)
      OBVIOUS
    <3> QED
      BY <3>1, <3>2
  <2> HIDE DEF p
  <2>4. Placing(p, f[0], ss, 0)
    BY <2>1, <2>2, <2>3 DEF Placing
  <2> QED
    BY <2>4, <1>2
<1>4. ASSUME NEW n \in 1..N, n - 1 \in T
      PROVE  n \in T
  <2>1. f[n] = f[n - 1] \o ss[n]
    BY <1>1 DEF Flattens
  <2>2. n - 1 \in 0..N /\ f[n - 1] \in Seq(S)
    <3> HIDE DEF N, T
    <3>1. n - 1 \in 0..N
      BY <1>2
    <3> QED
      BY <3>1, <1>1
  <2>3. PICK p : Placing(p, f[n - 1], ss, n - 1)
    BY <1>4
  <2>4. PICK r : Placing(r, f[n - 1] \o ss[n], ss, n)
    BY <2>2, <2>3, PlacesMore
  <2>5. Placing(r, f[n], ss, n)
    BY <2>1, <2>4
  <2>6. n \in 0..N
    BY <1>2
  <2> QED
    BY <2>5, <2>6
<1> HIDE DEF T
<1>5. N \in T
  <2> HIDE DEF N
  <2>1. \A n \in 0..N : n \in T
    BY <1>2, <1>3, <1>4, UpTo
  <2> QED
    BY <2>1, <1>2
<1> QED
  BY <1>1, <1>2, <1>5 DEF T

\* Where each sequence begins when they are put together.
LEMMA FlattenAt ==
    ASSUME NEW S, NEW ss \in Seq(Seq(S))
    PROVE  /\ FlattenSeq(ss) \in Seq(S)
           /\ \E P \in [0..Len(ss) -> Nat] :
                 /\ P[0] = 0 /\ P[Len(ss)] = Len(FlattenSeq(ss))
                 /\ \A n \in 1..Len(ss) : P[n] = P[n - 1] + Len(ss[n])
                 /\ \A n \in 1..Len(ss) : \A x \in 1..Len(ss[n]) :
                       P[n - 1] + x \in 1..Len(FlattenSeq(ss)) /\ FlattenSeq(ss)[P[n - 1] + x] = ss[n][x]
<1> DEFINE N == Len(ss)
<1>1. PICK f \in [0..N -> Seq(S)] : Flattens(f, ss) /\ FlattenSeq(ss) = f[N]
  BY FlattenDefined
<1> DEFINE P == [n \in 0..N |-> Len(f[n])]
           Good(n) == \A m \in 1..n : \A x \in 1..Len(ss[m]) :
                         Len(f[m - 1]) + x \in 1..Len(f[n]) /\ f[n][Len(f[m - 1]) + x] = ss[m][x]
           T == {n \in 0..N : Good(n)}
<1>2. N \in Nat /\ \A n \in 1..N : ss[n] \in Seq(S) /\ Len(ss[n]) \in Nat
  OBVIOUS
<1> HIDE DEF N, P
<1>3. \A n \in 0..N : f[n] \in Seq(S) /\ Len(f[n]) \in Nat
  BY <1>1
<1>4. ASSUME NEW n \in 1..N
      PROVE  /\ f[n] = f[n - 1] \o ss[n] /\ Len(f[n]) = Len(f[n - 1]) + Len(ss[n])
             /\ n - 1 \in 0..N /\ f[n - 1] \in Seq(S) /\ Len(f[n - 1]) \in Nat
  <2>1. n - 1 \in 0..N /\ f[n] = f[n - 1] \o ss[n]
    <3>1. f[n] = f[n - 1] \o ss[n]
      BY <1>1 DEF Flattens, N
    <3> QED
      BY <3>1, <1>2
  <2> DEFINE g == f[n - 1]
  <2>2. g \in Seq(S)
    BY <2>1, <1>3
  <2> HIDE DEF g
  <2>3. Len(g \o ss[n]) = Len(g) + Len(ss[n]) /\ Len(g) \in Nat
    BY <2>2, <1>2
  <2> QED
    BY <2>1, <2>2, <2>3 DEF g
<1>5. 0 \in T
  BY <1>2
<1>6. ASSUME NEW n \in 1..N, n - 1 \in T
      PROVE  n \in T
  <2> DEFINE g == f[n - 1]
             h == f[n]
             k == n - 1
  <2>1. Good(k) /\ g = f[k] /\ k \in Nat
    BY <1>2, <1>6
  <2>2. /\ g \in Seq(S) /\ ss[n] \in Seq(S) /\ h = g \o ss[n] /\ Len(h) = Len(g) + Len(ss[n])
        /\ Len(g) \in Nat /\ Len(ss[n]) \in Nat
    BY <1>2, <1>4
  <2>3. ASSUME NEW m \in 1..n, NEW x \in 1..Len(ss[m])
        PROVE  Len(f[m - 1]) + x \in 1..Len(h) /\ h[Len(f[m - 1]) + x] = ss[m][x]
    <3>1. CASE m = n
      <4> HIDE DEF g, h
      <4>1. f[m - 1] = g /\ x \in 1..Len(ss[n])
        BY <3>1 DEF g
      <4> DEFINE u == ss[n]
                 y == Len(g) + x
      <4>2. u \in Seq(S) /\ x \in 1..Len(u) /\ Len(u) \in Nat /\ h = g \o u /\ Len(h) = Len(g) + Len(u)
        BY <4>1, <2>2
      <4> HIDE DEF u
      <4>3. y \in 1..(Len(g) + Len(u)) /\ ~(y <= Len(g)) /\ y - Len(g) = x
        BY <4>2, <2>2
      <4> HIDE DEF y
      <4>4. y \in 1..Len(h) /\ h[y] = u[x]
        BY <4>2, <4>3, <2>2, ConcatProperties
      <4> QED
        BY <4>1, <4>4, <3>1 DEF u, y
    <3>2. CASE m # n
      <4> DEFINE y == Len(f[m - 1]) + x
      <4>1. m \in 1..k
        BY <3>2, <1>2
      <4>2. y \in 1..Len(f[k]) /\ f[k][y] = ss[m][x]
        BY <4>1, <2>1
      <4> HIDE DEF y
      <4>3. y \in 1..Len(g) /\ g[y] = ss[m][x]
        BY <4>2, <2>1
      <4> HIDE DEF g, h
      <4>4. y \in 1..Len(h) /\ (g \o ss[n])[y] = g[y]
        BY <4>3, <2>2
      <4> QED
        BY <4>3, <4>4, <2>2 DEF y
    <3> QED
      BY <3>1, <3>2
  <2>4. Good(n)
    BY <2>3
  <2>5. n \in 0..N
    BY <1>2
  <2> HIDE DEF Good
  <2> QED
    BY <2>4, <2>5
<1> HIDE DEF T, Good
<1>7. N \in T
  <2>1. \A n \in 0..N : n \in T
    BY <1>2, <1>5, <1>6, UpTo
  <2> QED
    BY <2>1, <1>2
<1>8. Good(N) /\ 0 \in 0..N /\ N \in 0..N
  BY <1>2, <1>7 DEF T
<1>9. /\ P \in [0..N -> Nat] /\ \A n \in 0..N : P[n] = Len(f[n])
  BY <1>3 DEF P
<1>10. P[0] = 0 /\ P[N] = Len(FlattenSeq(ss))
  <2>1. f[0] = <<>> /\ Len(<<>>) = 0
    BY <1>1 DEF Flattens
  <2> QED
    BY <2>1, <1>1, <1>8, <1>9
<1>11. \A n \in 1..N : n \in 0..N /\ P[n] = P[n - 1] + Len(ss[n])
  <2>1. \A n \in 1..N : n \in 0..N
    BY <1>2
  <2> QED
    BY <2>1, <1>4, <1>9
<1>12. ASSUME NEW n \in 1..N, NEW x \in 1..Len(ss[n])
       PROVE  P[n - 1] + x \in 1..Len(FlattenSeq(ss)) /\ FlattenSeq(ss)[P[n - 1] + x] = ss[n][x]
  <2>1. Len(f[n - 1]) + x \in 1..Len(f[N]) /\ f[N][Len(f[n - 1]) + x] = ss[n][x]
    <3>1. n \in 1..N
      OBVIOUS
    <3> QED
      BY <1>8, <3>1 DEF Good
  <2>2. P[n - 1] = Len(f[n - 1])
    BY <1>4, <1>9
  <2> QED
    BY <2>1, <2>2, <1>1
<1>13. FlattenSeq(ss) \in Seq(S)
  BY <1>1, <1>8
<1> QED
  BY <1>9, <1>10, <1>11, <1>12, <1>13 DEF N

=============================================================================
