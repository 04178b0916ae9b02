------------------------------ MODULE MemPoolProofs ----------------------------
(***************************************************************************)
(* Proofs about MemPool for any number of processors and pages, and any    *)
(* sizes.  First what the operators yield: numbers and powers of two,      *)
(* sequences, the server's list when pages leave or join it, the lists of  *)
(* blocks of the pools, addresses, the objects in a page.  Then the        *)
(* invariant, what it implies, and a lemma for the step of each action.    *)
(* Last the callers: what they see of the manager, and for the script of   *)
(* lab1's os_run the invariant of the objects that CPUs have and of the    *)
(* lines they print, from which it follows what the checker of these lines *)
(* can find.                                                               *)
(***************************************************************************)
EXTENDS Lab1, FiniteSetTheorems, SequenceTheorems, TLAPS

------------------------------------------------------------------------------
(* Numbers.                                                                *)

\* Division with rest.
LEMMA Division ==
  ASSUME NEW n \in Nat, NEW d \in Nat \ {0}
  PROVE  /\ n \div d \in Nat /\ n % d \in 0 .. d - 1
         /\ n = d * (n \div d) + (n % d)
  OBVIOUS

\* The multiples of d are d apart.
LEMMA Multiples ==
  ASSUME NEW d \in Nat, NEW x \in Nat, NEW y \in Nat, x < y
  PROVE  d * x + d <= d * y
<1>1. y = x + 1 + (y - x - 1) /\ y - x - 1 \in Nat
  OBVIOUS
<1>2. \A k \in Nat : d * (x + 1 + k) = d * x + d + d * k /\ d * k >= 0
  OBVIOUS
<1>. QED BY <1>1, <1>2

\* The quotient of a number between two multiples.
LEMMA Quotient ==
  ASSUME NEW a \in Nat, NEW q \in Nat, NEW d \in Nat \ {0}, d * q <= a, a < d * q + d
  PROVE  a \div d = q
<1> DEFINE e == a \div d
<1>1. e \in Nat /\ d * e <= a /\ a < d * e + d
  BY Division
<1> HIDE DEF e
<1>2. d * e \in Nat /\ d * q \in Nat
  BY <1>1
<1>3. ~ (e < q) /\ ~ (q < e)
  BY <1>1, <1>2, Multiples
<1>4. e = q
  BY <1>1, <1>3
<1>. QED BY <1>4 DEF e

\* Every nonempty set of numbers has a least one: the intervals from 0 are well
\* founded.
LEMMA Least ==
  ASSUME NEW S \in SUBSET Nat, S # {}
  PROVE  \E m \in S : \A n \in S : m <= n
<1> DEFINE T == {0 .. n : n \in S}
<1>1. T \subseteq FiniteSubsetsOf(Nat)
  <2>1. \A n \in Nat : IsFiniteSet(0 .. n) /\ 0 .. n \in SUBSET Nat
    BY FS_Interval
  <2>. QED BY <2>1 DEF FiniteSubsetsOf
<1>2. T # {}
  OBVIOUS
<1> HIDE DEF T
<1>3. PICK x \in T : \A y \in T : ~ (<<y, x>> \in StrictSubsetOrdering(Nat))
  BY <1>1, <1>2, FS_StrictSubsetOrderingWellFounded, WFMin
<1>4. PICK m \in S : x = 0 .. m
  BY DEF T
<1>5. ASSUME NEW n \in S, n < m PROVE FALSE
  <2>1. 0 .. n \in T
    BY DEF T
  <2>2. 0 .. n \subseteq 0 .. m /\ 0 .. n \subseteq Nat /\ 0 .. m \subseteq Nat
    BY <1>5
  <2>3. m \in 0 .. m /\ m \notin 0 .. n
    BY <1>5
  <2>4. <<0 .. n, 0 .. m>> \in StrictSubsetOrdering(Nat)
    BY <2>2, <2>3 DEF StrictSubsetOrdering
  <2>. QED BY <1>3, <1>4, <2>1, <2>4
<1>. QED BY <1>5

\* Induction up to n, for a set of numbers.
LEMMA Upto ==
  ASSUME NEW n \in Nat, NEW P, 0 \in P, \A k \in 0 .. n - 1 : k \in P => k + 1 \in P
  PROVE  0 .. n \subseteq P
<1> DEFINE S == (0 .. n) \ P
<1>1. SUFFICES ASSUME S # {} PROVE FALSE
  OBVIOUS
<1>2. PICK m \in S : \A k \in S : m <= k
  <2>1. S \in SUBSET Nat
    OBVIOUS
  <2> HIDE DEF S
  <2>. QED BY <1>1, <2>1, Least
<1>3. m # 0 /\ m - 1 \in 0 .. n - 1 /\ m - 1 \notin S
  BY <1>2
<1>4. m - 1 \in P /\ (m - 1) + 1 = m
  BY <1>3
<1>. QED BY <1>2, <1>3, <1>4

\* What it means to be the least number of a set.
LEMMA MinIs ==
  ASSUME NEW S \in SUBSET Nat, S # {}
  PROVE  Min(S) \in S /\ \A n \in S : Min(S) <= n
<1>1. \E m \in S : \A n \in S : m <= n
  BY Least
<1>. QED BY <1>1 DEF Min

\* The number of pages of a request: at least one.
LEMMA MaxOne ==
  ASSUME NEW a \in Nat
  PROVE  Max({1, a}) = IF a = 0 THEN 1 ELSE a
<1> DEFINE m == IF a = 0 THEN 1 ELSE a
<1>1. m \in {1, a} /\ \A y \in {1, a} : m >= y
  OBVIOUS
<1>2. \A x \in {1, a} : (\A y \in {1, a} : x >= y) => x = m
  OBVIOUS
<1> HIDE DEF m
<1>3. Max({1, a}) = m
  BY <1>1, <1>2 DEF Max
<1>. QED BY <1>3 DEF m

\* The powers of two, and that the smaller ones divide the larger ones.
LEMMA Powers ==
  /\ \A k \in 0 .. 24 : Power[k] \in Nat \ {0}
  /\ Power[0] = 1 /\ \A k \in 1 .. 24 : Power[k] = 2 * Power[k - 1]
<1> DEFINE Doubles(g, n) == g[0] = 1 /\ \A i \in 1 .. n : g[i] = 2 * g[i - 1]
           Q == {n \in 0 .. 24 : \E g \in [0 .. n -> Nat] : Doubles(g, n)}
<1>1. 0 \in Q
  <2> DEFINE g == [i \in 0 .. 0 |-> 1]
  <2>1. g \in [0 .. 0 -> Nat] /\ Doubles(g, 0) /\ 0 \in 0 .. 24
    OBVIOUS
  <2> HIDE DEF g, Doubles
  <2>. QED BY <2>1
<1>2. ASSUME NEW n \in 0 .. 24 - 1, n \in Q PROVE n + 1 \in Q
  <2>1. PICK g \in [0 .. n -> Nat] : Doubles(g, n)
    BY <1>2
  <2>2. n \in Nat /\ n + 1 \in 1 .. 24 /\ n + 1 \in 0 .. 24
    OBVIOUS
  <2> DEFINE h == [i \in 0 .. n + 1 |-> IF i = n + 1 THEN 2 * g[n] ELSE g[i]]
  <2>3. h \in [0 .. n + 1 -> Nat]
    <3>1. \A i \in 0 .. n + 1 : i # n + 1 => i \in 0 .. n
      BY <2>2
    <3>2. g[n] \in Nat /\ 2 * g[n] \in Nat
      BY <2>2
    <3>. QED BY <2>2, <3>1, <3>2
  <2>4. h[0] = 1
    BY <2>1, <2>2
  <2>5. ASSUME NEW i \in 1 .. n + 1 PROVE h[i] = 2 * h[i - 1]
    <3>1. CASE i = n + 1
      BY <2>2, <3>1
    <3>2. CASE i # n + 1
      <4>1. i \in 1 .. n /\ h[i] = g[i] /\ h[i - 1] = g[i - 1]
        BY <2>2, <3>2
      <4>. QED BY <2>1, <4>1
    <3>. QED BY <3>1, <3>2
  <2> HIDE DEF h
  <2>. QED BY <2>2, <2>3, <2>4, <2>5
<1> HIDE DEF Q
<1>. 0 .. 24 \subseteq Q
  BY <1>1, <1>2, Upto
<1>. PICK g \in [0 .. 24 -> Nat] : Doubles(g, 24)
  <2>1. 24 \in Q
    OBVIOUS
  <2>. QED BY <2>1 DEF Q
<1>3. g = [k \in 0 .. 24 |-> IF k = 0 THEN 1 ELSE 2 * g[k - 1]]
  OBVIOUS
<1>4. Power = [k \in 0 .. 24 |-> IF k = 0 THEN 1 ELSE 2 * Power[k - 1]]
  BY <1>3 DEF Power
<1>5. Power[0] = 1 /\ \A k \in 1 .. 24 : Power[k] = 2 * Power[k - 1]
  BY <1>4
<1> DEFINE P == {k \in 0 .. 24 : Power[k] \in Nat \ {0}}
<1>6. 0 \in P
  BY <1>5
<1>7. ASSUME NEW k \in 0 .. 24 - 1, k \in P PROVE k + 1 \in P
  <2>1. Power[k + 1] = 2 * Power[k]
    BY <1>5
  <2>. QED BY <1>7, <2>1
<1> HIDE DEF P
<1>8. 0 .. 24 \subseteq P
  BY <1>6, <1>7, Upto
<1>. QED BY <1>5, <1>8 DEF P

\* A power of two divides the larger ones, an even number of times.
LEMMA PowersDivide ==
  ASSUME NEW j \in 0 .. 24, NEW k \in 0 .. 24, j < k
  PROVE  \E l \in Nat \ {0} : Power[k] = (2 * l) * Power[j]
<1> DEFINE D(d, l) == Power[j + (d + 1)] = (2 * l) * Power[j]
           P == {d \in 0 .. k - j - 1 : \E l \in Nat \ {0} : D(d, l)}
<1>1. 0 \in P
  <2>1. D(0, 1)
    BY Powers
  <2>. QED BY <2>1
<1>2. ASSUME NEW d \in 0 .. (k - j - 1) - 1, d \in P PROVE d + 1 \in P
  <2>1. PICK l \in Nat \ {0} : D(d, l)
    BY <1>2
  <2>2. Power[j + ((d + 1) + 1)] = 2 * Power[j + (d + 1)] /\ Power[j] \in Nat
    BY Powers
  <2>3. D(d + 1, 2 * l)
    BY <2>1, <2>2
  <2>4. 2 * l \in Nat \ {0} /\ d + 1 \in 0 .. k - j - 1
    OBVIOUS
  <2> HIDE DEF D
  <2>. QED BY <2>3, <2>4
<1>3. k - j - 1 \in Nat /\ j + ((k - j - 1) + 1) = k
  OBVIOUS
<1> HIDE DEF P, D
<1>4. 0 .. k - j - 1 \subseteq P
  BY <1>1, <1>2, <1>3, Upto
<1>5. k - j - 1 \in P
  BY <1>3, <1>4
<1>6. PICK l \in Nat \ {0} : D(k - j - 1, l)
  BY <1>5 DEF P
<1>7. Power[k] = (2 * l) * Power[j]
  BY <1>3, <1>6 DEF D
<1>. QED BY <1>7
------------------------------------------------------------------------------
(* Sequences.                                                               *)

\* An element before all others.
LEMMA Pushed ==
  ASSUME NEW X, NEW S \in Seq(X), NEW x \in X
  PROVE  LET T == <<x>> \o S
         IN /\ T \in Seq(X) /\ T # <<>> /\ Len(T) = Len(S) + 1
            /\ T[1] = x /\ \A i \in 1 .. Len(S) : T[i + 1] = S[i]
  OBVIOUS

\* An element inserted.
LEMMA Inserted ==
  ASSUME NEW X, NEW S \in Seq(X), NEW x \in X, NEW i \in 1 .. Len(S) + 1
  PROVE  LET T == InsertAt(S, i, x)
         IN /\ T \in Seq(X) /\ Len(T) = Len(S) + 1 /\ T # <<>>
            /\ T[i] = x
            /\ \A k \in 1 .. i - 1 : T[k] = S[k]
            /\ \A k \in i + 1 .. Len(S) + 1 : T[k] = S[k - 1]
<1> DEFINE A == SubSeq(S, 1, i - 1)
           B == SubSeq(S, i, Len(S))
<1>1. A \in Seq(X) /\ Len(A) = i - 1 /\ \A k \in 1 .. i - 1 : A[k] = S[k]
  BY SubSeqProperties
<1>2. B \in Seq(X) /\ Len(B) = Len(S) - i + 1 /\ \A k \in 1 .. Len(S) - i + 1 : B[k] = S[k + i - 1]
  BY SubSeqProperties
<1>3. InsertAt(S, i, x) = A \o <<x>> \o B
  BY DEF InsertAt
<1> HIDE DEF A, B
<1> DEFINE C == A \o <<x>>
<1>4. C \in Seq(X) /\ Len(C) = i /\ C[i] = x /\ \A k \in 1 .. i - 1 : C[k] = A[k]
  BY <1>1
<1> HIDE DEF C
<1> DEFINE T == C \o B
<1>a. /\ T \in Seq(X) /\ Len(T) = Len(C) + Len(B)
      /\ \A k \in 1 .. Len(C) + Len(B) : T[k] = IF k <= Len(C) THEN C[k] ELSE B[k - Len(C)]
  BY <1>2, <1>4, ConcatProperties
<1> HIDE DEF T
<1>5. T \in Seq(X) /\ Len(T) = Len(S) + 1
  BY <1>2, <1>4, <1>a
<1>6. \A k \in 1 .. i : T[k] = C[k]
  BY <1>2, <1>4, <1>a
<1>7. ASSUME NEW k \in i + 1 .. Len(S) + 1 PROVE T[k] = S[k - 1]
  <2>1. T[k] = B[k - i] /\ k - i \in 1 .. Len(S) - i + 1 /\ k - i + i - 1 = k - 1
    BY <1>2, <1>4, <1>a
  <2>. QED BY <1>2, <2>1
<1>8. T # <<>> /\ T = InsertAt(S, i, x)
  BY <1>3, <1>5 DEF C, T
<1>. QED BY <1>1, <1>4, <1>5, <1>6, <1>7, <1>8

\* An element taken out.
LEMMA Removed ==
  ASSUME NEW X, NEW S \in Seq(X), NEW i \in 1 .. Len(S)
  PROVE  LET T == RemoveAt(S, i)
         IN /\ T \in Seq(X) /\ Len(T) = Len(S) - 1
            /\ \A k \in 1 .. i - 1 : T[k] = S[k]
            /\ \A k \in i .. Len(S) - 1 : T[k] = S[k + 1]
<1> DEFINE A == SubSeq(S, 1, i - 1)
           B == SubSeq(S, i + 1, Len(S))
<1>1. A \in Seq(X) /\ Len(A) = i - 1 /\ \A k \in 1 .. i - 1 : A[k] = S[k]
  BY SubSeqProperties
<1>2. B \in Seq(X) /\ Len(B) = Len(S) - i /\ \A k \in 1 .. Len(S) - i : B[k] = S[k + i]
  BY SubSeqProperties
<1>3. RemoveAt(S, i) = A \o B
  BY DEF RemoveAt
<1> HIDE DEF A, B
<1> DEFINE T == A \o B
<1>a. /\ T \in Seq(X) /\ Len(T) = Len(A) + Len(B)
      /\ \A k \in 1 .. Len(A) + Len(B) : T[k] = IF k <= Len(A) THEN A[k] ELSE B[k - Len(A)]
  BY <1>1, <1>2, ConcatProperties
<1> HIDE DEF T
<1>5. T \in Seq(X) /\ Len(T) = Len(S) - 1
  BY <1>1, <1>2, <1>a
<1>6. \A k \in 1 .. i - 1 : T[k] = A[k]
  BY <1>1, <1>2, <1>a
<1>7. ASSUME NEW k \in i .. Len(S) - 1 PROVE T[k] = S[k + 1]
  <2>1. k \in 1 .. Len(A) + Len(B) /\ ~ (k <= Len(A)) /\ k - Len(A) = k - i + 1
    BY <1>1, <1>2
  <2>2. T[k] = B[k - i + 1]
    BY <1>a, <2>1
  <2>3. k - i + 1 \in 1 .. Len(S) - i /\ k - i + 1 + i = k + 1
    OBVIOUS
  <2>. QED BY <1>2, <2>2, <2>3
<1>. QED BY <1>1, <1>3, <1>5, <1>6, <1>7 DEF T

\* A sequence of different pages is no longer than there are pages.
LEMMA Different ==
  ASSUME NEW S \in Seq(Page), \A i, j \in 1 .. Len(S) : S[i] = S[j] => i = j
  PROVE  Len(S) <= PageCount
<1>1. S \in Injection(1 .. Len(S), Page)
  BY DEF Injection, IsInjective
<1>2. /\ IsFiniteSet(Page) /\ Cardinality(Page) = PageCount
      /\ Cardinality(1 .. Len(S)) = Len(S)
  BY FS_Interval, CountAssumption DEF Page
<1>3. Cardinality(1 .. Len(S)) <= Cardinality(Page)
  BY <1>1, <1>2, FS_Injection
<1>. QED BY <1>2, <1>3

\* The first element that passes a test.
LEMMA FirstMatch ==
  ASSUME NEW n \in Nat, NEW I \in SUBSET (1 .. n)
  PROVE  LET i == IF I # {} THEN Min(I) ELSE 0
         IN /\ i \in 0 .. n
            /\ i # 0 => i \in I /\ \A k \in 1 .. i - 1 : k \notin I
            /\ i = 0 => I = {}
<1>1. CASE I = {}
  BY <1>1
<1>2. CASE I # {}
  <2>1. I \in SUBSET Nat
    OBVIOUS
  <2>2. Min(I) \in I /\ \A k \in I : Min(I) <= k
    BY <1>2, <2>1, MinIs
  <2> DEFINE m == Min(I)
  <2>3. m \in I /\ \A k \in I : m <= k
    BY <2>2
  <2> HIDE DEF m
  <2>4. m \in 1 .. n /\ \A k \in 1 .. m - 1 : k \notin I
    BY <2>3
  <2>. QED BY <1>2, <2>3, <2>4 DEF m
<1>. QED BY <1>1, <1>2

\* The numbers of a set in their order.
LEMMA Enumerate ==
  ASSUME NEW n \in Nat, NEW H \in SUBSET (1 .. n)
  PROVE  \E S \in Seq(H) : /\ \A i, j \in 1 .. Len(S) : i < j => S[i] < S[j]
                           /\ \A x \in H : \E i \in 1 .. Len(S) : x = S[i]
<1> DEFINE Good(S, m) == /\ \A i, j \in 1 .. Len(S) : i < j => S[i] < S[j]
                         /\ \A i \in 1 .. Len(S) : S[i] <= m
                         /\ \A x \in H : x <= m => \E i \in 1 .. Len(S) : x = S[i]
           P == {m \in 0 .. n : \E S \in Seq(H) : Good(S, m)}
<1>0. \A x \in H : x \in Nat
  OBVIOUS
<1>1. 0 \in P
  <2>1. <<>> \in Seq(H) /\ Good(<<>>, 0) /\ 0 \in 0 .. n
    OBVIOUS
  <2> HIDE DEF Good
  <2>. QED BY <2>1
<1>2. ASSUME NEW m \in 0 .. n - 1, m \in P PROVE m + 1 \in P
  <2>1. PICK S \in Seq(H) : Good(S, m)
    BY <1>2
  <2>2. CASE m + 1 \notin H
    <3>1. /\ \A i \in 1 .. Len(S) : S[i] \in Nat /\ S[i] <= m + 1
          /\ \A x \in H : x <= m + 1 => x <= m
      <4>1. \A i \in 1 .. Len(S) : S[i] \in H
        OBVIOUS
      <4>2. \A i \in 1 .. Len(S) : S[i] <= m
        BY <2>1
      <4>3. \A x \in Nat : (x <= m => x <= m + 1) /\ (x <= m + 1 => x <= m \/ x = m + 1)
        OBVIOUS
      <4>4. \A i \in 1 .. Len(S) : S[i] \in Nat /\ S[i] <= m + 1
        BY <1>0, <4>1, <4>2, <4>3
      <4>. QED BY <1>0, <2>2, <4>3, <4>4
    <3>2. Good(S, m + 1)
      BY <2>1, <3>1
    <3> HIDE DEF Good
    <3>. QED BY <3>2
  <2>3. CASE m + 1 \in H
    <3> DEFINE T == Append(S, m + 1)
    <3>1. /\ T \in Seq(H) /\ Len(T) = Len(S) + 1 /\ T[Len(S) + 1] = m + 1
          /\ \A i \in 1 .. Len(S) : T[i] = S[i]
      BY <2>3
    <3> HIDE DEF T
    <3>2. \A i \in 1 .. Len(T) : i = Len(S) + 1 \/ i \in 1 .. Len(S)
      BY <3>1
    <3>3. \A i \in 1 .. Len(T) : T[i] <= m + 1
      <4>1. \A i \in 1 .. Len(S) : S[i] \in Nat /\ S[i] <= m + 1
        <5>1. \A i \in 1 .. Len(S) : S[i] \in H
          OBVIOUS
        <5>2. \A i \in 1 .. Len(S) : S[i] <= m
          BY <2>1
        <5>3. \A x \in Nat : x <= m => x <= m + 1
          OBVIOUS
        <5>. QED BY <1>0, <5>1, <5>2, <5>3
      <4>. QED BY <3>1, <3>2, <4>1
    <3>4. ASSUME NEW i \in 1 .. Len(T), NEW j \in 1 .. Len(T), i < j PROVE T[i] < T[j]
      <4>1. i \in 1 .. Len(S)
        BY <3>1, <3>4
      <4>2. S[i] <= m /\ S[i] \in H
        BY <2>1, <4>1
      <4>3. CASE j = Len(S) + 1
        <5>1. T[i] = S[i] /\ T[j] = m + 1 /\ S[i] \in Nat
          BY <1>0, <3>1, <4>1, <4>2, <4>3
        <5>. QED BY <4>2, <5>1
      <4>4. CASE j \in 1 .. Len(S)
        BY <2>1, <3>1, <3>4, <4>1, <4>4
      <4>. QED BY <3>2, <4>3, <4>4
    <3>5. ASSUME NEW x \in H, x <= m + 1 PROVE \E i \in 1 .. Len(T) : x = T[i]
      <4>1. CASE x = m + 1
        BY <3>1, <4>1
      <4>2. CASE x <= m
        BY <2>1, <3>1, <4>2
      <4>. QED BY <3>5, <4>1, <4>2
    <3>6. Good(T, m + 1)
      BY <3>3, <3>4, <3>5
    <3> HIDE DEF Good
    <3>. QED BY <3>1, <3>6
  <2>. QED BY <2>2, <2>3
<1> HIDE DEF P
<1>3. 0 .. n \subseteq P
  BY <1>1, <1>2, Upto
<1>4. PICK S \in Seq(H) : Good(S, n)
  <2>1. n \in P
    BY <1>3
  <2>. QED BY <2>1 DEF P
<1>5. \A x \in H : x <= n
  OBVIOUS
<1>. QED BY <1>4, <1>5
------------------------------------------------------------------------------
(* Where each page is: the server's, in the pool or in the hands of a CPU,  *)
(* or lost (see ServerPagesListed).  What holds of the lists is said of any *)
(* next field nx and combpage field cb, so that it can be said of the next  *)
(* state.                                                                   *)

Server == <<"server", 0>>
Lost == <<"lost", 0>>
Pool(c) == <<"pool", c>>
Hand(c) == <<"hand", c>>
Home == {Server, Lost} \cup {Pool(c) : c \in Cpu} \cup {Hand(c) : c \in Cpu}
At(home, x) == {p \in Page : home[p] = x}

Links == [Page -> Page \cup {NULL}]
Counts == [Page -> 0 .. PageCount]

\* TailPage and Block.
TailOf(cb, h) == IF cb[h] = 0 THEN h ELSE h + cb[h] - 1
BlockOf(cb, h) == h .. TailOf(cb, h)

\* No page hangs on a page of another owner, or the other way round.
Apart(nx, V) == \A p \in Page : nx[p] # NULL => (p \in V <=> nx[p] \in V)
NextOk(nx, home) == \A p \in Page : nx[p] # NULL => home[nx[p]] = home[p]

\* combpage counts to the end of the run of pages of V.
Run(cb, V, p) == /\ cb[p] >= 1
                 /\ \A q \in p .. p + cb[p] - 1 : q \in V
                 /\ p + cb[p] \notin V

\* The server's list: next is the next page of V, and combpage a run.
ServerOk(first, nx, cb, V) ==
  /\ first # NULL => first \in V
  /\ \A p \in V : first # NULL /\ first <= p
  /\ \A p \in V : nx[p] # NULL => nx[p] > p
  /\ \A p, q \in V : p < q => nx[p] # NULL /\ nx[p] <= q
  /\ \A p \in V : Run(cb, V, p)

\* The homes are different.
LEMMA Homes ==
  /\ Server # Lost
  /\ \A c \in Cpu : Server # Pool(c) /\ Server # Hand(c) /\ Lost # Pool(c) /\ Lost # Hand(c)
  /\ \A c, d \in Cpu : Pool(c) # Hand(d)
  /\ \A c, d \in Cpu : Pool(c) = Pool(d) => c = d
  /\ \A c, d \in Cpu : Hand(c) = Hand(d) => c = d
  /\ Server \in Home /\ Lost \in Home /\ \A c \in Cpu : Pool(c) \in Home /\ Hand(c) \in Home
<1>1. /\ Server # Lost
      /\ \A c \in Cpu : Server # Pool(c) /\ Server # Hand(c) /\ Lost # Pool(c) /\ Lost # Hand(c)
  BY DEF Server, Lost, Pool, Hand
<1>2. \A c, d \in Cpu : Pool(c) # Hand(d)
  BY DEF Pool, Hand
<1>3. \A c, d \in Cpu : (Pool(c) = Pool(d) => c = d) /\ (Hand(c) = Hand(d) => c = d)
  BY DEF Pool, Hand
<1>4. Server \in Home /\ Lost \in Home /\ \A c \in Cpu : Pool(c) \in Home /\ Hand(c) \in Home
  BY DEF Home
<1>. QED BY <1>1, <1>2, <1>3, <1>4

\* Pages that lead up to a page of V are of V.
LEMMA LeadUpIn ==
  ASSUME NEW nx \in Links, NEW V \in SUBSET Page, Apart(nx, V),
         NEW b \in V, NEW p \in LeadUp(nx, b)
  PROVE  /\ p \in Page /\ p < b
         /\ \A q \in p .. b : q \in V
<1>1. b \in 1 .. PageCount /\ PageCount \in Nat /\ p \in 1 .. b - 1 /\ b - p \in Nat
  BY CountAssumption DEF LeadUp, Page
<1>2. \A q \in p .. b - 1 : nx[q] = q + 1
  BY DEF LeadUp
<1> DEFINE P == {d \in 0 .. b - p : b - d \in V}
<1>3. 0 \in P
  BY <1>1
<1>4. ASSUME NEW d \in 0 .. (b - p) - 1, d \in P PROVE d + 1 \in P
  <2> DEFINE q == b - (d + 1)
  <2>1. q \in p .. b - 1 /\ q + 1 = b - d /\ d + 1 \in 0 .. b - p
    BY <1>1
  <2>2. q \in Page
    BY <1>1, <2>1 DEF Page
  <2>3. nx[q] = b - d /\ b - d \in V
    BY <1>2, <1>4, <2>1
  <2>4. nx[q] # NULL
    BY <2>3 DEF Page, NULL
  <2>5. q \in V
    BY <2>2, <2>3, <2>4 DEF Apart
  <2>. QED BY <2>1, <2>5
<1> HIDE DEF P
<1>5. 0 .. b - p \subseteq P
  BY <1>1, <1>3, <1>4, Upto
<1>6. ASSUME NEW q \in p .. b PROVE q \in V
  <2>1. b - q \in 0 .. b - p /\ b - (b - q) = q
    BY <1>1
  <2>. QED BY <1>5, <2>1 DEF P
<1>7. p \in Page /\ p < b
  BY <1>1 DEF Page
<1>. QED BY <1>6, <1>7

\* A run that reaches page b ends where that of b ends.
LEMMA SameRun ==
  ASSUME NEW cb \in Counts, NEW V \in SUBSET Page, NEW p \in V, NEW b \in V, p <= b,
         Run(cb, V, p), Run(cb, V, b)
  PROVE  /\ b <= p + cb[p] - 1 => p + cb[p] = b + cb[b]
         /\ b > p + cb[p] - 1 => p + cb[p] < b
<1> DEFINE x == cb[p]
           y == cb[b]
<1>1. x \in Nat /\ y \in Nat /\ p \in Nat /\ b \in Nat
  BY DEF Counts, Page
<1>2. /\ \A q \in p .. p + x - 1 : q \in V
      /\ \A q \in b .. b + y - 1 : q \in V
      /\ p + x \notin V /\ b + y \notin V /\ x >= 1 /\ y >= 1
  BY DEF Run
<1> HIDE DEF x, y
<1>3. b <= p + x - 1 => p + x = b + y
  <2>1. ~ (p + x \in b .. b + y - 1)
    BY <1>2
  <2>2. ~ (b + y \in p .. p + x - 1)
    BY <1>2
  <2>. QED BY <1>1, <1>2, <2>1, <2>2
<1>4. b > p + x - 1 => p + x < b
  <2>1. p + x # b
    BY <1>2
  <2>. QED BY <1>1, <2>1
<1>. QED BY <1>3, <1>4 DEF x, y

\* Pages b..e of a run leave the list, as memserver_delivery unlinks them.
PagesGone(first, nx, cb, V, b, e, before, first2, nx2, cb2) ==
  /\ ServerOk(first, nx, cb, V) /\ Apart(nx, V)
  /\ b <= e /\ e <= b + cb[b] - 1
  /\ before = NULL \/ (before \in V /\ before < b)
  /\ \A p \in V : p < b => before # NULL /\ p <= before
  /\ first2 = IF before = NULL THEN nx[e] ELSE first
  /\ \A p \in Page : nx2[p] = IF p = e THEN NULL ELSE IF p = before THEN nx[e] ELSE nx[p]
  /\ \A p \in V : p \notin b .. e =>
       cb2[p] = IF b - 1 \in V /\ p \in LeadUp(nx, b) /\ p >= first THEN cb[p] - cb[b] ELSE cb[p]

\* memserver_delivery: pages b .. e of a block leave the server's list.
LEMMA ServerRemove ==
  ASSUME NEW nx \in Links, NEW cb \in Counts, NEW V \in SUBSET Page, NEW first \in Page \cup {NULL},
         NEW nx2 \in Links, NEW cb2 \in Counts, NEW first2, NEW b \in V, NEW e \in Page, NEW before,
         PagesGone(first, nx, cb, V, b, e, before, first2, nx2, cb2)
  PROVE  ServerOk(first2, nx2, cb2, V \ (b .. e))
<1> USE DEF PagesGone
<1> DEFINE V2 == V \ (b .. e)
<1>1. V \subseteq Nat /\ \A p \in V : p \in 1 .. PageCount /\ p \in Page /\ p # NULL
  BY DEF Page, NULL
<1>2. \A q \in b .. e : q \in V
  <2>1. \A q \in b .. b + cb[b] - 1 : q \in V
    BY DEF ServerOk, Run
  <2>2. cb[b] \in Nat /\ b \in Nat /\ e \in Nat
    BY <1>1 DEF Counts, Page
  <2>. QED BY <2>1, <2>2
<1>3. e \in V /\ b \in Nat /\ e \in Nat
  BY <1>1, <1>2 DEF Page
<1>4. \A p \in V : nx[p] # NULL => nx[p] > p /\ nx[p] \in V
  BY <1>1 DEF ServerOk, Apart
<1>5. \A p, q \in V : p < q => nx[p] # NULL /\ nx[p] <= q
  BY DEF ServerOk
<1>6. ASSUME NEW p \in V2 PROVE p < b \/ p > e
  BY <1>1, <1>3
<1>7. nx[e] # NULL => nx[e] \in V2 /\ nx[e] > e
  BY <1>1, <1>3, <1>4
<1>8. first2 # NULL => first2 \in V2
  <2>1. CASE before = NULL
    BY <1>7, <2>1
  <2>2. CASE before # NULL
    <3>1. before \in V /\ before < b /\ first # NULL /\ first <= before /\ first \in V /\ first2 = first
      BY <2>2 DEF ServerOk
    <3>2. first < b /\ first \in Nat
      BY <1>1, <1>3, <3>1
    <3>. QED BY <1>1, <1>3, <3>1, <3>2
  <2>. QED BY <2>1, <2>2
<1>9. ASSUME NEW p \in V2 PROVE first2 # NULL /\ first2 <= p
  <2>1. CASE before = NULL
    <3>1. p > e
      BY <1>6, <2>1
    <3>. QED BY <1>3, <1>5, <2>1, <3>1
  <2>2. CASE before # NULL
    BY <2>2 DEF ServerOk
  <2>. QED BY <2>1, <2>2
<1>10. ASSUME NEW p \in V2 PROVE /\ nx2[p] # NULL => nx2[p] > p
                               /\ \A q \in V2 : p < q => nx2[p] # NULL /\ nx2[p] <= q
  <2>0. p \in V /\ p \in Page /\ p # e /\ p \in Nat
    BY <1>1, <1>3
  <2>1. CASE p = before
    <3>1. nx2[p] = nx[e] /\ p < b
      BY <2>0, <2>1, <1>1
    <3>2. nx2[p] # NULL => nx2[p] > p
      <4>1. nx[e] # NULL => nx[e] > e /\ nx[e] \in Nat
        BY <1>1, <1>7
      <4>. QED BY <1>3, <2>0, <3>1, <4>1
    <3>3. ASSUME NEW q \in V2, p < q PROVE nx2[p] # NULL /\ nx2[p] <= q
      <4>1. q > e
        <5>1. ~ (q < b)
          BY <1>1, <1>3, <2>0, <2>1, <3>3
        <5>. QED BY <1>6, <5>1
      <4>. QED BY <1>3, <1>5, <3>1, <4>1
    <3>. QED BY <3>2, <3>3
  <2>2. CASE p # before
    <3>1. nx2[p] = nx[p]
      BY <2>0, <2>2
    <3>. QED BY <1>4, <1>5, <2>0, <3>1
  <2>. QED BY <2>1, <2>2
<1>11. ASSUME NEW p \in V2 PROVE Run(cb2, V2, p)
  <2> DEFINE x == cb[p]
             y == cb[b]
             x2 == cb2[p]
  <2>0. p \in V /\ p \in Page /\ p \notin b .. e /\ p \in Nat
    BY <1>1
  <2>1. Run(cb, V, p) /\ Run(cb, V, b)
    BY <2>0 DEF ServerOk
  <2>2. x \in Nat /\ y \in Nat /\ x2 \in Int
    BY <2>0, <1>1 DEF Counts
  <2>3. /\ x >= 1 /\ \A q \in p .. p + x - 1 : q \in V
        /\ p + x \notin V
    BY <2>1 DEF Run
  <2>4. x2 = IF b - 1 \in V /\ p \in LeadUp(nx, b) /\ p >= first THEN x - y ELSE x
    BY <2>0
  <2>5. p \in LeadUp(nx, b) => p < b /\ \A q \in p .. b : q \in V
    BY LeadUpIn
  <2>6. SUFFICES x2 >= 1 /\ (\A q \in p .. p + x2 - 1 : q \in V2) /\ p + x2 \notin V2
    BY DEF Run
  <2>7. CASE p > e
    <3>1. x2 = x
      BY <1>3, <2>0, <2>4, <2>5, <2>7
    <3> HIDE DEF x, x2
    <3>2. \A q \in p .. p + x - 1 : q \in V2
      BY <1>3, <2>0, <2>2, <2>3, <2>7
    <3>. QED BY <2>3, <3>1, <3>2
  <2>8. CASE p < b /\ b <= p + x - 1
    <3>a. p <= b
      BY <1>3, <2>0, <2>8
    <3>1. p + x = b + y
      BY <2>0, <2>1, <2>8, <3>a, SameRun
    <3>2. \A q \in p .. b - 1 : q \in V /\ q + 1 \in V
      BY <1>3, <2>0, <2>2, <2>3, <2>8
    <3>3. b - 1 \in V
      BY <1>3, <2>0, <2>8, <3>2
    <3>4. \A q \in p .. b - 1 : nx[q] = q + 1
      <4>1. ASSUME NEW q \in p .. b - 1 PROVE nx[q] = q + 1
        <5>1. q \in V /\ q + 1 \in V /\ q \in Nat /\ q < q + 1
          BY <2>0, <3>2
        <5>2. nx[q] # NULL /\ nx[q] <= q + 1 /\ nx[q] > q /\ nx[q] \in Nat
          BY <1>1, <1>4, <1>5, <5>1
        <5>. QED BY <5>1, <5>2
      <4>. QED BY <4>1
    <3>5. p \in LeadUp(nx, b)
      <4>1. p \in 1 .. b - 1
        BY <1>1, <1>3, <2>0, <2>8
      <4>. QED BY <3>4, <4>1 DEF LeadUp
    <3>6. p >= first
      BY <1>1, <2>0 DEF ServerOk
    <3>7. x2 = x - y
      BY <2>4, <3>3, <3>5, <3>6
    <3> HIDE DEF x, y, x2
    <3>8. p + x2 = b /\ x2 >= 1
      BY <1>3, <2>0, <2>2, <2>8, <3>1, <3>7
    <3>9. \A q \in p .. b - 1 : q \in V2
      BY <1>3, <2>0, <3>2
    <3>10. b \notin V2
      BY <1>3
    <3>11. p + x2 - 1 = b - 1
      BY <1>3, <2>0, <2>2, <3>8
    <3>. QED BY <3>8, <3>9, <3>10, <3>11
  <2>9. CASE p < b /\ b > p + x - 1
    <3>a. p <= b
      BY <1>3, <2>0, <2>9
    <3>1. p + x < b
      BY <2>0, <2>1, <2>9, <3>a, SameRun
    <3>2. p \notin LeadUp(nx, b)
      <4>1. p + x \in p .. b
        BY <1>3, <2>0, <2>2, <3>1
      <4>. QED BY <2>3, <2>5, <4>1
    <3>3. x2 = x
      BY <2>4, <3>2
    <3> HIDE DEF x, x2
    <3>4. \A q \in p .. p + x - 1 : q \in V2
      BY <1>3, <2>0, <2>2, <2>3, <3>1
    <3>. QED BY <2>3, <3>3, <3>4
  <2>10. p < b \/ p > e
    BY <1>6
  <2>11. b <= p + x - 1 \/ b > p + x - 1
    BY <1>3, <2>0, <2>2
  <2>. QED BY <2>7, <2>8, <2>9, <2>10, <2>11
<1> HIDE DEF V2
<1>12. ServerOk(first2, nx2, cb2, V2)
  BY <1>8, <1>9, <1>10, <1>11 DEF ServerOk
<1>. QED BY <1>12 DEF V2

\* Pages s .. e go between the pages before and above, as memserver_receive links them.
PagesBack(first, nx, cb, V, s, e, before, above, joined, first2, nx2, cb2) ==
  /\ ServerOk(first, nx, cb, V) /\ Apart(nx, V) /\ Apart(nx2, V \cup (s .. e))
  /\ s <= e
  /\ \A p \in s .. e : p \notin V
  /\ \A p \in s .. e - 1 : nx[p] = p + 1
  /\ before = NULL \/ (before \in V /\ before < s)
  /\ \A p \in V : p < s => before # NULL /\ p <= before
  /\ above = NULL \/ (above \in V /\ above > e)
  /\ \A p \in V : p > e => above # NULL /\ above <= p
  /\ joined = IF above = e + 1 THEN cb[above] ELSE 0
  /\ first2 = IF before = NULL THEN s ELSE first
  /\ \A p \in Page : nx2[p] = IF p = e THEN above ELSE IF p = before THEN s ELSE nx[p]
  /\ \A p \in s .. e : cb2[p] = e - p + 1 + joined
  /\ \A p \in V : cb2[p] = IF p \in LeadUp(nx2, s) /\ p >= first THEN s - p + e - s + 1 + joined
                          ELSE cb[p]

\* memserver_receive: pages s .. e join the server's list.
LEMMA ServerAdd ==
  ASSUME NEW nx \in Links, NEW cb \in Counts, NEW V \in SUBSET Page, NEW first \in Page \cup {NULL},
         NEW nx2 \in Links, NEW cb2 \in Counts, NEW first2, NEW s \in Page, NEW e \in Page,
         NEW before, NEW above, NEW joined,
         PagesBack(first, nx, cb, V, s, e, before, above, joined, first2, nx2, cb2)
  PROVE  ServerOk(first2, nx2, cb2, V \cup (s .. e))
<1> USE DEF PagesBack
<1> DEFINE V2 == V \cup (s .. e)
<1>1. V \subseteq Nat /\ \A p \in V : p \in 1 .. PageCount /\ p \in Page /\ p # NULL
  BY DEF Page, NULL
<1>2. s \in Nat /\ e \in Nat /\ s # NULL /\ e # NULL /\ PageCount \in Nat
  BY CountAssumption DEF Page, NULL
<1>3. V2 \in SUBSET Page /\ V2 \subseteq Nat
  BY <1>1, <1>2 DEF Page
<1>4. \A p \in V : nx[p] # NULL => nx[p] > p /\ nx[p] \in V
  BY <1>1 DEF ServerOk, Apart
<1>5. \A p, q \in V : p < q => nx[p] # NULL /\ nx[p] <= q
  BY DEF ServerOk
<1>6. ASSUME NEW p \in V PROVE p < s \/ p > e
  BY <1>1, <1>2
<1>7. first # NULL => first \in V
  BY DEF ServerOk
<1>8. first2 # NULL /\ first2 \in V2
  <2>1. CASE before = NULL
    BY <1>2, <2>1
  <2>2. CASE before # NULL
    BY <1>7, <2>2 DEF ServerOk
  <2>. QED BY <2>1, <2>2
<1>9. ASSUME NEW p \in V2 PROVE first2 <= p
  <2>1. CASE before = NULL
    <3>1. p \in V => p > e
      BY <1>6, <2>1
    <3>. QED BY <1>1, <1>2, <2>1, <3>1
  <2>2. CASE before # NULL
    <3>1. first # NULL /\ first <= before /\ first \in Nat /\ before \in Nat /\ before < s /\ first2 = first
      BY <1>1, <2>2 DEF ServerOk
    <3>2. CASE p \in V
      BY <3>1, <3>2 DEF ServerOk
    <3>3. CASE p \in s .. e
      BY <1>2, <3>1, <3>3
    <3>. QED BY <3>2, <3>3
  <2>. QED BY <2>1, <2>2
<1>10. ASSUME NEW p \in V2 PROVE /\ nx2[p] # NULL => nx2[p] > p
                               /\ \A q \in V2 : p < q => nx2[p] # NULL /\ nx2[p] <= q
  <2>0. p \in Page /\ p \in Nat
    BY <1>3
  <2>1. CASE p = e
    <3>1. nx2[p] = above
      BY <2>0, <2>1
    <3>2. \A q \in V2 : p < q => q \in V
      BY <1>2, <2>1
    <3>. QED BY <2>1, <3>1, <3>2
  <2>2. CASE p \in s .. e /\ p # e
    <3>1. p \in s .. e - 1 /\ p \notin V
      BY <1>2, <2>2
    <3>2. nx2[p] = p + 1
      <4>1. p # before
        <5>1. p # NULL
          BY <2>0 DEF Page, NULL
        <5>. QED BY <3>1, <2>2, <5>1
      <4>. QED BY <2>0, <2>2, <3>1, <4>1
    <3>3. p + 1 # NULL /\ \A q \in V2 : q \in Nat
      BY <1>3, <2>0 DEF NULL
    <3> HIDE DEF V2
    <3>. QED BY <2>0, <3>2, <3>3
  <2>3. CASE p = before /\ p \in V
    <3>1. nx2[p] = s /\ p < s
      <4>1. p # NULL
        BY <1>1, <2>3
      <4>2. p < s
        BY <2>3, <4>1
      <4>3. p # e
        BY <1>2, <2>0, <4>2
      <4>. QED BY <2>0, <2>3, <4>2, <4>3
    <3>2. ASSUME NEW q \in V2, p < q PROVE s <= q
      <4>1. CASE q \in s .. e
        BY <1>2, <4>1
      <4>2. CASE q \in V
        <5>1. ~ (q < s)
          BY <1>1, <2>0, <2>3, <3>2, <4>2
        <5>. QED BY <1>1, <1>2, <4>2, <5>1
      <4>. QED BY <4>1, <4>2
    <3>. QED BY <1>2, <3>1, <3>2
  <2>4. CASE p \in V /\ p # before
    <3>1. nx2[p] = nx[p] /\ p # e
      BY <1>2, <2>0, <2>4
    <3>2. nx2[p] # NULL => nx2[p] > p
      BY <1>4, <2>4, <3>1
    <3>3. ASSUME NEW q \in V2, p < q PROVE nx2[p] # NULL /\ nx2[p] <= q
      <4>1. CASE q \in V
        BY <1>5, <2>4, <3>1, <3>3, <4>1
      <4>2. CASE q \in s .. e
        <5>1. p < s /\ s <= q
          BY <1>2, <1>6, <2>0, <2>4, <3>3, <4>2
        <5>2. before # NULL /\ p <= before /\ before \in V /\ before < s
          BY <2>4, <5>1
        <5>3. p < before /\ before \in Nat /\ q \in Nat /\ before <= q
          BY <1>1, <1>2, <2>0, <2>4, <4>2, <5>1, <5>2
        <5>4. nx[p] # NULL /\ nx[p] <= before /\ nx[p] \in V
          BY <1>4, <1>5, <2>4, <5>2, <5>3
        <5>5. nx[p] \in Nat /\ nx2[p] = nx[p]
          BY <1>1, <3>1, <5>4
        <5> HIDE DEF V2
        <5>6. nx[p] <= q
          BY <5>3, <5>4, <5>5
        <5>. QED BY <5>4, <5>5, <5>6
      <4>. QED BY <4>1, <4>2
    <3>. QED BY <3>2, <3>3
  <2>. QED BY <2>1, <2>2, <2>3, <2>4
<1>11. joined \in Nat /\ e + 1 + joined \notin V2 /\ \A q \in e + 1 .. e + joined : q \in V2
  <2>1. CASE above = e + 1
    <3>1. above \in V /\ above \in Nat /\ above \in Page
      BY <1>1, <1>2, <2>1 DEF NULL
    <3>2. Run(cb, V, above)
      BY <3>1 DEF ServerOk
    <3>3. joined = cb[above] /\ joined \in Nat
      BY <2>1, <3>1 DEF Counts
    <3>4. (\A q \in e + 1 .. e + 1 + joined - 1 : q \in V) /\ e + 1 + joined \notin V
      BY <2>1, <3>2, <3>3 DEF Run
    <3> HIDE DEF V2
    <3>5. e + 1 + joined - 1 = e + joined /\ e + 1 + joined \notin s .. e
      BY <1>2, <3>3
    <3>. QED BY <3>3, <3>4, <3>5 DEF V2
  <2>2. CASE above # e + 1
    <3>1. e + 1 \notin V
      <4>1. above \in V => above \in Nat
        BY <1>1
      <4>2. ASSUME e + 1 \in V PROVE above # NULL /\ above <= e + 1
        <5>1. e + 1 > e
          BY <1>2
        <5>. QED BY <4>2, <5>1
      <4>. QED BY <1>2, <2>2, <4>1, <4>2
    <3>. QED BY <1>2, <2>2, <3>1
  <2>. QED BY <2>1, <2>2
<1>12. ASSUME NEW p \in V2 PROVE Run(cb2, V2, p)
  <2> DEFINE x == cb[p]
             x2 == cb2[p]
  <2>0. p \in Page /\ p \in Nat /\ x \in Nat /\ x2 \in Int
    BY <1>3 DEF Counts
  <2>6. SUFFICES x2 >= 1 /\ (\A q \in p .. p + x2 - 1 : q \in V2) /\ p + x2 \notin V2
    BY DEF Run
  <2>a. ASSUME p <= e, \A q \in p .. e : q \in V2, x2 = e - p + 1 + joined
        PROVE  x2 >= 1 /\ (\A q \in p .. p + x2 - 1 : q \in V2) /\ p + x2 \notin V2
    <3> HIDE DEF V2, x2
    <3>1. p + x2 = e + 1 + joined /\ p + x2 - 1 = e + joined /\ x2 >= 1
      BY <1>2, <1>11, <2>0, <2>a
    <3>2. \A q \in p .. e + joined : q \in p .. e \/ q \in e + 1 .. e + joined
      BY <1>2, <1>11, <2>0
    <3>. QED BY <1>11, <2>a, <3>1, <3>2
  <2>1. CASE p \in s .. e
    <3>1. x2 = e - p + 1 + joined
      BY <2>1
    <3> HIDE DEF x2
    <3>. QED BY <1>2, <2>1, <2>a, <3>1
  <2>2. CASE p \in V
    <3>1. Run(cb, V, p)
      BY <2>2 DEF ServerOk
    <3>2. /\ x >= 1 /\ \A q \in p .. p + x - 1 : q \in V
          /\ p + x \notin V
      BY <3>1 DEF Run
    <3>3. x2 = IF p \in LeadUp(nx2, s) /\ p >= first THEN s - p + e - s + 1 + joined ELSE x
      BY <2>2
    <3>4. p \in LeadUp(nx2, s) => p < s /\ \A q \in p .. s : q \in V2
      <4>1. s \in V2
        BY <1>2
      <4> HIDE DEF V2
      <4>. QED BY <1>3, <4>1, LeadUpIn DEF V2
    <3>5. CASE p > e
      <4>1. x2 = x
        BY <1>2, <2>0, <3>3, <3>4, <3>5
      <4> HIDE DEF x, x2
      <4>2. p + x \notin s .. e
        BY <1>2, <2>0, <3>2, <3>5
      <4>. QED BY <3>2, <4>1, <4>2
    <3>6. CASE p < s /\ s <= p + x
      <4>1. p + x = s
        <5>1. ~ (s <= p + x - 1)
          BY <1>2, <2>0, <3>2, <3>6
        <5>. QED BY <1>2, <2>0, <3>6, <5>1
      <4>2. \A q \in p .. s - 1 : q \in V
        BY <2>0, <3>2, <4>1
      <4>3. s - 1 \in V /\ before = s - 1
        <5>1. s - 1 \in V
          BY <1>2, <2>0, <3>6, <4>2
        <5>2. before # NULL /\ s - 1 <= before /\ before < s /\ before \in Nat
          <6>1. s - 1 < s
            BY <1>2
          <6>2. before # NULL /\ s - 1 <= before
            BY <5>1, <6>1
          <6>. QED BY <1>1, <6>2
        <5>. QED BY <1>2, <5>1, <5>2
      <4>4. ASSUME NEW q \in p .. s - 1 PROVE nx2[q] = q + 1
        <5>0. q \in V /\ q \in Page /\ q \in Nat /\ q < s /\ q # e
          BY <1>1, <1>2, <2>0, <4>2
        <5>1. CASE q = s - 1
          BY <1>2, <4>3, <5>0, <5>1
        <5>2. CASE q # s - 1
          <6>1. q + 1 \in V /\ q # before /\ q < q + 1
            BY <1>2, <4>2, <4>3, <5>0, <5>2
          <6>2. nx[q] # NULL /\ nx[q] <= q + 1 /\ nx[q] > q /\ nx[q] \in Nat
            BY <1>1, <1>4, <1>5, <5>0, <6>1
          <6>3. nx2[q] = nx[q]
            BY <5>0, <6>1
          <6>. QED BY <5>0, <6>2, <6>3
        <5>. QED BY <5>1, <5>2
      <4>5. p \in LeadUp(nx2, s)
        <5>1. p \in 1 .. s - 1
          BY <1>1, <1>2, <2>0, <2>2, <3>6
        <5>. QED BY <4>4, <5>1 DEF LeadUp
      <4>6. p >= first
        BY <2>2, <2>0 DEF ServerOk
      <4>7. x2 = s - p + e - s + 1 + joined
        BY <3>3, <4>5, <4>6
      <4> HIDE DEF x, x2
      <4>8. x2 = e - p + 1 + joined /\ p <= e
        BY <1>2, <1>11, <2>0, <3>6, <4>7
      <4>9. \A q \in p .. e : q \in p .. s - 1 \/ q \in s .. e
        BY <1>2, <2>0
      <4>10. \A q \in p .. e : q \in V2
        BY <4>2, <4>9
      <4> HIDE DEF V2
      <4>. QED BY <2>a, <4>8, <4>10
    <3>7. CASE p < s /\ p + x < s
      <4>1. p \notin LeadUp(nx2, s)
        <5>1. p + x \in p .. s /\ p + x \notin s .. e
          BY <1>2, <2>0, <3>7
        <5>. QED BY <3>2, <3>4, <5>1
      <4>2. x2 = x
        BY <3>3, <4>1
      <4> HIDE DEF x, x2
      <4>3. p + x \notin s .. e
        BY <1>2, <2>0, <3>7
      <4>. QED BY <3>2, <4>2, <4>3
    <3>8. s <= p + x \/ p + x < s
      BY <1>2, <2>0
    <3>9. p < s \/ p > e
      BY <1>6, <2>2
    <3>. QED BY <3>5, <3>6, <3>7, <3>8, <3>9
  <2>. QED BY <2>1, <2>2
<1> HIDE DEF V2
<1>13. ServerOk(first2, nx2, cb2, V2)
  BY <1>8, <1>9, <1>10, <1>12 DEF ServerOk
<1>. QED BY <1>13 DEF V2
------------------------------------------------------------------------------
(* Lists.                                                                   *)

\* The pages V are those of the blocks that start with the pages of S, which
\* hang together in this order.
IsList(first, S, nx, cb, V) ==
  /\ S \in Seq(Page)
  /\ first = IF S = <<>> THEN NULL ELSE S[1]
  /\ \A i \in 1 .. Len(S) : /\ TailOf(cb, S[i]) \in Page
                            /\ nx[TailOf(cb, S[i])] = IF i = Len(S) THEN NULL ELSE S[i + 1]
  /\ \A i \in 1 .. Len(S) : \A p \in S[i] .. TailOf(cb, S[i]) - 1 : nx[p] = p + 1
  /\ \A i \in 1 .. Len(S) : \A p \in BlockOf(cb, S[i]) : p \in V
  /\ \A p \in V : \E i \in 1 .. Len(S) : p \in BlockOf(cb, S[i])
  /\ \A i, j \in 1 .. Len(S) : \A p \in BlockOf(cb, S[i]) : p \in BlockOf(cb, S[j]) => i = j

\* Its blocks lie in the order of their addresses, and are not neighbours.
Sorted(S, cb) ==
  /\ \A i, j \in 1 .. Len(S) : i < j => TailOf(cb, S[i]) < S[j]
  /\ \A i \in 1 .. Len(S) - 1 : TailOf(cb, S[i]) + 1 < S[i + 1]

\* The server's list is such a list.
LEMMA ServerList ==
  ASSUME NEW nx \in Links, NEW cb \in Counts, NEW V \in SUBSET Page, NEW first \in Page \cup {NULL},
         ServerOk(first, nx, cb, V), Apart(nx, V)
  PROVE  \E S : IsList(first, S, nx, cb, V) /\ Sorted(S, cb)
<1> DEFINE H == {p \in V : p - 1 \notin V}
<1>1. V \subseteq Nat /\ \A p \in V : p \in 1 .. PageCount /\ p \in Page /\ p # NULL
  BY DEF Page, NULL
<1>2. PageCount \in Nat /\ H \in SUBSET (1 .. PageCount)
  BY <1>1, CountAssumption
<1>3. PICK S \in Seq(H) : /\ \A i, j \in 1 .. Len(S) : i < j => S[i] < S[j]
                          /\ \A x \in H : \E i \in 1 .. Len(S) : x = S[i]
  <2> HIDE DEF H
  <2>. QED BY <1>2, Enumerate
<1>4. \A i \in 1 .. Len(S) : S[i] \in V /\ S[i] - 1 \notin V
  <2>1. \A i \in 1 .. Len(S) : S[i] \in H
    OBVIOUS
  <2>. QED BY <2>1
<1>5. \A p \in V : p - 1 \notin V => \E i \in 1 .. Len(S) : p = S[i]
  BY <1>3
<1>6. S \in Seq(Page)
  <2>1. \A i \in 1 .. Len(S) : S[i] \in Page
    BY <1>1, <1>4
  <2>2. Len(S) \in Nat /\ S = [i \in 1 .. Len(S) |-> S[i]]
    BY <1>3
  <2>. QED BY <2>1, <2>2, SeqDef
<1>7. \A i, j \in 1 .. Len(S) : i < j => S[i] < S[j]
  BY <1>3
<1>8. Len(S) \in Nat
  BY <1>6
<1> HIDE DEF H
<1>9. \A p \in V : nx[p] # NULL => nx[p] > p /\ nx[p] \in V
  BY <1>1 DEF ServerOk, Apart
<1>10. \A p, q \in V : p < q => nx[p] # NULL /\ nx[p] <= q
  BY DEF ServerOk
<1>11. ASSUME NEW p \in V
       PROVE  /\ TailOf(cb, p) = p + cb[p] - 1 /\ p <= TailOf(cb, p)
              /\ \A q \in BlockOf(cb, p) : q \in V
              /\ TailOf(cb, p) \in V /\ TailOf(cb, p) + 1 \notin V
  <2>1. Run(cb, V, p) /\ cb[p] \in Nat /\ p \in Nat
    BY <1>1 DEF ServerOk, Counts
  <2>2. cb[p] >= 1 /\ (\A q \in p .. p + cb[p] - 1 : q \in V) /\ p + cb[p] \notin V
    BY <2>1 DEF Run
  <2>3. TailOf(cb, p) = p + cb[p] - 1 /\ p <= TailOf(cb, p)
    BY <2>1, <2>2 DEF TailOf
  <2>4. p + cb[p] - 1 + 1 = p + cb[p] /\ p + cb[p] - 1 \in p .. p + cb[p] - 1
    BY <2>1, <2>2
  <2>. QED BY <2>2, <2>3, <2>4 DEF BlockOf
<1>12. ASSUME NEW i \in 1 .. Len(S), NEW j \in 1 .. Len(S), i < j
       PROVE  TailOf(cb, S[i]) + 1 < S[j]
  <2>1. S[i] \in V /\ S[j] \in V /\ S[j] - 1 \notin V /\ S[i] < S[j]
    BY <1>4, <1>7, <1>12
  <2> DEFINE x == S[i]
             y == S[j]
             t == TailOf(cb, x)
  <2>2. x \in Nat /\ y \in Nat /\ t \in Nat
    BY <1>1, <1>11, <2>1
  <2>3. (\A q \in x .. t : q \in V) /\ t + 1 \notin V
    BY <1>11, <2>1 DEF BlockOf
  <2> HIDE DEF x, y, t
  <2>4. ~ (y <= t)
    <3>1. y <= t => y - 1 \in x .. t
      BY <2>1, <2>2 DEF x, y
    <3>. QED BY <2>1, <2>3, <3>1 DEF y
  <2>5. y # t + 1
    BY <2>1, <2>3 DEF y
  <2>6. t + 1 < y
    BY <2>2, <2>4, <2>5
  <2>. QED BY <2>6 DEF x, y, t
<1>13. Sorted(S, cb)
  <2>1. ASSUME NEW i \in 1 .. Len(S), NEW j \in 1 .. Len(S), i < j PROVE TailOf(cb, S[i]) < S[j]
    <3>1. TailOf(cb, S[i]) \in Nat /\ S[j] \in Nat
      BY <1>1, <1>4, <1>11
    <3>. QED BY <1>12, <2>1, <3>1
  <2>2. ASSUME NEW i \in 1 .. Len(S) - 1 PROVE TailOf(cb, S[i]) + 1 < S[i + 1]
    <3>1. i \in 1 .. Len(S) /\ i + 1 \in 1 .. Len(S) /\ i < i + 1
      BY <1>8
    <3>. QED BY <1>12, <3>1
  <2>. QED BY <2>1, <2>2 DEF Sorted
<1>14. \A i \in 1 .. Len(S) : \A p \in BlockOf(cb, S[i]) : p \in V
  BY <1>4, <1>11
<1>15. ASSUME NEW p \in V PROVE \E i \in 1 .. Len(S) : p \in BlockOf(cb, S[i])
  <2> DEFINE P == {m \in 0 .. PageCount : m \in V => \E i \in 1 .. Len(S) : m \in BlockOf(cb, S[i])}
  <2>1. 0 \in P
    BY <1>1, <1>2
  <2>2. ASSUME NEW m \in 0 .. PageCount - 1, m \in P PROVE m + 1 \in P
    <3>1. SUFFICES ASSUME m + 1 \in V PROVE \E i \in 1 .. Len(S) : m + 1 \in BlockOf(cb, S[i])
      BY <1>2
    <3>2. CASE m \in V
      <4>1. PICK i \in 1 .. Len(S) : m \in BlockOf(cb, S[i])
        BY <2>2, <3>2
      <4>2. S[i] \in Nat /\ TailOf(cb, S[i]) \in Nat /\ TailOf(cb, S[i]) + 1 \notin V
        BY <1>1, <1>4, <1>11
      <4>3. m + 1 \in BlockOf(cb, S[i])
        BY <3>1, <4>1, <4>2 DEF BlockOf
      <4>. QED BY <4>3
    <3>3. CASE m \notin V
      <4>1. (m + 1) - 1 \notin V
        <5>1. (m + 1) - 1 = m
          OBVIOUS
        <5>. QED BY <3>3, <5>1
      <4>2. PICK i \in 1 .. Len(S) : m + 1 = S[i]
        BY <1>5, <3>1, <4>1
      <4>3. m + 1 \in BlockOf(cb, S[i])
        BY <1>1, <1>4, <1>11, <4>2 DEF BlockOf
      <4>. QED BY <4>3
    <3>. QED BY <3>2, <3>3
  <2> HIDE DEF P
  <2>3. 0 .. PageCount \subseteq P
    BY <1>2, <2>1, <2>2, Upto
  <2>4. p \in P
    BY <1>1, <2>3
  <2>. QED BY <2>4 DEF P
<1>16. ASSUME NEW i \in 1 .. Len(S), NEW j \in 1 .. Len(S),
              NEW p \in BlockOf(cb, S[i]), p \in BlockOf(cb, S[j])
       PROVE  i = j
  <2>1. /\ p \in Nat /\ S[i] <= p /\ p <= TailOf(cb, S[i]) /\ S[j] <= p /\ p <= TailOf(cb, S[j])
        /\ S[i] \in Nat /\ S[j] \in Nat /\ TailOf(cb, S[i]) \in Nat /\ TailOf(cb, S[j]) \in Nat
    <3>1. \A k \in 1 .. Len(S) : S[k] \in Nat /\ TailOf(cb, S[k]) \in Nat
      BY <1>1, <1>4, <1>11
    <3>. QED BY <1>16, <3>1 DEF BlockOf
  <2>2. ~ (i < j) /\ ~ (j < i)
    BY <1>13, <2>1 DEF Sorted
  <2>. QED BY <2>2
<1>17. ASSUME NEW i \in 1 .. Len(S)
       PROVE  nx[TailOf(cb, S[i])] = IF i = Len(S) THEN NULL ELSE S[i + 1]
  <2> DEFINE t == TailOf(cb, S[i])
             n == nx[t]
  <2>1. t \in V /\ t + 1 \notin V /\ t \in Nat /\ S[i] <= t /\ S[i] \in Nat
    BY <1>1, <1>4, <1>11
  <2>2. ASSUME n # NULL PROVE \E j \in 1 .. Len(S) : i < j /\ n = S[j]
    <3>1. n \in V /\ n > t /\ n \in Nat
      BY <1>1, <1>9, <2>1, <2>2
    <3>2. n - 1 \notin V
      <4>1. SUFFICES ASSUME n - 1 \in V PROVE FALSE
        OBVIOUS
      <4>2. n - 1 # t
        BY <2>1, <3>1
      <4>3. t < n - 1
        BY <2>1, <3>1, <4>2
      <4>4. n <= n - 1
        BY <1>10, <2>1, <4>1, <4>3
      <4>. QED BY <3>1, <4>4
    <3>3. PICK j \in 1 .. Len(S) : n = S[j]
      BY <1>5, <3>1, <3>2
    <3>4. ~ (j < i) /\ j # i
      BY <1>7, <2>1, <3>1, <3>3
    <3>. QED BY <3>3, <3>4
  <2>3. CASE i = Len(S)
    BY <2>2, <2>3
  <2>4. CASE i # Len(S)
    <3>1. i + 1 \in 1 .. Len(S) /\ i < i + 1
      BY <1>8, <2>4
    <3>2. S[i + 1] \in V /\ S[i + 1] \in Nat /\ t + 1 < S[i + 1]
      BY <1>1, <1>4, <1>12, <3>1
    <3>3. n # NULL /\ n <= S[i + 1]
      BY <1>10, <2>1, <3>2
    <3>4. PICK j \in 1 .. Len(S) : i < j /\ n = S[j]
      BY <2>2, <3>3
    <3>5. ~ (i + 1 < j)
      <4>1. i + 1 < j => S[i + 1] < S[j]
        BY <1>7, <3>1
      <4>2. S[j] \in Nat
        BY <1>1, <1>4
      <4>. QED BY <3>2, <3>3, <3>4, <4>1, <4>2
    <3>6. j = i + 1
      BY <3>4, <3>5
    <3>. QED BY <2>4, <3>4, <3>6
  <2>. QED BY <2>3, <2>4
<1>18. ASSUME NEW i \in 1 .. Len(S), NEW p \in S[i] .. TailOf(cb, S[i]) - 1 PROVE nx[p] = p + 1
  <2>1. S[i] \in Nat /\ TailOf(cb, S[i]) \in Nat
    BY <1>1, <1>4, <1>11
  <2>2. p \in BlockOf(cb, S[i]) /\ p + 1 \in BlockOf(cb, S[i]) /\ p \in Nat /\ p < p + 1
    BY <2>1 DEF BlockOf
  <2>3. p \in V /\ p + 1 \in V
    BY <1>14, <2>2
  <2>4. nx[p] # NULL /\ nx[p] <= p + 1 /\ nx[p] > p /\ nx[p] \in Nat
    BY <1>1, <1>9, <1>10, <2>2, <2>3
  <2>. QED BY <2>2, <2>4
<1>19. first = IF S = <<>> THEN NULL ELSE S[1]
  <2>1. CASE S = <<>>
    <3>1. V = {}
      BY <1>15, <2>1
    <3>. QED BY <2>1, <3>1 DEF ServerOk
  <2>2. CASE S # <<>>
    <3>1. 1 \in 1 .. Len(S) /\ S[1] \in V
      BY <1>4, <1>6, <2>2
    <3>2. first # NULL /\ first \in V /\ first <= S[1] /\ first \in Nat /\ S[1] \in Nat
      BY <1>1, <3>1 DEF ServerOk
    <3>3. first - 1 \notin V
      <4>1. first - 1 \in V => first <= first - 1
        BY DEF ServerOk
      <4>. QED BY <3>2, <4>1
    <3>4. PICK j \in 1 .. Len(S) : first = S[j]
      BY <1>5, <3>2, <3>3
    <3>5. ~ (1 < j)
      BY <1>7, <3>1, <3>2, <3>4
    <3>6. j = 1
      BY <3>5
    <3>. QED BY <2>2, <3>4, <3>6
  <2>. QED BY <2>1, <2>2
<1>20. \A i \in 1 .. Len(S) : TailOf(cb, S[i]) \in Page
  BY <1>1, <1>4, <1>11
<1>21. IsList(first, S, nx, cb, V)
  BY <1>6, <1>14, <1>15, <1>16, <1>17, <1>18, <1>19, <1>20 DEF IsList
<1>. QED BY <1>13, <1>21

\* The last page of a block is in it, and not before its first.
LEMMA TailAfter ==
  ASSUME NEW cb \in Counts, NEW h \in Page
  PROVE  TailOf(cb, h) \in Nat /\ h <= TailOf(cb, h) /\ h \in BlockOf(cb, h)
<1>1. cb[h] \in Nat /\ h \in Nat
  BY DEF Counts, Page
<1>. QED BY <1>1 DEF TailOf, BlockOf

\* The model's names for these.
LEMMA Tails ==
  ASSUME combpage \in Counts, NEW h \in Page
  PROVE  TailPage(h) = TailOf(combpage, h) /\ Block(h) = BlockOf(combpage, h)
BY DEF TailPage, TailOf, Block, BlockOf

\* Heads follows a list to its end: it has no more blocks than there are pages.
LEMMA HeadsAre ==
  ASSUME combpage \in Counts, next \in Links, NEW V \in SUBSET Page, NEW first, NEW S,
         IsList(first, S, next, combpage, V)
  PROVE  /\ Heads(first) = S
         /\ PagesOf(first) = V
         /\ \A i \in 1 .. Len(S) : /\ TailPage(S[i]) = TailOf(combpage, S[i])
                                   /\ Block(S[i]) = BlockOf(combpage, S[i])
<1>1. S \in Seq(Page) /\ Len(S) \in Nat /\ \A i \in 1 .. Len(S) : S[i] \in Page
  BY DEF IsList
<1>2. \A i \in 1 .. Len(S) : /\ TailPage(S[i]) = TailOf(combpage, S[i])
                             /\ Block(S[i]) = BlockOf(combpage, S[i])
                             /\ S[i] \in BlockOf(combpage, S[i])
  BY <1>1, Tails, TailAfter
<1>3. Len(S) <= PageCount
  <2>1. ASSUME NEW i \in 1 .. Len(S), NEW j \in 1 .. Len(S), S[i] = S[j] PROVE i = j
    <3>1. S[i] \in BlockOf(combpage, S[i]) /\ S[i] \in BlockOf(combpage, S[j])
      BY <1>2, <2>1
    <3>. QED BY <3>1 DEF IsList
  <2>. QED BY <1>1, <2>1, Different
<1>4. PageCount \in Nat /\ PageCount >= 1 /\ \A p \in Page : p # NULL
  BY CountAssumption DEF Page, NULL
<1> DEFINE to(k) == IF k <= Len(S) THEN k ELSE Len(S)
           g == [k \in 0 .. PageCount |-> SubSeq(S, 1, to(k))]
           More(s) == LET p == IF s = <<>> THEN first ELSE next[TailPage(s[Len(s)])]
                      IN IF p = NULL THEN s ELSE Append(s, p)
<1>5. SubSeq(S, 1, 0) = <<>>
  BY SubSeqEmpty
<1>6. ASSUME NEW k \in 0 .. PageCount, k # 0 PROVE SubSeq(S, 1, to(k)) = More(SubSeq(S, 1, to(k - 1)))
  <2> DEFINE s == SubSeq(S, 1, to(k - 1))
  <2>1. k \in Nat /\ k - 1 \in Nat /\ to(k - 1) \in 0 .. Len(S)
    BY <1>1, <1>4, <1>6
  <2>2. /\ s \in Seq(Page) /\ Len(s) = to(k - 1)
        /\ \A i \in 1 .. to(k - 1) : s[i] = S[i]
    <3> DEFINE n == to(k - 1)
    <3>1. n \in Int /\ 1 \in Int /\ n \in Nat /\ \A i \in 1 .. n : S[i] \in Page
      BY <1>1, <2>1
    <3> HIDE DEF n
    <3>2. /\ SubSeq(S, 1, n) \in Seq(Page) /\ Len(SubSeq(S, 1, n)) = IF 1 <= n THEN n - 1 + 1 ELSE 0
          /\ \A i \in 1 .. n - 1 + 1 : SubSeq(S, 1, n)[i] = S[1 + i - 1]
      BY <3>1, SubSeqProperties
    <3>3. Len(SubSeq(S, 1, n)) = n
      BY <3>1, <3>2
    <3>4. ASSUME NEW i \in 1 .. n PROVE SubSeq(S, 1, n)[i] = S[i]
      <4>1. i \in 1 .. n - 1 + 1 /\ 1 + i - 1 = i
        BY <3>1
      <4>. QED BY <3>2, <4>1
    <3>. QED BY <3>2, <3>3, <3>4 DEF n
  <2>3. s = <<>> <=> to(k - 1) = 0
    BY <2>1, <2>2, EmptySeq
  <2> HIDE DEF s
  <2> DEFINE p == IF s = <<>> THEN first ELSE next[TailPage(s[Len(s)])]
  <2>4. p = IF to(k - 1) = Len(S) THEN NULL ELSE S[to(k - 1) + 1]
    <3>1. CASE to(k - 1) = 0
      <4>1. S = <<>> <=> Len(S) = 0
        BY <1>1, EmptySeq
      <4>. QED BY <2>3, <3>1, <4>1 DEF IsList
    <3>2. CASE to(k - 1) # 0
      <4> DEFINE i == to(k - 1)
      <4>1. i \in 1 .. Len(S)
        BY <1>1, <2>1, <3>2
      <4>2. s # <<>> /\ s[Len(s)] = S[i]
        BY <2>2, <2>3, <3>2, <4>1
      <4> HIDE DEF i
      <4>3. next[TailPage(S[i])] = IF i = Len(S) THEN NULL ELSE S[i + 1]
        BY <1>2, <4>1 DEF IsList
      <4>. QED BY <4>2, <4>3 DEF i
    <3>. QED BY <3>1, <3>2
  <2>5. CASE k - 1 < Len(S)
    <3>1. to(k - 1) = k - 1 /\ to(k) = k /\ k \in 1 .. Len(S) /\ (k - 1) + 1 = k
      BY <1>1, <2>1, <2>5
    <3>2. p = S[k] /\ S[k] \in Page /\ p # NULL
      BY <1>1, <1>4, <2>4, <2>5, <3>1
    <3>3. SubSeq(S, 1, k) = SubSeq(S, 1, k - 1) \o <<S[k]>>
      <4>1. 1 \in 1 .. Len(S) /\ k \in 1 .. Len(S)
        BY <1>1, <3>1
      <4>. QED BY <1>1, <4>1, SubSeqRecursiveSecond
    <3>4. Append(s, p) = s \o <<p>>
      BY <2>2, <3>2, AppendIsConcat
    <3>5. s = SubSeq(S, 1, k - 1)
      BY <3>1 DEF s
    <3>6. SubSeq(S, 1, to(k)) = Append(s, p)
      BY <3>1, <3>2, <3>3, <3>4, <3>5
    <3>. QED BY <3>2, <3>6 DEF s
  <2>6. CASE ~ (k - 1 < Len(S))
    <3>1. to(k - 1) = Len(S) /\ to(k) = Len(S)
      BY <1>1, <2>1, <2>6
    <3>2. p = NULL /\ SubSeq(S, 1, to(k)) = s
      BY <2>4, <3>1 DEF s
    <3>. QED BY <3>2 DEF s
  <2>. QED BY <2>5, <2>6
<1> HIDE DEF to, More
<1>7. g = [k \in 0 .. PageCount |-> IF k = 0 THEN <<>> ELSE More(g[k - 1])]
  <2>1. ASSUME NEW k \in 0 .. PageCount PROVE g[k] = IF k = 0 THEN <<>> ELSE More(g[k - 1])
    <3>1. CASE k = 0
      <4>1. to(k) = 0
        BY <1>1, <3>1 DEF to
      <4>. QED BY <1>5, <3>1, <4>1
    <3>2. CASE k # 0
      <4>1. k - 1 \in 0 .. PageCount
        BY <1>4, <3>2
      <4>. QED BY <1>6, <3>2, <4>1
    <3>. QED BY <3>1, <3>2
  <2>. QED BY <2>1
<1>8. g[PageCount] = S
  <2>1. to(PageCount) = Len(S) /\ PageCount \in 0 .. PageCount
    BY <1>1, <1>3, <1>4 DEF to
  <2>. QED BY <1>1, <2>1, SubSeqFull
<1> HIDE DEF g
<1> DEFINE upTo[k \in 0 .. PageCount] ==
             IF k = 0 THEN <<>>
             ELSE LET s == upTo[k - 1]
                      p == IF s = <<>> THEN first ELSE next[TailPage(s[Len(s)])]
                  IN IF p = NULL THEN s ELSE Append(s, p)
<1>9. Heads(first) = upTo[PageCount]
  BY DEF Heads
<1>10. upTo = [k \in 0 .. PageCount |-> IF k = 0 THEN <<>> ELSE More(upTo[k - 1])]
  <2> DEFINE F(f) == [k \in 0 .. PageCount |->
             IF k = 0 THEN <<>>
             ELSE LET s == f[k - 1]
                      p == IF s = <<>> THEN first ELSE next[TailPage(s[Len(s)])]
                  IN IF p = NULL THEN s ELSE Append(s, p)]
  <2>1. \A f : F(f) = [k \in 0 .. PageCount |-> IF k = 0 THEN <<>> ELSE More(f[k - 1])]
    BY DEF More
  <2>2. g = F(g)
    BY <1>7, <2>1
  <2>3. upTo = CHOOSE f : f = F(f)
    OBVIOUS
  <2> HIDE DEF F, upTo
  <2>4. upTo = F(upTo)
    BY <2>2, <2>3
  <2>. QED BY <2>1, <2>4
<1> HIDE DEF upTo
<1>11. \A m \in 0 .. PageCount : upTo[m] = g[m]
  <2> DEFINE P == {m \in 0 .. PageCount : upTo[m] = g[m]}
  <2>1. 0 \in P
    BY <1>4, <1>7, <1>10
  <2>2. ASSUME NEW m \in 0 .. PageCount - 1, m \in P PROVE m + 1 \in P
    <3>1. m + 1 \in 0 .. PageCount /\ (m + 1) - 1 = m /\ m + 1 # 0
      BY <1>4
    <3>2. upTo[m + 1] = More(upTo[m])
      BY <1>10, <3>1
    <3>3. g[m + 1] = More(g[m])
      BY <1>7, <3>1
    <3>. QED BY <2>2, <3>1, <3>2, <3>3
  <2> HIDE DEF P
  <2>3. 0 .. PageCount \subseteq P
    BY <1>4, <2>1, <2>2, Upto
  <2>. QED BY <2>3 DEF P
<1>14. Heads(first) = S
  BY <1>4, <1>8, <1>9, <1>11
<1>15. PagesOf(first) = V
  <2>1. PagesOf(first) = UNION {Block(S[i]) : i \in 1 .. Len(S)}
    BY <1>1, <1>14 DEF PagesOf, Range
  <2>2. \A i \in 1 .. Len(S) : Block(S[i]) \subseteq V
    BY <1>2 DEF IsList
  <2>3. \A p \in V : \E i \in 1 .. Len(S) : p \in Block(S[i])
    BY <1>2 DEF IsList
  <2>. QED BY <2>1, <2>2, <2>3
<1>. QED BY <1>2, <1>14, <1>15

\* Pages b .. TailOf(cb, b) hang together.
HandOk(b, nx, cb, V) ==
  /\ b \in Page /\ TailOf(cb, b) \in Page
  /\ \A p \in b .. TailOf(cb, b) - 1 : nx[p] = p + 1
  /\ V = BlockOf(cb, b)

\* A list does not depend on other pages.
LEMMA ListFrame ==
  ASSUME NEW nx \in Links, NEW cb \in Counts, NEW nx2 \in Links, NEW cb2 \in Counts,
         NEW V \in SUBSET Page, NEW first, NEW S, IsList(first, S, nx, cb, V),
         \A p \in V : nx2[p] = nx[p] /\ cb2[p] = cb[p]
  PROVE  IsList(first, S, nx2, cb2, V)
<1>1. S \in Seq(Page) /\ Len(S) \in Nat /\ \A i \in 1 .. Len(S) : S[i] \in Page
  BY DEF IsList
<1>2. \A i \in 1 .. Len(S) : S[i] \in BlockOf(cb, S[i]) /\ TailOf(cb, S[i]) \in BlockOf(cb, S[i])
  BY <1>1, TailAfter DEF BlockOf
<1>3. \A i \in 1 .. Len(S) : \A p \in BlockOf(cb, S[i]) : p \in V
  BY DEF IsList
<1>4. \A i \in 1 .. Len(S) : cb2[S[i]] = cb[S[i]]
  BY <1>2, <1>3
<1>5. \A i \in 1 .. Len(S) : TailOf(cb2, S[i]) = TailOf(cb, S[i]) /\ BlockOf(cb2, S[i]) = BlockOf(cb, S[i])
  BY <1>4 DEF TailOf, BlockOf
<1>6. \A i \in 1 .. Len(S) : nx2[TailOf(cb, S[i])] = nx[TailOf(cb, S[i])]
  BY <1>2, <1>3
<1>7. ASSUME NEW i \in 1 .. Len(S), NEW p \in S[i] .. TailOf(cb, S[i]) - 1 PROVE nx2[p] = p + 1
  <2>1. p \in BlockOf(cb, S[i])
    BY <1>1, TailAfter DEF BlockOf
  <2>2. nx[p] = p + 1
    BY DEF IsList
  <2>. QED BY <1>3, <2>1, <2>2
<1>. QED BY <1>5, <1>6, <1>7 DEF IsList

\* Nor do the pages in the hands of a CPU.
LEMMA HandFrame ==
  ASSUME NEW nx \in Links, NEW cb \in Counts, NEW nx2 \in Links, NEW cb2 \in Counts,
         NEW V \in SUBSET Page, NEW b, HandOk(b, nx, cb, V),
         \A p \in V : nx2[p] = nx[p] /\ cb2[p] = cb[p]
  PROVE  HandOk(b, nx2, cb2, V)
<1>1. b \in Page /\ b \in V
  BY TailAfter DEF HandOk
<1>2. TailOf(cb2, b) = TailOf(cb, b) /\ BlockOf(cb2, b) = BlockOf(cb, b)
  BY <1>1 DEF TailOf, BlockOf
<1>3. ASSUME NEW p \in b .. TailOf(cb, b) - 1 PROVE nx2[p] = p + 1
  <2>1. p \in V
    BY <1>1, TailAfter DEF HandOk, BlockOf
  <2>. QED BY <2>1 DEF HandOk
<1>. QED BY <1>2, <1>3 DEF HandOk

\* No page of a list hangs on a page that is not of it.
LEMMA ListClosed ==
  ASSUME NEW nx \in Links, NEW cb \in Counts,
         NEW V \in SUBSET Page, NEW first, NEW S, IsList(first, S, nx, cb, V),
         NEW p \in V, nx[p] # NULL
  PROVE  nx[p] \in V
<1>1. S \in Seq(Page) /\ Len(S) \in Nat /\ \A i \in 1 .. Len(S) : S[i] \in Page
  BY DEF IsList
<1>2. \A i \in 1 .. Len(S) : S[i] \in BlockOf(cb, S[i])
  BY <1>1, TailAfter
<1>3. \A i \in 1 .. Len(S) : \A q \in BlockOf(cb, S[i]) : q \in V
  BY DEF IsList
<1>4. PICK i \in 1 .. Len(S) : p \in BlockOf(cb, S[i])
  BY DEF IsList
<1>5. CASE p = TailOf(cb, S[i])
  <2>1. nx[p] = IF i = Len(S) THEN NULL ELSE S[i + 1]
    BY <1>5 DEF IsList
  <2>2. i # Len(S) /\ i + 1 \in 1 .. Len(S) /\ nx[p] = S[i + 1]
    BY <1>1, <2>1
  <2>. QED BY <1>2, <1>3, <2>2
<1>6. CASE p # TailOf(cb, S[i])
  <2>1. S[i] \in Nat /\ TailOf(cb, S[i]) \in Nat
    BY <1>1, TailAfter DEF Page
  <2>2. p \in S[i] .. TailOf(cb, S[i]) - 1 /\ p + 1 \in BlockOf(cb, S[i])
    BY <1>4, <1>6, <2>1 DEF BlockOf
  <2>3. nx[p] = p + 1
    BY <2>2 DEF IsList
  <2>. QED BY <1>3, <2>2, <2>3
<1>. QED BY <1>5, <1>6

\* cpumempool_delivery: a block becomes the first of a list.
LEMMA ListPush ==
  ASSUME NEW nx \in Links, NEW cb \in Counts, NEW nx2 \in Links,
         NEW V \in SUBSET Page, NEW W \in SUBSET Page, V \cap W = {},
         NEW first, NEW S, IsList(first, S, nx, cb, V),
         NEW b \in Page, HandOk(b, nx, cb, W),
         \A p \in Page : nx2[p] = IF p = TailOf(cb, b) THEN first ELSE nx[p]
  PROVE  IsList(b, <<b>> \o S, nx2, cb, V \cup W)
<1> DEFINE T == <<b>> \o S
<1>1. S \in Seq(Page) /\ Len(S) \in Nat /\ \A i \in 1 .. Len(S) : S[i] \in Page
  BY DEF IsList
<1>2. /\ T \in Seq(Page) /\ T # <<>> /\ Len(T) = Len(S) + 1
      /\ T[1] = b /\ \A i \in 1 .. Len(S) : T[i + 1] = S[i]
  BY <1>1, Pushed
<1> HIDE DEF T
<1>3. ASSUME NEW i \in 1 .. Len(T) PROVE i = 1 \/ (i - 1 \in 1 .. Len(S) /\ T[i] = S[i - 1] /\ (i - 1) + 1 = i)
  BY <1>1, <1>2
<1>4. W = BlockOf(cb, b) /\ TailOf(cb, b) \in Page /\ TailOf(cb, b) \in W /\ b \in W
  BY TailAfter DEF HandOk, BlockOf
<1>5. \A i \in 1 .. Len(S) : /\ TailOf(cb, S[i]) \in BlockOf(cb, S[i])
                             /\ \A p \in BlockOf(cb, S[i]) : p \in V
                             /\ TailOf(cb, S[i]) \in Page
  BY <1>1, TailAfter DEF IsList, BlockOf
<1>6. ASSUME NEW i \in 1 .. Len(T)
      PROVE  /\ TailOf(cb, T[i]) \in Page
             /\ nx2[TailOf(cb, T[i])] = IF i = Len(T) THEN NULL ELSE T[i + 1]
  <2>1. CASE i = 1
    <3>1. nx2[TailOf(cb, T[i])] = first
      BY <1>2, <1>4, <2>1
    <3>2. first = IF S = <<>> THEN NULL ELSE S[1]
      BY DEF IsList
    <3>3. CASE S = <<>>
      BY <1>2, <1>4, <2>1, <3>1, <3>2, <3>3
    <3>4. CASE S # <<>>
      <4>1. 1 \in 1 .. Len(S) /\ T[1 + 1] = S[1] /\ 1 # Len(T)
        BY <1>1, <1>2, <3>4
      <4>. QED BY <1>2, <1>4, <2>1, <3>1, <3>2, <3>4, <4>1
    <3>. QED BY <3>3, <3>4
  <2>2. CASE i # 1
    <3>1. i - 1 \in 1 .. Len(S) /\ T[i] = S[i - 1] /\ (i - 1) + 1 = i
      BY <1>3, <2>2
    <3>2. nx[TailOf(cb, S[i - 1])] = IF i - 1 = Len(S) THEN NULL ELSE S[(i - 1) + 1]
      BY <3>1 DEF IsList
    <3>3. TailOf(cb, S[i - 1]) \in V /\ TailOf(cb, S[i - 1]) \in Page
      BY <1>5, <3>1
    <3>4. nx2[TailOf(cb, S[i - 1])] = nx[TailOf(cb, S[i - 1])]
      BY <1>4, <3>3
    <3>5. i - 1 = Len(S) <=> i = Len(T)
      BY <1>1, <1>2
    <3>6. i # Len(T) => i \in 1 .. Len(S) /\ T[i + 1] = S[i]
      BY <1>1, <1>2
    <3>. QED BY <3>1, <3>2, <3>3, <3>4, <3>5, <3>6
  <2>. QED BY <2>1, <2>2
<1>7. ASSUME NEW i \in 1 .. Len(T), NEW p \in T[i] .. TailOf(cb, T[i]) - 1 PROVE nx2[p] = p + 1
  <2>1. CASE i = 1
    <3>1. nx[p] = p + 1
      BY <1>2, <2>1 DEF HandOk
    <3>2. p \in W /\ p # TailOf(cb, b)
      BY <1>2, <1>4, <2>1, TailAfter DEF BlockOf
    <3>. QED BY <3>1, <3>2
  <2>2. CASE i # 1
    <3>1. i - 1 \in 1 .. Len(S) /\ T[i] = S[i - 1]
      BY <1>3, <2>2
    <3>2. nx[p] = p + 1
      BY <3>1 DEF IsList
    <3>3. p \in BlockOf(cb, S[i - 1])
      BY <1>1, <3>1, TailAfter DEF BlockOf
    <3>4. p \in V
      BY <1>5, <3>1, <3>3
    <3>. QED BY <1>4, <3>2, <3>4
  <2>. QED BY <2>1, <2>2
<1>8. ASSUME NEW i \in 1 .. Len(T), NEW p \in BlockOf(cb, T[i])
      PROVE  IF i = 1 THEN p \in W ELSE p \in V /\ p \in BlockOf(cb, S[i - 1])
  BY <1>2, <1>3, <1>4, <1>5
<1>9. ASSUME NEW p \in V \cup W PROVE \E i \in 1 .. Len(T) : p \in BlockOf(cb, T[i])
  <2>1. CASE p \in W
    <3>1. 1 \in 1 .. Len(T)
      BY <1>1, <1>2
    <3>. QED BY <1>2, <1>4, <2>1, <3>1
  <2>2. CASE p \in V
    <3>1. PICK i \in 1 .. Len(S) : p \in BlockOf(cb, S[i])
      BY <2>2 DEF IsList
    <3>2. i + 1 \in 1 .. Len(T) /\ T[i + 1] = S[i]
      BY <1>1, <1>2
    <3>. QED BY <3>1, <3>2
  <2>. QED BY <2>1, <2>2
<1>10. ASSUME NEW i \in 1 .. Len(T), NEW j \in 1 .. Len(T),
              NEW p \in BlockOf(cb, T[i]), p \in BlockOf(cb, T[j])
       PROVE  i = j
  <2>1. i = 1 <=> j = 1
    BY <1>8, <1>10
  <2>2. CASE i # 1 /\ j # 1
    <3>1. i - 1 \in 1 .. Len(S) /\ j - 1 \in 1 .. Len(S)
      BY <1>3, <2>2
    <3>2. p \in BlockOf(cb, S[i - 1]) /\ p \in BlockOf(cb, S[j - 1])
      BY <1>8, <1>10, <2>2
    <3>3. i - 1 = j - 1
      BY <3>1, <3>2 DEF IsList
    <3>. QED BY <3>3
  <2>. QED BY <2>1, <2>2
<1>11. ASSUME NEW i \in 1 .. Len(T), NEW p \in BlockOf(cb, T[i]) PROVE p \in V \cup W
  BY <1>8
<1>12. IsList(b, T, nx2, cb, V \cup W)
  BY <1>2, <1>6, <1>7, <1>9, <1>10, <1>11 DEF IsList
<1>. QED BY <1>12 DEF T

\* cpumempool_receive unlinks the i-th block, up to page t, behind page before.
BlockGone(first, S, nx, cb, V, first2, nx2, i, t, before) ==
  /\ IsList(first, S, nx, cb, V)
  /\ t = TailOf(cb, S[i])
  /\ before = IF i = 1 THEN NULL ELSE TailOf(cb, S[i - 1])
  /\ first2 = IF before = NULL THEN nx[t] ELSE first
  /\ \A p \in Page : nx2[p] = IF p = t THEN NULL ELSE IF p = before THEN nx[t] ELSE nx[p]

\* The block leaves the list.
LEMMA ListDrop ==
  ASSUME NEW nx \in Links, NEW cb \in Counts, NEW nx2 \in Links, NEW V \in SUBSET Page,
         NEW first, NEW S, NEW i \in 1 .. Len(S), NEW t, NEW before, NEW first2,
         BlockGone(first, S, nx, cb, V, first2, nx2, i, t, before)
  PROVE  /\ IsList(first2, RemoveAt(S, i), nx2, cb, V \ BlockOf(cb, S[i]))
         /\ HandOk(S[i], nx2, cb, BlockOf(cb, S[i]))
         /\ \A p \in Page : p \notin V => nx2[p] = nx[p]
<1> USE DEF BlockGone
<1> DEFINE T == RemoveAt(S, i)
           W == BlockOf(cb, S[i])
           up(k) == IF k < i THEN k ELSE k + 1
<1>1. S \in Seq(Page) /\ Len(S) \in Nat /\ \A k \in 1 .. Len(S) : S[k] \in Page
  BY DEF IsList
<1>2. /\ T \in Seq(Page) /\ Len(T) = Len(S) - 1
      /\ \A k \in 1 .. i - 1 : T[k] = S[k]
      /\ \A k \in i .. Len(S) - 1 : T[k] = S[k + 1]
  BY <1>1, Removed
<1> HIDE DEF T
<1>3. ASSUME NEW k \in 1 .. Len(T)
      PROVE  up(k) \in 1 .. Len(S) /\ up(k) # i /\ T[k] = S[up(k)] /\ k \in Nat
  BY <1>1, <1>2
<1>4. ASSUME NEW k \in 1 .. Len(S), k # i PROVE \E l \in 1 .. Len(T) : k = up(l)
  <2>1. CASE k < i
    <3>1. k \in 1 .. Len(T) /\ k = up(k)
      BY <1>1, <1>2, <2>1
    <3>. QED BY <3>1
  <2>2. CASE k > i
    <3>1. k - 1 \in 1 .. Len(T) /\ k = up(k - 1)
      BY <1>1, <1>2, <2>2
    <3>. QED BY <3>1
  <2>. QED BY <1>4, <2>1, <2>2
<1>5. ASSUME NEW k \in 1 .. Len(S)
      PROVE  /\ TailOf(cb, S[k]) \in BlockOf(cb, S[k]) /\ S[k] \in BlockOf(cb, S[k])
             /\ \A p \in BlockOf(cb, S[k]) : p \in V
             /\ TailOf(cb, S[k]) \in Page /\ TailOf(cb, S[k]) # NULL
  <2>1. TailOf(cb, S[k]) \in Page
    BY DEF IsList
  <2>2. TailOf(cb, S[k]) # NULL
    BY <2>1 DEF Page, NULL
  <2>3. TailOf(cb, S[k]) \in BlockOf(cb, S[k]) /\ S[k] \in BlockOf(cb, S[k])
    BY <1>1, TailAfter DEF BlockOf
  <2>4. \A p \in BlockOf(cb, S[k]) : p \in V
    BY DEF IsList
  <2>. QED BY <2>1, <2>2, <2>3, <2>4
<1>6. ASSUME NEW k \in 1 .. Len(S), NEW l \in 1 .. Len(S),
             NEW p \in BlockOf(cb, S[k]), p \in BlockOf(cb, S[l])
      PROVE  k = l
  BY <1>6 DEF IsList
<1>7. \A k \in 1 .. Len(S) : nx[TailOf(cb, S[k])] = IF k = Len(S) THEN NULL ELSE S[k + 1]
  BY DEF IsList
<1>8. before # NULL <=> i # 1
  <2>1. i # 1 => i - 1 \in 1 .. Len(S)
    BY <1>1
  <2>. QED BY <1>5, <2>1
<1>9. nx[t] = IF i = Len(S) THEN NULL ELSE S[i + 1]
  BY <1>7
<1>10. first2 = IF T = <<>> THEN NULL ELSE T[1]
  <2>1. CASE i = 1
    <3>1. first2 = nx[t]
      BY <1>8, <2>1
    <3>2. CASE Len(S) = 1
      <4>1. T = <<>>
        BY <1>2, <3>2
      <4>. QED BY <1>9, <2>1, <3>1, <3>2, <4>1
    <3>3. CASE Len(S) # 1
      <4>1. 1 \in i .. Len(S) - 1 /\ T # <<>>
        BY <1>1, <1>2, <2>1, <3>3
      <4>2. T[1] = S[1 + 1]
        BY <1>2, <4>1
      <4>. QED BY <1>9, <2>1, <3>1, <3>3, <4>1, <4>2
    <3>. QED BY <3>2, <3>3
  <2>2. CASE i # 1
    <3>1. first2 = first /\ first = S[1]
      BY <1>1, <1>8, <2>2 DEF IsList
    <3>2. 1 \in 1 .. i - 1 /\ T # <<>>
      BY <1>1, <1>2, <2>2
    <3>. QED BY <1>2, <3>1, <3>2
  <2>. QED BY <2>1, <2>2
<1>11. ASSUME NEW k \in 1 .. Len(T)
       PROVE  /\ TailOf(cb, T[k]) \in Page
              /\ nx2[TailOf(cb, T[k])] = IF k = Len(T) THEN NULL ELSE T[k + 1]
  <2> DEFINE m == up(k)
             q == TailOf(cb, S[m])
  <2>1. m \in 1 .. Len(S) /\ m # i /\ T[k] = S[m] /\ k \in Nat
    BY <1>3
  <2>2. q \in Page /\ q # NULL
    BY <1>5, <2>1
  <2>3. q # t
    BY <1>5, <1>6, <2>1
  <2>4. CASE m = i - 1
    <3>1. q = before /\ k = i - 1
      BY <1>1, <2>1, <2>4
    <3>2. nx2[q] = nx[t]
      BY <2>2, <2>3, <3>1
    <3>3. k = Len(T) <=> i = Len(S)
      BY <1>1, <1>2, <3>1
    <3>4. k # Len(T) => k + 1 = i /\ i \in i .. Len(S) - 1
      BY <1>1, <1>2, <3>1
    <3>. QED BY <1>2, <1>9, <2>1, <2>2, <3>2, <3>3, <3>4
  <2>5. CASE m # i - 1
    <3>1. q # before
      <4>1. i # 1 => i - 1 \in 1 .. Len(S)
        BY <1>1
      <4>2. i # 1 => TailOf(cb, S[i - 1]) # q
        BY <1>5, <1>6, <2>1, <2>5, <4>1
      <4>. QED BY <2>2, <4>2
    <3>2. nx2[q] = nx[q]
      BY <2>2, <2>3, <3>1
    <3>3. nx[q] = IF m = Len(S) THEN NULL ELSE S[m + 1]
      BY <1>7, <2>1
    <3>4. m = Len(S) <=> k = Len(T)
      BY <1>1, <1>2, <2>1, <2>5
    <3>5. k # Len(T) => k + 1 \in 1 .. Len(T) /\ up(k + 1) = m + 1
      BY <1>1, <1>2, <2>1, <2>5
    <3>6. k # Len(T) => T[k + 1] = S[m + 1]
      BY <1>3, <3>5
    <3> HIDE DEF m
    <3>. QED BY <2>1, <2>2, <3>2, <3>3, <3>4, <3>6
  <2>. QED BY <2>4, <2>5
<1>12. ASSUME NEW k \in 1 .. Len(S), NEW p \in S[k] .. TailOf(cb, S[k]) - 1
       PROVE  nx2[p] = p + 1
  <2>1. nx[p] = p + 1
    BY DEF IsList
  <2>2. p \in BlockOf(cb, S[k]) /\ p # TailOf(cb, S[k])
    BY <1>1, TailAfter DEF BlockOf
  <2>3. p \in Page
    BY <1>5, <2>2
  <2>4. p # t
    BY <1>5, <1>6, <2>2
  <2>5. p # before
    <3>1. i # 1 => i - 1 \in 1 .. Len(S)
      BY <1>1
    <3>2. i # 1 => p # TailOf(cb, S[i - 1])
      BY <1>5, <1>6, <2>2, <3>1
    <3>3. p # NULL
      BY <2>3 DEF Page, NULL
    <3>. QED BY <3>2, <3>3
  <2>. QED BY <2>1, <2>3, <2>4, <2>5
<1>13. ASSUME NEW k \in 1 .. Len(T), NEW p \in BlockOf(cb, T[k]) PROVE p \in V \ W
  BY <1>3, <1>5, <1>6
<1>14. ASSUME NEW p \in V \ W PROVE \E k \in 1 .. Len(T) : p \in BlockOf(cb, T[k])
  <2>1. PICK k \in 1 .. Len(S) : p \in BlockOf(cb, S[k])
    BY DEF IsList
  <2>2. k # i
    BY <2>1
  <2>3. PICK l \in 1 .. Len(T) : k = up(l)
    BY <1>4, <2>2
  <2>. QED BY <1>3, <2>1, <2>3
<1>15. ASSUME NEW k \in 1 .. Len(T), NEW l \in 1 .. Len(T),
              NEW p \in BlockOf(cb, T[k]), p \in BlockOf(cb, T[l])
       PROVE  k = l
  <2>1. /\ up(k) \in 1 .. Len(S) /\ T[k] = S[up(k)] /\ k \in Nat
        /\ up(l) \in 1 .. Len(S) /\ T[l] = S[up(l)] /\ l \in Nat /\ i \in Nat
    BY <1>3
  <2>2. up(k) = up(l)
    <3> HIDE DEF up
    <3>. QED BY <1>6, <1>15, <2>1
  <2>. QED BY <2>1, <2>2
<1>16. ASSUME NEW k \in 1 .. Len(T), NEW p \in T[k] .. TailOf(cb, T[k]) - 1 PROVE nx2[p] = p + 1
  BY <1>3, <1>12
<1>17. ASSUME NEW p \in Page, p \notin V PROVE nx2[p] = nx[p]
  <2>1. p # t /\ p # NULL
    BY <1>5, <1>17 DEF Page, NULL
  <2>2. i # 1 => i - 1 \in 1 .. Len(S)
    BY <1>1
  <2>3. p # before
    BY <1>5, <1>17, <2>1, <2>2
  <2>. QED BY <2>1, <2>3
<1>18. HandOk(S[i], nx2, cb, W)
  BY <1>1, <1>5, <1>12 DEF HandOk
<1>19. IsList(first2, T, nx2, cb, V \ W)
  <2> HIDE DEF W, up
  <2>. QED BY <1>2, <1>10, <1>11, <1>13, <1>14, <1>15, <1>16 DEF IsList
<1>. QED BY <1>17, <1>18, <1>19 DEF T
------------------------------------------------------------------------------
(* Addresses and sizes.                                                     *)

\* A multiple of d: its quotient, and no rest.
LEMMA Multiple ==
  ASSUME NEW q \in Nat, NEW d \in Nat \ {0}
  PROVE  /\ q * d \in Nat /\ d * q = q * d
         /\ (q * d) \div d = q /\ (q * d) % d = 0
<1>1. q * d \in Nat /\ d * q = q * d
  OBVIOUS
<1> DEFINE a == q * d
<1>2. a \in Nat /\ d * q <= a /\ a < d * q + d
  BY <1>1
<1> HIDE DEF a
<1>3. a \div d = q
  BY <1>2, Quotient
<1>4. a = d * (a \div d) + (a % d) /\ a % d \in 0 .. d - 1
  BY <1>2, Division
<1>5. a % d = 0
  <2> DEFINE r == a % d
  <2>1. a = d * q + r /\ r \in 0 .. d - 1
    BY <1>3, <1>4
  <2>2. d * q = a
    BY <1>1 DEF a
  <2> HIDE DEF r
  <2>3. r = 0
    BY <1>2, <2>1, <2>2
  <2>. QED BY <2>3 DEF r
<1>. QED BY <1>1, <1>3, <1>5 DEF a

\* A number without a rest is a multiple.
LEMMA NoRest ==
  ASSUME NEW a \in Nat, NEW d \in Nat \ {0}, a % d = 0
  PROVE  a \div d \in Nat /\ a = (a \div d) * d
<1>1. a \div d \in Nat /\ a = d * (a \div d) + (a % d)
  BY Division
<1> DEFINE q == a \div d
<1>2. q \in Nat /\ a = d * q + 0
  BY <1>1
<1> HIDE DEF q
<1>3. a = q * d
  BY <1>2
<1>. QED BY <1>2, <1>3 DEF q

\* The quotient rounded up.
LEMMA Ceiling ==
  ASSUME NEW a \in Nat, NEW n \in Nat \ {0}
  PROVE  /\ CeilDiv(a, n) \in Nat
         /\ a <= CeilDiv(a, n) * n /\ CeilDiv(a, n) * n < a + n
<1> DEFINE x == a + n - 1
           q == x \div n
<1>1. x \in Nat
  OBVIOUS
<1> HIDE DEF x
<1>2. q \in Nat /\ x % n \in 0 .. n - 1 /\ x = n * q + (x % n)
  BY <1>1, Division
<1> DEFINE r == x % n
<1>3. r \in 0 .. n - 1 /\ x = n * q + r
  BY <1>2
<1> HIDE DEF q, r
<1>4. n * q \in Nat /\ q * n = n * q
  BY <1>2
<1>5. a <= q * n /\ q * n < a + n
  <2>1. x = a + n - 1
    BY DEF x
  <2> DEFINE m == n * q
  <2>2. m \in Nat /\ q * n = m /\ x = m + r
    BY <1>3, <1>4
  <2> HIDE DEF m
  <2>. QED BY <1>3, <2>1, <2>2
<1>6. CeilDiv(a, n) = q
  BY DEF CeilDiv, x, q
<1>. QED BY <1>2, <1>5, <1>6

\* The constants as numbers.
LEMMA Sizes ==
  /\ PageSize \in Nat \ {0} /\ \E k \in 1 .. 20 : PageSize = Power[k]
  /\ Header \in Nat /\ Header >= 1 /\ 2 * Header <= PageSize
  /\ FirstPage \in Nat /\ PageCount \in Nat /\ PageCount >= 1 /\ CpuCount \in Nat
<1>1. PICK k \in 1 .. 20 : PageSize = Power[k]
  BY PageAssumption
<1>2. PageSize = 2 * Power[k - 1] /\ Power[k - 1] \in Nat \ {0}
  BY <1>1, Powers
<1>3. PageSize \div 2 = Power[k - 1]
  <2> DEFINE h == Power[k - 1]
  <2>1. h \in Nat /\ PageSize = 2 * h
    BY <1>2
  <2> HIDE DEF h
  <2>2. PageSize \div 2 = h
    BY <2>1
  <2>. QED BY <2>2 DEF h
<1>4. Header \in 1 .. Power[k - 1]
  BY <1>3, PageAssumption
<1>. QED BY <1>1, <1>2, <1>4, PageAssumption, CountAssumption

\* Where pages start and end.
LEMMA Addresses ==
  ASSUME NEW p \in Page
  PROVE  /\ Start(p) \in Nat /\ End(p) \in Nat /\ Start(p) + PageSize = End(p)
         /\ Start(p) \in Address /\ End(p) \in Address
         /\ Start(1) <= Start(p) /\ End(p) <= End(PageCount)
         /\ \A q \in Page : p < q => End(p) <= Start(q)
         /\ \A q \in Page : p <= q => Start(p) <= Start(q) /\ End(p) <= End(q)
         /\ \A q \in Page : p <= q => End(q) = Start(p) + (q - p + 1) * PageSize
         /\ FirstNumber(p) = FirstPage + p - 1
<1>1. p \in 1 .. PageCount /\ PageSize \in Nat \ {0} /\ FirstPage \in Nat /\ PageCount \in Nat
  BY Sizes DEF Page
<1> DEFINE n(q) == FirstPage + q - 1
           A(q) == PageSize * n(q)
<1>2. \A q \in 1 .. PageCount + 1 : n(q) \in Nat /\ A(q) \in Nat /\ Start(q) = A(q)
  BY <1>1 DEF Start
<1>3. \A x, y \in Nat : x < y => PageSize * x + PageSize <= PageSize * y
  BY <1>1, Multiples
<1>4. \A q, r \in 1 .. PageCount + 1 : q < r => A(q) + PageSize <= A(r)
  <2>1. \A q, r \in 1 .. PageCount + 1 : q < r => n(q) < n(r)
    BY <1>1
  <2>. QED BY <1>2, <1>3, <2>1
<1>5. p + 1 \in 1 .. PageCount + 1 /\ 1 \in 1 .. PageCount + 1 /\ PageCount + 1 \in 1 .. PageCount + 1
      /\ PageCount \in 1 .. PageCount + 1 /\ p \in 1 .. PageCount + 1
  BY <1>1
<1>6. ASSUME NEW q \in Page, p <= q PROVE End(q) = Start(p) + (q - p + 1) * PageSize
  <2>1. q \in 1 .. PageCount + 1 /\ q \in Nat
    BY <1>1 DEF Page
  <2>2. A(q) = A(p) + PageSize * (q - p)
    BY <1>1, <2>1
  <2>3. (q - p + 1) * PageSize = PageSize * (q - p) + PageSize
    BY <1>1, <2>1
  <2>4. PageSize * (q - p) \in Int
    BY <1>1, <2>1
  <2>5. Start(q) = A(q) /\ Start(p) = A(p) /\ A(p) \in Nat
    BY <1>2, <1>5, <2>1
  <2> HIDE DEF A
  <2>. QED BY <1>1, <2>2, <2>3, <2>4, <2>5 DEF End
<1>7. FirstNumber(p) = FirstPage + p - 1
  <2>1. Start(p) = n(p) * PageSize /\ n(p) \in Nat
    BY <1>1, <1>2, <1>5 DEF Start
  <2> HIDE DEF n
  <2>2. Start(p) \div PageSize = n(p)
    BY <1>1, <2>1, Multiple
  <2>. QED BY <2>2 DEF FirstNumber, n
<1> HIDE DEF A, n
<1>8. \A q \in 1 .. PageCount + 1 : Start(q) \in Nat
  BY <1>2
<1>9. \A q, r \in 1 .. PageCount + 1 : q < r => Start(q) + PageSize <= Start(r)
  BY <1>2, <1>4
<1>10. \A q \in Page : q \in 1 .. PageCount + 1 /\ q \in Nat /\ 1 <= q /\ q <= PageCount
  BY <1>1 DEF Page
<1>11. \A q \in 1 .. PageCount + 1 : End(q) \in Nat /\ End(q) = Start(q) + PageSize
  BY <1>1, <1>8 DEF End
<1>12. End(p) <= Start(PageCount + 1) /\ p < PageCount + 1
  BY <1>1, <1>5, <1>9, <1>11
<1>13. Start(p) \in Address /\ End(p) \in Address
  BY <1>1, <1>5, <1>8, <1>11, <1>12 DEF Address
<1>14. ASSUME NEW q \in Page, NEW r \in Page, q <= r PROVE Start(q) <= Start(r) /\ End(q) <= End(r)
  <2>1. CASE q = r
    BY <1>8, <1>10, <1>11, <2>1
  <2>2. CASE q < r
    BY <1>1, <1>8, <1>9, <1>10, <1>11, <2>2
  <2>. QED BY <1>10, <1>14, <2>1, <2>2
<1>15. 1 \in Page /\ PageCount \in Page
  BY <1>1, Sizes DEF Page
<1>16. Start(1) <= Start(p) /\ End(p) <= End(PageCount)
  BY <1>10, <1>14, <1>15
<1>17. \A q \in Page : p < q => End(p) <= Start(q)
  BY <1>9, <1>10, <1>11
<1>18. Start(p) \in Nat /\ End(p) \in Nat /\ Start(p) + PageSize = End(p)
  BY <1>5, <1>8, <1>11
<1>. QED BY <1>6, <1>7, <1>13, <1>14, <1>16, <1>17, <1>18

\* memserver_delivery's aligned pages: they are of the block and their first
\* number is a multiple of n.
LEMMA Fitting ==
  ASSUME combpage \in Counts, NEW h \in Page, NEW n \in Nat \ {0},
         TailPage(h) \in Page, h <= TailPage(h), Fits(h, n)
  PROVE  /\ Aligned(h, n) \in Page /\ h <= Aligned(h, n)
         /\ Aligned(h, n) + n - 1 <= TailPage(h)
         /\ FirstNumber(Aligned(h, n)) % n = 0
<1> DEFINE t == TailPage(h)
           f == FirstNumber(h)
           l == FirstNumber(t) + 1
           r == f % n
           g == (n - r) % n
           c == CeilDiv(f, n)
           d == l \div n
<1>1. h \in Nat /\ t \in Nat /\ h >= 1 /\ t <= PageCount
  BY Sizes DEF Page
<1>2. f = FirstPage + h - 1 /\ l = f + (t - h) + 1 /\ f \in Nat /\ l \in Nat
  BY <1>1, Addresses, Sizes
<1>3. c < d
  BY DEF Fits
<1> DEFINE q == f \div n
<1>4. q \in Nat /\ r \in 0 .. n - 1 /\ f = n * q + r
  <2>1. f \div n \in Nat /\ f % n \in 0 .. n - 1 /\ f = n * (f \div n) + (f % n)
    BY <1>2, Division
  <2>. QED BY <2>1
<1>5. c \in Nat /\ f <= c * n /\ c * n < f + n
  BY <1>2, Ceiling
<1>6. d \in Nat /\ n * d <= l
  <2>1. l \div n \in Nat /\ l % n \in 0 .. n - 1 /\ l = n * (l \div n) + (l % n)
    BY <1>2, Division
  <2> DEFINE x == n * (l \div n)
             y == l % n
  <2>2. x \in Nat /\ y \in Nat /\ l = x + y
    BY <2>1
  <2> HIDE DEF x, y, l
  <2>3. x <= l
    BY <2>2
  <2>. QED BY <2>1, <2>3 DEF x
<1>7. g = IF r = 0 THEN 0 ELSE n - r
  <2> HIDE DEF r
  <2>1. CASE r = 0
    <3>1. n % n = 0
      <4>1. (1 * n) % n = 0 /\ 1 * n = n
        BY Multiple
      <4>. QED BY <4>1
    <3>. QED BY <2>1, <3>1
  <2>2. CASE r # 0
    <3>1. n - r \in 1 .. n - 1
      BY <1>4, <2>2
    <3>2. \A m \in 1 .. n - 1 : m % n = m
      OBVIOUS
    <3>. QED BY <2>2, <3>1, <3>2
  <2>. QED BY <2>1, <2>2
<1> HIDE DEF q, r, g, c, d
<1>8. f + g = c * n
  <2>1. n * c = c * n /\ n * c \in Nat /\ n * q \in Nat
    BY <1>4, <1>5
  <2>2. CASE r = 0
    <3>1. f = n * q /\ g = 0
      BY <1>4, <1>7, <2>1, <2>2
    <3>2. ~ (c < q) /\ ~ (q < c)
      <4>1. c < q => n * c + n <= n * q
        BY <1>4, <1>5, Multiples
      <4>2. q < c => n * q + n <= n * c
        BY <1>4, <1>5, Multiples
      <4>. QED BY <1>5, <2>1, <3>1, <4>1, <4>2
    <3>3. c = q
      BY <1>4, <1>5, <3>2
    <3>. QED BY <2>1, <3>1, <3>3
  <2>3. CASE r # 0
    <3>1. n * (q + 1) = n * q + n /\ q + 1 \in Nat
      BY <1>4
    <3>2. f + g = n * q + n
      <4> DEFINE x == n * q
      <4>1. x \in Nat /\ f = x + r /\ g = n - r
        BY <1>4, <1>7, <2>1, <2>3
      <4> HIDE DEF x, f
      <4>2. f + g = x + n
        BY <1>4, <4>1
      <4>. QED BY <4>2 DEF x
    <3>3. ~ (c < q + 1)
      <4>1. c <= q => n * c <= n * q
        <5>1. c < q => n * c + n <= n * q
          BY <1>4, <1>5, Multiples
        <5>. QED BY <1>4, <1>5, <2>1, <5>1
      <4>2. n * q < f
        <5> DEFINE x == n * q
        <5>1. x \in Nat /\ f = x + r /\ r > 0
          BY <1>4, <2>1, <2>3
        <5> HIDE DEF x, f
        <5>2. x < f
          BY <1>4, <5>1
        <5>. QED BY <5>2 DEF x
      <4>3. ~ (n * c <= n * q)
        BY <1>2, <1>5, <2>1, <4>2
      <4>. QED BY <1>4, <1>5, <4>1, <4>3
    <3>4. ~ (q + 1 < c)
      <4>1. q + 1 < c => n * (q + 1) + n <= n * c
        BY <1>4, <1>5, <3>1, Multiples
      <4>2. n * c < n * (q + 1) + n
        <5> DEFINE x == n * c
                   y == n * (q + 1)
        <5>1. x \in Nat /\ y \in Nat /\ x < f + n /\ f + g = y /\ g >= 0 /\ g \in Int
          BY <1>4, <1>5, <1>7, <2>1, <3>1, <3>2
        <5> HIDE DEF x, y, f
        <5>2. f \in Nat
          BY <1>2 DEF f
        <5>3. x < y + n
          BY <5>1, <5>2
        <5>. QED BY <5>3 DEF x, y
      <4>. QED BY <2>1, <3>1, <4>1, <4>2
    <3>5. c = q + 1
      BY <1>4, <1>5, <3>3, <3>4
    <3>. QED BY <2>1, <3>1, <3>2, <3>5
  <2>. QED BY <2>2, <2>3
<1>9. c * n + n <= l
  <2>1. n * c + n <= n * d
    BY <1>3, <1>5, <1>6, Multiples
  <2>2. n * c = c * n /\ n * c \in Nat /\ n * d \in Nat
    BY <1>5, <1>6
  <2>. QED BY <1>2, <1>6, <2>1, <2>2
<1>10. Aligned(h, n) = h + g
  BY DEF Aligned, g, r
<1>11. g \in Nat
  BY <1>4, <1>7
<1>12. h + g + n - 1 <= t
  <2> DEFINE x == c * n
  <2>1. x \in Nat /\ f + g = x /\ x + n <= l
    BY <1>5, <1>8, <1>9
  <2> HIDE DEF x
  <2>. QED BY <1>1, <1>2, <1>11, <2>1
<1>13. h + g \in Page
  BY <1>1, <1>11, <1>12, Sizes DEF Page
<1>14. FirstNumber(h + g) = f + g
  <2>1. FirstNumber(h + g) = FirstPage + (h + g) - 1
    BY <1>13, Addresses
  <2>. QED BY <1>1, <1>2, <1>11, <2>1, Sizes
<1>15. (c * n) % n = 0
  BY <1>5, Multiple
<1>. QED BY <1>1, <1>8, <1>10, <1>11, <1>12, <1>13, <1>14, <1>15

\* What kalloc asks for is a power of two,
LEMMA RealSizes ==
  ASSUME NEW bytes \in 1 .. MaxSize
  PROVE  \E k \in 0 .. 24 : RealSize(bytes) = Power[k]
<1> DEFINE I == {k \in 0 .. 24 : bytes <= Power[k]}
           Q(k) == bytes <= Power[k] /\ (k = 0 \/ Power[k - 1] < bytes)
<1>1. /\ MaxSize \in 0 .. Power[24] /\ Power[24] \in Nat
      /\ \A k \in 0 .. 24 : Power[k] \in Nat
  BY SizeAssumption, Powers
<1>2. 24 \in I /\ I \in SUBSET Nat
  BY <1>1
<1>3. PICK m \in I : \A n \in I : m <= n
  <2> HIDE DEF I
  <2>. QED BY <1>2, Least
<1>4. m \in 0 .. 24 /\ Q(m)
  <2>1. m = 0 \/ (m - 1 \in 0 .. 24 /\ m - 1 \notin I)
    BY <1>3
  <2>. QED BY <1>1, <1>3, <2>1
<1> HIDE DEF Q
<1>5. (CHOOSE k \in 0 .. 24 : Q(k)) \in 0 .. 24
  BY <1>4
<1>. QED BY <1>5 DEF RealSize, Q

\* so it is whole pages if it is not less than a page, and divides a page an
\* even number of times if it is.
LEMMA SizeOfPower ==
  ASSUME NEW k \in 0 .. 24, NEW s, s = Power[k]
  PROVE  /\ s \in Nat \ {0}
         /\ s >= PageSize => Pages(s) \in Nat \ {0} /\ s = Pages(s) * PageSize
         /\ s < PageSize => /\ Pages(s) = 0
                            /\ \E m \in Nat \ {0} : PageSize = (2 * m) * s
<1>1. s \in Nat \ {0} /\ PageSize \in Nat \ {0}
  BY Powers, Sizes
<1>2. PICK j \in 1 .. 20 : PageSize = Power[j]
  BY Sizes
<1>3. CASE j = k
  <2>1. s = PageSize /\ s = 1 * PageSize /\ (1 * PageSize) \div PageSize = 1
    BY <1>1, <1>2, <1>3, Multiple
  <2>. QED BY <1>1, <2>1 DEF Pages
<1>4. CASE j < k
  <2>1. PICK l \in Nat \ {0} : s = (2 * l) * PageSize
    BY <1>2, <1>4, PowersDivide
  <2> DEFINE m == 2 * l
  <2>2. m \in Nat \ {0} /\ s = m * PageSize
    BY <2>1
  <2> HIDE DEF m
  <2>3. s \div PageSize = m
    BY <1>1, <2>2, Multiple
  <2>4. m * PageSize >= PageSize
    BY <1>1, <2>2
  <2>. QED BY <1>1, <2>2, <2>3, <2>4 DEF Pages
<1>5. CASE k < j
  <2>1. PICK l \in Nat \ {0} : PageSize = (2 * l) * s
    BY <1>2, <1>5, PowersDivide
  <2>2. s < PageSize
    <3> DEFINE m == l * s
    <3>1. m \in Nat /\ m >= s /\ (2 * l) * s = m + m
      BY <1>1
    <3> HIDE DEF m
    <3>. QED BY <1>1, <2>1, <3>1
  <2>3. s \div PageSize = 0
    BY <1>1, <2>2
  <2>. QED BY <1>1, <2>1, <2>2, <2>3 DEF Pages
<1>. QED BY <1>3, <1>4, <1>5

\* A block whose first number is a multiple of n starts at a multiple of its
\* size.
LEMMA BlockAligned ==
  ASSUME NEW b \in Page, NEW n \in Nat \ {0}, FirstNumber(b) % n = 0
  PROVE  Start(b) % (n * PageSize) = 0 /\ n * PageSize \in Nat \ {0}
<1>1. FirstNumber(b) = FirstPage + b - 1 /\ FirstNumber(b) \in Nat /\ PageSize \in Nat \ {0}
  BY Addresses, Sizes DEF Page
<1>2. Start(b) = FirstNumber(b) * PageSize
  BY <1>1 DEF Start
<1> DEFINE q == FirstNumber(b) \div n
           u == n * PageSize
<1>3. q \in Nat /\ FirstNumber(b) = q * n
  BY <1>1, NoRest
<1>4. u \in Nat \ {0}
  BY <1>1
<1>5. Start(b) = q * u
  <2> HIDE DEF q
  <2>1. (q * n) * PageSize = q * (n * PageSize)
    BY <1>1, <1>3
  <2>. QED BY <1>2, <1>3, <2>1
<1> HIDE DEF q, u
<1>6. Start(b) % u = 0
  BY <1>3, <1>4, <1>5, Multiple
<1>. QED BY <1>4, <1>6 DEF u
------------------------------------------------------------------------------
(* The objects of a page.                                                   *)

Pair == Nat \X Nat

\* The list L of a page p: smaller than a page, each aligned to its size, and
\* with its header behind the end of the one before.
Fine(p, o) == /\ Start(p) + Header <= o[1] /\ o[1] < o[2] /\ o[2] <= End(p)
              /\ o[1] % (o[2] - o[1]) = 0 /\ o[2] - o[1] < PageSize
PageOk(p, L) == /\ L \in Seq(Pair)
                /\ \A i \in 1 .. Len(L) : Fine(p, L[i])
                /\ \A i, j \in 1 .. Len(L) : i < j => L[i][2] + Header <= L[j][1]

\* Its elements are numbers.
LEMMA PageNumbers ==
  ASSUME NEW p \in Page, NEW L, PageOk(p, L)
  PROVE  /\ L \in Seq(Pair) /\ Len(L) \in Nat
         /\ \A i \in 1 .. Len(L) : L[i] \in Pair /\ L[i][1] \in Nat /\ L[i][2] \in Nat
  BY DEF PageOk, Pair

\* The objects start at different addresses.
LEMMA StartsDiffer ==
  ASSUME NEW p \in Page, NEW L, PageOk(p, L),
         NEW i \in 1 .. Len(L), NEW j \in 1 .. Len(L), L[i][1] = L[j][1]
  PROVE  i = j
<1>1. /\ L[i][1] \in Nat /\ L[i][2] \in Nat /\ L[j][1] \in Nat /\ L[j][2] \in Nat
  BY PageNumbers
<1>2. L[i][1] < L[i][2] /\ L[j][1] < L[j][2]
  BY DEF PageOk, Fine
<1>3. /\ i < j => L[i][2] + Header <= L[j][1]
      /\ j < i => L[j][2] + Header <= L[i][1]
  BY DEF PageOk
<1>4. ~ (i < j) /\ ~ (j < i)
  BY <1>1, <1>2, <1>3, Sizes, SMTT(30)
<1>. QED BY <1>4

\* Where an object goes in a gap: it keeps to the order, to its size and page.
LEMMA Placed ==
  ASSUME NEW p \in Page, PageOk(p, objects[p]), NEW s \in Nat \ {0}, s < PageSize,
         NEW i \in Gaps(p, s)
  PROVE  LET L == objects[p]
             a == Place(p, i, s)
         IN /\ a \in Nat /\ Fine(p, <<a, a + s>>)
            /\ \A k \in 1 .. Len(L) : k < i => L[k][2] + Header <= a
            /\ \A k \in 1 .. Len(L) : i <= k => a + s + Header <= L[k][1]
<1> DEFINE L == objects[p]
           a == Place(p, i, s)
           g == GapStart(p, i)
           e == GapEnd(p, i)
           q == CeilDiv(g + Header, s)
<1>1. L \in Seq(Pair) /\ Len(L) \in Nat /\ \A k \in 1 .. Len(L) : L[k] \in Pair /\ L[k][1] \in Nat /\ L[k][2] \in Nat
  BY PageNumbers
<1>2. i \in 1 .. Len(L) + 1 /\ a \div s < e \div s
  BY DEF Gaps
<1>3. Start(p) \in Nat /\ End(p) \in Nat /\ Header \in Nat /\ Header >= 1 /\ PageSize \in Nat
  BY Addresses, Sizes
<1>4. \A k \in 1 .. Len(L) : Start(p) + Header <= L[k][1] /\ L[k][1] < L[k][2] /\ L[k][2] <= End(p)
  BY DEF PageOk, Fine
<1>5. \A k, l \in 1 .. Len(L) : k < l => L[k][2] + Header <= L[l][1]
  BY DEF PageOk
<1>6. g \in Nat /\ Start(p) <= g /\ \A k \in 1 .. Len(L) : k < i => L[k][2] <= g
  <2>1. CASE i = 1
    BY <1>1, <1>3, <2>1 DEF GapStart
  <2>2. CASE i # 1
    <3>1. i - 1 \in 1 .. Len(L) /\ g = L[i - 1][2]
      BY <1>1, <1>2, <2>2 DEF GapStart
    <3>2. ASSUME NEW k \in 1 .. Len(L), k < i PROVE L[k][2] <= L[i - 1][2]
      <4>1. CASE k = i - 1
        BY <1>1, <3>1, <4>1
      <4>2. CASE k # i - 1
        <5>1. k < i - 1
          <6>1. i \in Int /\ k \in Int
            BY <1>1, <1>2
          <6>. QED BY <3>2, <4>2, <6>1
        <5>2. L[k][2] + Header <= L[i - 1][1] /\ L[i - 1][1] < L[i - 1][2]
          BY <1>4, <1>5, <3>1, <5>1
        <5>3. L[k][2] \in Nat /\ L[i - 1][1] \in Nat /\ L[i - 1][2] \in Nat
          BY <1>1, <3>1
        <5>4. \A x, y, z \in Nat : x + Header <= y /\ y < z => x <= z
          BY <1>3
        <5>. QED BY <5>2, <5>3, <5>4
      <4>. QED BY <4>1, <4>2
    <3>3. g \in Nat /\ L[i - 1][1] \in Nat /\ Start(p) + Header <= L[i - 1][1] /\ L[i - 1][1] < g
      BY <1>1, <1>4, <3>1
    <3>. QED BY <1>3, <3>1, <3>2, <3>3
  <2>. QED BY <2>1, <2>2
<1>7. e \in Nat /\ e <= End(p) /\ \A k \in 1 .. Len(L) : i <= k => e + Header <= L[k][1]
  <2>1. CASE i > Len(L)
    BY <1>1, <1>2, <1>3, <2>1 DEF GapEnd
  <2>2. CASE ~ (i > Len(L))
    <3>1. i \in 1 .. Len(L) /\ e = L[i][1] - Header
      BY <1>1, <1>2, <2>2 DEF GapEnd
    <3>2. /\ L[i][1] \in Nat /\ L[i][2] \in Nat /\ Start(p) + Header <= L[i][1]
          /\ L[i][1] < L[i][2] /\ L[i][2] <= End(p)
      BY <1>1, <1>4, <3>1
    <3>3. ASSUME NEW k \in 1 .. Len(L), i <= k PROVE L[i][1] <= L[k][1]
      <4>1. CASE i = k
        BY <3>2, <4>1
      <4>2. CASE i # k
        <5>1. i < k
          BY <3>1, <3>3, <4>2
        <5>2. L[i][2] + Header <= L[k][1] /\ L[k][1] \in Nat
          BY <1>1, <1>5, <3>1, <5>1
        <5>3. \A x, y, z \in Nat : x < y /\ y + Header <= z => x <= z
          BY <1>3
        <5>. QED BY <3>2, <5>2, <5>3
      <4>. QED BY <4>1, <4>2
    <3>4. \A k \in 1 .. Len(L) : L[k][1] \in Nat
      BY <1>1
    <3>5. e \in Nat /\ e <= End(p) /\ e + Header = L[i][1]
      BY <1>3, <3>1, <3>2, SMTT(30)
    <3>. QED BY <3>3, <3>5
  <2>. QED BY <2>1, <2>2
<1>8. q \in Nat /\ g + Header <= q * s /\ a = q * s
  <2>1. g + Header \in Nat
    BY <1>3, <1>6
  <2>. QED BY <2>1, Ceiling DEF Place
<1> HIDE DEF L, g, e, q, a
<1>9. a \in Nat /\ g + Header <= a /\ a \div s = q /\ a % s = 0
  BY <1>8, Multiple
<1>10. a + s <= e
  <2>1. e \div s \in Nat /\ e % s \in 0 .. s - 1 /\ e = s * (e \div s) + (e % s)
    BY <1>7, Division
  <2>2. q < e \div s
    BY <1>2, <1>9
  <2>3. s * q + s <= s * (e \div s)
    BY <1>8, <2>1, <2>2, Multiples
  <2>4. s * q = a
    BY <1>8
  <2> DEFINE x == s * (e \div s)
             y == e % s
  <2>5. x \in Nat /\ y \in Nat /\ e = x + y /\ a + s <= x
    BY <2>1, <2>3, <2>4
  <2> HIDE DEF x, y
  <2>. QED BY <1>7, <1>9, <2>5
<1>11. Fine(p, <<a, a + s>>)
  <2>1. (a + s) - a = s
    BY <1>9
  <2>2. Start(p) + Header <= a /\ a < a + s /\ a + s <= End(p)
    BY <1>3, <1>6, <1>7, <1>9, <1>10
  <2>. QED BY <1>9, <2>1, <2>2 DEF Fine
<1>12. ASSUME NEW k \in 1 .. Len(L), k < i PROVE L[k][2] + Header <= a
  <2>1. L[k][2] <= g /\ L[k][2] \in Nat
    BY <1>1, <1>6, <1>12
  <2>. QED BY <1>3, <1>6, <1>9, <2>1
<1>13. ASSUME NEW k \in 1 .. Len(L), i <= k PROVE a + s + Header <= L[k][1]
  <2>1. e + Header <= L[k][1] /\ L[k][1] \in Nat
    BY <1>1, <1>7, <1>13
  <2>2. \A x, y, z \in Nat : x <= y /\ y + Header <= z => x + Header <= z
    BY <1>3
  <2>3. a + s \in Nat
    BY <1>3, <1>9
  <2>. QED BY <1>7, <1>10, <2>1, <2>2, <2>3
<1>. QED BY <1>9, <1>11, <1>12, <1>13 DEF L, a

\* kalloc's new object: the list stays in order, has it besides what it had,
\* and no object starts where it starts.
LEMMA Delivered ==
  ASSUME NEW p \in Page, PageOk(p, objects[p]), NEW s \in Nat \ {0}, s < PageSize,
         Gaps(p, s) # {}
  PROVE  LET L == objects[p]
             o == Object(p, s)
             M == InsertAt(L, Min(Gaps(p, s)), o)
         IN /\ PageOk(p, M) /\ M # <<>>
            /\ o \in Pair /\ Fine(p, o)
            /\ \E i \in 1 .. Len(M) : M[i] = o
            /\ \A i \in 1 .. Len(L) : L[i][1] # o[1] /\ \E j \in 1 .. Len(M) : M[j] = L[i]
<1> DEFINE L == objects[p]
           o == Object(p, s)
           i == Min(Gaps(p, s))
           M == InsertAt(L, i, o)
           a == Place(p, i, s)
<1>1. L \in Seq(Pair) /\ Len(L) \in Nat /\ \A k \in 1 .. Len(L) : L[k] \in Pair /\ L[k][1] \in Nat /\ L[k][2] \in Nat
  BY PageNumbers
<1>2. i \in Gaps(p, s)
  <2>1. Gaps(p, s) \in SUBSET Nat
    BY <1>1 DEF Gaps
  <2>. QED BY <2>1, MinIs
<1>3. i \in 1 .. Len(L) + 1
  BY <1>2 DEF Gaps
<1>4. o = <<a, a + s>>
  BY DEF Object
<1> HIDE DEF i
<1>5. /\ a \in Nat /\ Fine(p, <<a, a + s>>)
      /\ \A k \in 1 .. Len(L) : k < i => L[k][2] + Header <= a
      /\ \A k \in 1 .. Len(L) : i <= k => a + s + Header <= L[k][1]
  BY <1>2, Placed
<1> HIDE DEF L, o, M, a
<1>6. o \in Pair /\ o[1] = a /\ o[2] = a + s /\ Fine(p, o)
  BY <1>4, <1>5 DEF Pair
<1>7. /\ M \in Seq(Pair) /\ Len(M) = Len(L) + 1 /\ M # <<>>
      /\ M[i] = o
      /\ \A k \in 1 .. i - 1 : M[k] = L[k]
      /\ \A k \in i + 1 .. Len(L) + 1 : M[k] = L[k - 1]
  BY <1>1, <1>3, <1>6, Inserted DEF M
<1>8. ASSUME NEW k \in 1 .. Len(M)
      PROVE  \/ k = i
             \/ k < i /\ k \in 1 .. Len(L) /\ M[k] = L[k]
             \/ k > i /\ k - 1 \in 1 .. Len(L) /\ k - 1 >= i /\ M[k] = L[k - 1]
  <2>1. i \in Nat /\ k \in Nat /\ k \in 1 .. Len(L) + 1
    BY <1>1, <1>3, <1>7
  <2>2. CASE k < i
    <3>1. k \in 1 .. i - 1 /\ k \in 1 .. Len(L)
      BY <1>1, <1>3, <2>1, <2>2
    <3>. QED BY <1>7, <2>2, <3>1
  <2>3. CASE k > i
    <3>1. k \in i + 1 .. Len(L) + 1 /\ k - 1 \in 1 .. Len(L) /\ k - 1 >= i
      BY <1>1, <1>3, <2>1, <2>3
    <3>. QED BY <1>7, <2>3, <3>1
  <2>. QED BY <2>1, <2>2, <2>3
<1>9. \A k \in 1 .. Len(L) : Fine(p, L[k])
  BY DEF PageOk, L
<1>10. \A k, l \in 1 .. Len(L) : k < l => L[k][2] + Header <= L[l][1]
  BY DEF PageOk, L
<1>11. \A k \in 1 .. Len(M) : Fine(p, M[k])
  BY <1>6, <1>7, <1>8, <1>9
<1>12. ASSUME NEW k \in 1 .. Len(M), NEW l \in 1 .. Len(M), k < l PROVE M[k][2] + Header <= M[l][1]
  <2>1. CASE k = i
    <3>1. l > i /\ l - 1 \in 1 .. Len(L) /\ l - 1 >= i /\ M[l] = L[l - 1]
      BY <1>3, <1>8, <1>12, <2>1
    <3>. QED BY <1>5, <1>6, <1>7, <2>1, <3>1
  <2>2. CASE l = i
    <3>1. k < i /\ k \in 1 .. Len(L) /\ M[k] = L[k]
      BY <1>3, <1>8, <1>12, <2>2
    <3>. QED BY <1>5, <1>6, <1>7, <2>2, <3>1
  <2>3. CASE k < i /\ k \in 1 .. Len(L) /\ M[k] = L[k] /\ l # i
    <3>1. CASE l < i /\ l \in 1 .. Len(L) /\ M[l] = L[l]
      BY <1>10, <1>12, <2>3, <3>1
    <3>2. CASE l > i /\ l - 1 \in 1 .. Len(L) /\ l - 1 >= i /\ M[l] = L[l - 1]
      <4>1. k < l - 1
        BY <1>3, <2>3, <3>2
      <4>. QED BY <1>10, <2>3, <3>2, <4>1
    <3>. QED BY <1>8, <2>3, <3>1, <3>2
  <2>4. CASE k > i /\ k - 1 \in 1 .. Len(L) /\ M[k] = L[k - 1] /\ l # i
    <3>1. l > i /\ l - 1 \in 1 .. Len(L) /\ M[l] = L[l - 1]
      BY <1>3, <1>8, <1>12, <2>4
    <3>2. k - 1 < l - 1
      BY <1>12
    <3>. QED BY <1>10, <2>4, <3>1, <3>2
  <2>. QED BY <1>8, <2>1, <2>2, <2>3, <2>4
<1>13. ASSUME NEW k \in 1 .. Len(L) PROVE L[k][1] # o[1] /\ \E j \in 1 .. Len(M) : M[j] = L[k]
  <2>1. L[k][1] < L[k][2] /\ L[k][1] \in Nat /\ L[k][2] \in Nat
    BY <1>1, <1>9 DEF Fine
  <2>2. CASE k < i
    <3>1. L[k][2] + Header <= a
      BY <1>5, <2>2
    <3>2. k \in 1 .. i - 1 /\ k \in 1 .. Len(M) /\ M[k] = L[k]
      BY <1>1, <1>3, <1>7, <2>2
    <3>3. o[1] = a /\ a \in Nat /\ Header \in Nat \ {0}
      BY <1>5, <1>6, Sizes
    <3>4. L[k][1] # o[1]
      BY <2>1, <3>1, <3>3
    <3>. QED BY <3>2, <3>4
  <2>3. CASE i <= k
    <3>1. a + s + Header <= L[k][1]
      BY <1>5, <2>3
    <3>2. k + 1 \in i + 1 .. Len(L) + 1 /\ k + 1 \in 1 .. Len(M) /\ (k + 1) - 1 = k
      BY <1>1, <1>3, <1>7, <2>3
    <3>3. M[k + 1] = L[k]
      BY <1>7, <3>2
    <3>4. o[1] = a /\ a \in Nat /\ s \in Nat \ {0} /\ Header \in Nat \ {0}
      BY <1>5, <1>6, Sizes
    <3>5. L[k][1] # o[1]
      BY <2>1, <3>1, <3>4
    <3>. QED BY <3>2, <3>3, <3>5
  <2>. QED BY <1>3, <2>2, <2>3
<1>14. i \in 1 .. Len(M)
  BY <1>1, <1>3, <1>7
<1>15. PageOk(p, M)
  BY <1>7, <1>11, <1>12 DEF PageOk
<1>. QED BY <1>6, <1>7, <1>13, <1>14, <1>15 DEF L, o, M, i

\* kfree's list without an object.
LEMMA TakenOut ==
  ASSUME NEW p \in Page, NEW L, PageOk(p, L), NEW i \in 1 .. Len(L)
  PROVE  LET M == RemoveAt(L, i)
         IN /\ PageOk(p, M) /\ M # L
            /\ \A k \in 1 .. Len(L) : k # i => \E j \in 1 .. Len(M) : M[j] = L[k]
<1> DEFINE M == RemoveAt(L, i)
           up(k) == IF k < i THEN k ELSE k + 1
<1>1. L \in Seq(Pair) /\ Len(L) \in Nat
  BY PageNumbers
<1>2. /\ M \in Seq(Pair) /\ Len(M) = Len(L) - 1
      /\ \A k \in 1 .. i - 1 : M[k] = L[k]
      /\ \A k \in i .. Len(L) - 1 : M[k] = L[k + 1]
  BY <1>1, Removed
<1> HIDE DEF M
<1>3. ASSUME NEW k \in 1 .. Len(M) PROVE up(k) \in 1 .. Len(L) /\ M[k] = L[up(k)] /\ k \in Nat
  BY <1>1, <1>2
<1>4. \A k, l \in 1 .. Len(M) : k < l => up(k) < up(l)
  BY <1>1, <1>2
<1>5. PageOk(p, M)
  <2> HIDE DEF up
  <2>. QED BY <1>2, <1>3, <1>4 DEF PageOk
<1>6. ASSUME NEW k \in 1 .. Len(L), k # i PROVE \E j \in 1 .. Len(M) : M[j] = L[k]
  <2>1. CASE k < i
    <3>1. k \in 1 .. i - 1 /\ k \in 1 .. Len(M)
      BY <1>1, <1>2, <2>1
    <3>. QED BY <1>2, <3>1
  <2>2. CASE k > i
    <3>1. k - 1 \in i .. Len(L) - 1 /\ k - 1 \in 1 .. Len(M) /\ (k - 1) + 1 = k
      BY <1>1, <1>2, <2>2
    <3>. QED BY <1>2, <3>1
  <2>. QED BY <1>6, <2>1, <2>2
<1>7. M # L
  BY <1>1, <1>2
<1>. QED BY <1>5, <1>6, <1>7 DEF M

\* It is the list without the object that starts at the address.
LEMMA WithoutIs ==
  ASSUME NEW p \in Page, PageOk(p, objects[p]), NEW a
  PROVE  /\ \A i \in 1 .. Len(objects[p]) :
              objects[p][i][1] = a => Without(p, a) = RemoveAt(objects[p], i)
         /\ (\A i \in 1 .. Len(objects[p]) : objects[p][i][1] # a) => Without(p, a) = objects[p]
         /\ \/ Without(p, a) = objects[p]
            \/ \E i \in 1 .. Len(objects[p]) :
                 objects[p][i][1] = a /\ Without(p, a) = RemoveAt(objects[p], i)
<1> DEFINE L == objects[p]
           I == {i \in 1 .. Len(L) : L[i][1] = a}
           m == IF I # {} THEN Min(I) ELSE 0
<1>1. Len(L) \in Nat /\ I \in SUBSET (1 .. Len(L))
  BY PageNumbers
<1>2. SelectInSeq(L, LAMBDA o : o[1] = a) = m
  BY DEF SelectInSeq
<1>3. /\ m \in 0 .. Len(L) /\ (m # 0 => m \in I) /\ (m = 0 => I = {})
  <2> HIDE DEF I
  <2>. QED BY <1>1, FirstMatch
<1>4. Without(p, a) = IF m = 0 THEN L ELSE RemoveAt(L, m)
  BY <1>2 DEF Without
<1> HIDE DEF m
<1>5. ASSUME NEW i \in 1 .. Len(L), L[i][1] = a PROVE Without(p, a) = RemoveAt(L, i)
  <2>1. m # 0 /\ m \in 1 .. Len(L) /\ L[m][1] = a
    BY <1>3, <1>5
  <2>2. m = i
    BY <1>5, <2>1, StartsDiffer
  <2>. QED BY <1>4, <2>1, <2>2
<1>6. (\A i \in 1 .. Len(L) : L[i][1] # a) => Without(p, a) = L
  BY <1>3, <1>4
<1>7. \/ Without(p, a) = L
      \/ \E i \in 1 .. Len(L) : L[i][1] = a /\ Without(p, a) = RemoveAt(L, i)
  BY <1>3, <1>4
<1>. QED BY <1>5, <1>6, <1>7

\* A page without objects has room for one that is smaller than a page.
LEMMA NewPageRoom ==
  ASSUME NEW p \in Page, objects[p] = <<>>, NEW k \in 0 .. 24, NEW s, s = Power[k], s < PageSize
  PROVE  Gaps(p, s) # {}
<1>1. s \in Nat \ {0} /\ \E m \in Nat \ {0} : PageSize = (2 * m) * s
  BY SizeOfPower
<1>2. PICK m \in Nat \ {0} : PageSize = (2 * m) * s
  BY <1>1
<1> DEFINE f == FirstPage + p - 1
           u == f * (2 * m)
           g == Start(p) + Header
           c == CeilDiv(g, s)
<1>3. f \in Nat /\ u \in Nat /\ Header \in Nat /\ 2 * Header <= PageSize /\ p \in Page
  <2>1. f \in Nat
    BY Sizes DEF Page
  <2>. QED BY <2>1, Sizes
<1>4. Start(p) = u * s
  <2>1. Start(p) = f * ((2 * m) * s)
    BY <1>2 DEF Start
  <2> HIDE DEF f
  <2>. QED BY <1>1, <1>3, <2>1
<1>5. Header <= m * s /\ m * s \in Nat /\ PageSize = m * s + m * s
  <2>1. m * s \in Nat /\ PageSize = m * s + m * s
    BY <1>1, <1>2
  <2> DEFINE x == m * s
  <2>2. x \in Nat /\ PageSize = x + x
    BY <2>1
  <2> HIDE DEF x
  <2>3. Header <= x
    BY <1>3, <2>2
  <2>. QED BY <2>1, <2>3 DEF x
<1> HIDE DEF u, f
<1>6. g \in Nat /\ g <= (u + m) * s
  <2>1. (u + m) * s = u * s + m * s /\ u * s \in Nat
    BY <1>1, <1>3, SMTT(30)
  <2>. QED BY <1>3, <1>4, <1>5, <2>1
<1>7. c \in Nat /\ g <= c * s /\ c * s < g + s
  BY <1>1, <1>6, Ceiling
<1> HIDE DEF g, c
<1>8. c <= u + m
  <2>1. u + m < c => s * (u + m) + s <= s * c
    <3>1. u + m \in Nat /\ s \in Nat
      BY <1>1, <1>3
    <3>. QED BY <1>7, <3>1, Multiples
  <2>2. s * (u + m) = (u + m) * s /\ (u + m) * s \in Nat /\ s * c = c * s /\ c * s \in Nat
    BY <1>1, <1>3, <1>7, SMTT(30)
  <2>3. ~ (u + m < c)
    BY <1>1, <1>6, <1>7, <2>1, <2>2, SMTT(30)
  <2>. QED BY <1>3, <1>7, <2>3
<1>9. End(p) = (u + 2 * m) * s
  <2>1. (u + 2 * m) * s = u * s + (2 * m) * s
    BY <1>1, <1>3
  <2>. QED BY <1>2, <1>4, <2>1 DEF End
<1>10. End(p) \div s = u + 2 * m
  <2>1. u + 2 * m \in Nat
    BY <1>3
  <2>. QED BY <1>1, <1>9, <2>1, Multiple
<1>11. Place(p, 1, s) = c * s /\ (c * s) \div s = c
  <2>1. Place(p, 1, s) = c * s
    BY DEF Place, GapStart, c, g
  <2>. QED BY <1>1, <1>7, <2>1, Multiple
<1>12. Len(objects[p]) = 0 /\ GapEnd(p, 1) = End(p)
  BY DEF GapEnd
<1>13. 1 \in Gaps(p, s)
  <2>1. c < u + 2 * m
    BY <1>3, <1>7, <1>8
  <2>. QED BY <1>10, <1>11, <1>12, <2>1 DEF Gaps
<1>. QED BY <1>13
------------------------------------------------------------------------------
(* The invariant.  The pages' homes and the pools' lists of blocks are      *)
(* found in each state: they are not part of it.                            *)

TypeInv == /\ own \in [Page -> {0, 1}]
           /\ combpage \in Counts
           /\ next \in Links
           /\ objects \in [Page -> Seq(Pair)]
           /\ serverPages \in Page \cup {NULL}
           /\ poolPages \in [Cpu -> Page \cup {NULL}]
           /\ poolLock \in [Cpu -> Cpu \cup {None}]
           /\ pc \in [Cpu -> {"idle", "fetch", "link", "search", "giveBack", "lost"}]
           /\ size \in [Cpu -> Nat]
           /\ ptr \in [Cpu -> Address \cup Page]
           /\ at \in [Cpu -> Cpu]
           /\ live \subseteq Address \X Address

\* A CPU in kalloc asks for a power of two.
SizeInv == \A c \in Cpu : pc[c] \in {"fetch", "link"} => \E k \in 0 .. 24 : size[c] = Power[k]

\* A CPU has a block in its hands only between the two lists.
HandInv(home, c) ==
  IF pc[c] \in {"link", "giveBack"} THEN HandOk(ptr[c], next, combpage, At(home, Hand(c)))
                                    ELSE At(home, Hand(c)) = {}

\* Every page is in one list or in one CPU's hands (or lost).
ListInv(home, P) ==
  /\ NextOk(next, home)
  /\ ServerOk(serverPages, next, combpage, At(home, Server))
  /\ \A c \in Cpu : IsList(poolPages[c], P[c], next, combpage, At(home, Pool(c)))
  /\ \A c \in Cpu : HandInv(home, c)

\* own says that a page is, or is about to be, in a pool.
Owned(home, p) == \E c \in Cpu : home[p] = Pool(c) \/ (home[p] = Hand(c) /\ pc[c] = "link")
OwnInv(home) == \A p \in Page : own[p] = 1 <=> Owned(home, p)

\* The block that a CPU got from the server is what it asked for.
LinkInv == \A c \in Cpu : pc[c] = "link" =>
             IF size[c] < PageSize THEN combpage[ptr[c]] = 0
             ELSE combpage[ptr[c]] = Pages(size[c]) /\ Start(ptr[c]) % size[c] = 0

\* Objects smaller than a page are in single pages of a pool, and every such
\* page has one; a larger one is all of a block, aligned to its size.
HeadInv(cb, objs, h) ==
  IF cb[h] = 0 THEN objs[h] # <<>> ELSE Start(h) % (cb[h] * PageSize) = 0
Single(P, cb, p) == cb[p] = 0 /\ \E c \in Cpu : \E i \in 1 .. Len(P[c]) : p = P[c][i]
ObjInv(P) ==
  /\ \A p \in Page : PageOk(p, objects[p])
  /\ \A p \in Page : objects[p] # <<>> => Single(P, combpage, p)
  /\ \A c \in Cpu : \A i \in 1 .. Len(P[c]) : HeadInv(combpage, objects, P[c][i])

\* An object of the block that starts with page h, and one of a list.
Holds(cb, objs, h, o) ==
  IF cb[h] = 0 THEN \E j \in 1 .. Len(objs[h]) : o = objs[h][j]
  ELSE o = <<Start(h), Start(h) + cb[h] * PageSize>>
In(S, cb, objs, o) == \E i \in 1 .. Len(S) : Holds(cb, objs, S[i], o)

\* A CPU that frees an object will find it in this pool or a later one; it is
\* nobody's any more.
Ahead(P, cb, objs, c) ==
  \E d \in Cpu : at[c] <= d /\ \E o \in Pair : /\ In(P[d], cb, objs, o)
                                             /\ o[1] = ptr[c] /\ o \notin live
LiveInv(P) ==
  /\ \A o \in live : \E c \in Cpu : In(P[c], combpage, objects, o)
  /\ \A c \in Cpu : pc[c] = "search" => Ahead(P, combpage, objects, c)
  /\ \A c, d \in Cpu : pc[c] = "search" /\ pc[d] = "search" /\ c # d => ptr[c] # ptr[d]
  /\ \A c \in Cpu : pc[c] # "lost"

Inv(home, P) == /\ home \in [Page -> Home]
                /\ P \in [Cpu -> Seq(Page)]
                /\ ListInv(home, P)
                /\ OwnInv(home)
                /\ LinkInv
                /\ ObjInv(P)
                /\ LiveInv(P)

IInv == TypeInv /\ SizeInv /\ \E home, P : Inv(home, P)
------------------------------------------------------------------------------
(* What the invariant says of a state.                                      *)

\* The pages of an owner.
LEMMA AtPages ==
  ASSUME NEW home, NEW x
  PROVE  /\ At(home, x) \in SUBSET Page
         /\ \A p : p \in At(home, x) <=> p \in Page /\ home[p] = x
         /\ NextOk(next, home) /\ next \in Links => Apart(next, At(home, x))
<1>1. At(home, x) \in SUBSET Page /\ \A p : p \in At(home, x) <=> p \in Page /\ home[p] = x
  BY DEF At
<1>2. ASSUME NextOk(next, home), next \in Links, NEW p \in Page, next[p] # NULL
      PROVE  p \in At(home, x) <=> next[p] \in At(home, x)
  <2>1. next[p] \in Page /\ home[next[p]] = home[p]
    BY <1>2 DEF NextOk, Links
  <2>. QED BY <1>1, <2>1
<1>. QED BY <1>1, <1>2 DEF Apart

\* An object lies in its block, and so does its header if it has one.
LEMMA HoldsWithin ==
  ASSUME NEW cb \in Counts, NEW objs, NEW h \in Page, TailOf(cb, h) \in Page,
         PageOk(h, objs[h]), NEW o, Holds(cb, objs, h, o)
  PROVE  /\ o \in Pair /\ o[1] \in Nat /\ o[2] \in Nat
         /\ Start(h) <= o[1] /\ o[1] < o[2] /\ o[2] <= End(TailOf(cb, h))
         /\ o[2] - o[1] < PageSize => Start(h) + Header <= o[1]
         /\ cb[h] = 0 => /\ Start(h) + Header <= o[1] /\ o[2] - o[1] < PageSize
                         /\ o[1] % (o[2] - o[1]) = 0
<1>1. CASE cb[h] = 0
  <2>1. PICK j \in 1 .. Len(objs[h]) : o = objs[h][j]
    BY <1>1 DEF Holds
  <2>2. Fine(h, o) /\ o \in Pair /\ o[1] \in Nat /\ o[2] \in Nat
    BY <2>1, PageNumbers DEF PageOk
  <2>3. TailOf(cb, h) = h
    BY <1>1 DEF TailOf
  <2>. QED BY <2>2, <2>3, Sizes, Addresses DEF Fine
<1>2. CASE cb[h] # 0
  <2> DEFINE t == TailOf(cb, h)
             n == cb[h]
             a == Start(h)
             s == n * PageSize
  <2>1. n \in Nat \ {0} /\ h \in Nat /\ t = h + n - 1 /\ h <= t /\ t - h + 1 = n
    BY <1>2 DEF Counts, Page, TailOf
  <2>2. End(t) = a + s /\ a \in Nat /\ s \in Nat /\ s >= PageSize /\ PageSize \in Nat \ {0}
    <3>1. End(t) = a + (t - h + 1) * PageSize
      BY <2>1, Addresses
    <3>. QED BY <2>1, <3>1, Addresses, Sizes
  <2>3. o = <<a, a + s>>
    BY <1>2 DEF Holds
  <2> HIDE DEF t, n, a, s
  <2>4. o[1] = a /\ o[2] = a + s /\ o \in Pair
    BY <2>2, <2>3 DEF Pair
  <2>5. a <= o[1] /\ o[1] < o[2] /\ o[2] <= End(t) /\ ~ (o[2] - o[1] < PageSize)
    BY <2>2, <2>4
  <2>. QED BY <1>2, <2>2, <2>4, <2>5 DEF a, t
<1>. QED BY <1>1, <1>2

\* Two blocks with an address in common have a page in common.
LEMMA CommonPage ==
  ASSUME NEW cb \in Counts, NEW h \in Page, NEW g \in Page,
         TailOf(cb, h) \in Page, TailOf(cb, g) \in Page, NEW a \in Nat,
         Start(h) <= a, a < End(TailOf(cb, h)), Start(g) <= a, a < End(TailOf(cb, g))
  PROVE  \E p \in Page : p \in BlockOf(cb, h) /\ p \in BlockOf(cb, g)
<1> DEFINE x == TailOf(cb, h)
           y == TailOf(cb, g)
<1>1. x \in Page /\ y \in Page /\ h <= x /\ g <= y /\ h \in Nat /\ g \in Nat /\ x \in Nat /\ y \in Nat
  BY TailAfter DEF Page
<1>2. /\ Start(h) \in Nat /\ Start(g) \in Nat /\ End(x) \in Nat /\ End(y) \in Nat
      /\ x < g => End(x) <= Start(g)
      /\ y < h => End(y) <= Start(h)
  BY <1>1, Addresses
<1>3. ~ (x < g) /\ ~ (y < h)
  BY <1>2
<1>4. BlockOf(cb, h) = h .. x /\ BlockOf(cb, g) = g .. y
  BY DEF BlockOf
<1> HIDE DEF x, y
<1>5. CASE h <= g
  <2>1. g \in h .. x /\ g \in g .. y
    BY <1>1, <1>3, <1>5
  <2>. QED BY <1>4, <2>1
<1>6. CASE g <= h
  <2>1. h \in h .. x /\ h \in g .. y
    BY <1>1, <1>3, <1>6
  <2>. QED BY <1>4, <2>1
<1>. QED BY <1>1, <1>5, <1>6

\* The facts about a block of a pool.
LEMMA PoolBlock ==
  ASSUME TypeInv, NEW home, NEW P, P \in [Cpu -> Seq(Page)], ListInv(home, P), ObjInv(P),
         NEW c \in Cpu, NEW i \in 1 .. Len(P[c])
  PROVE  /\ P[c] \in Seq(Page) /\ Len(P[c]) \in Nat
         /\ P[c][i] \in Page /\ TailOf(combpage, P[c][i]) \in Page
         /\ TailPage(P[c][i]) = TailOf(combpage, P[c][i])
         /\ Block(P[c][i]) = BlockOf(combpage, P[c][i])
         /\ P[c][i] \in BlockOf(combpage, P[c][i])
         /\ \A p \in BlockOf(combpage, P[c][i]) : p \in Page /\ home[p] = Pool(c)
         /\ PageOk(P[c][i], objects[P[c][i]])
         /\ HeadInv(combpage, objects, P[c][i])
<1>1. IsList(poolPages[c], P[c], next, combpage, At(home, Pool(c)))
  BY DEF ListInv
<1>2. P[c] \in Seq(Page) /\ Len(P[c]) \in Nat /\ P[c][i] \in Page /\ TailOf(combpage, P[c][i]) \in Page
  BY <1>1 DEF IsList
<1>3. \A p \in BlockOf(combpage, P[c][i]) : p \in At(home, Pool(c))
  BY <1>1 DEF IsList
<1>4. combpage \in Counts
  BY DEF TypeInv
<1>5. /\ TailPage(P[c][i]) = TailOf(combpage, P[c][i])
      /\ Block(P[c][i]) = BlockOf(combpage, P[c][i])
      /\ P[c][i] \in BlockOf(combpage, P[c][i])
  BY <1>2, <1>4, Tails, TailAfter
<1>6. PageOk(P[c][i], objects[P[c][i]]) /\ HeadInv(combpage, objects, P[c][i])
  BY <1>2 DEF ObjInv
<1>. QED BY <1>2, <1>3, <1>5, <1>6, AtPages

\* An address is in one block at most.
LEMMA OnePlace ==
  ASSUME TypeInv, NEW home, NEW P, P \in [Cpu -> Seq(Page)], ListInv(home, P), ObjInv(P),
         NEW c \in Cpu, NEW i \in 1 .. Len(P[c]), NEW d \in Cpu, NEW j \in 1 .. Len(P[d]),
         NEW a \in Nat,
         Start(P[c][i]) <= a, a < End(TailOf(combpage, P[c][i])),
         Start(P[d][j]) <= a, a < End(TailOf(combpage, P[d][j]))
  PROVE  c = d /\ i = j
<1>1. combpage \in Counts
  BY DEF TypeInv
<1>2. /\ P[c][i] \in Page /\ TailOf(combpage, P[c][i]) \in Page
      /\ \A p \in BlockOf(combpage, P[c][i]) : p \in Page /\ home[p] = Pool(c)
  BY PoolBlock
<1>3. /\ P[d][j] \in Page /\ TailOf(combpage, P[d][j]) \in Page
      /\ \A p \in BlockOf(combpage, P[d][j]) : p \in Page /\ home[p] = Pool(d)
  BY PoolBlock
<1>4. PICK p \in Page : p \in BlockOf(combpage, P[c][i]) /\ p \in BlockOf(combpage, P[d][j])
  BY <1>1, <1>2, <1>3, CommonPage
<1>5. Pool(c) = Pool(d)
  BY <1>2, <1>3, <1>4
<1>6. c = d
  BY <1>5, Homes
<1>7. IsList(poolPages[c], P[c], next, combpage, At(home, Pool(c)))
  BY DEF ListInv
<1>8. \A k, l \in 1 .. Len(P[c]) : \A q \in BlockOf(combpage, P[c][k]) :
        q \in BlockOf(combpage, P[c][l]) => k = l
  BY <1>7 DEF IsList
<1>. QED BY <1>4, <1>6, <1>8

\* So an object's start says where it is, and which it is.
LEMMA SameObject ==
  ASSUME TypeInv, NEW home, NEW P, P \in [Cpu -> Seq(Page)], ListInv(home, P), ObjInv(P),
         NEW c \in Cpu, NEW i \in 1 .. Len(P[c]), NEW d \in Cpu, NEW j \in 1 .. Len(P[d]),
         NEW o, NEW u, Holds(combpage, objects, P[c][i], o), Holds(combpage, objects, P[d][j], u),
         o[1] = u[1]
  PROVE  c = d /\ i = j /\ o = u
<1>1. combpage \in Counts
  BY DEF TypeInv
<1>2. /\ P[c][i] \in Page /\ TailOf(combpage, P[c][i]) \in Page
      /\ PageOk(P[c][i], objects[P[c][i]])
      /\ P[d][j] \in Page /\ TailOf(combpage, P[d][j]) \in Page
      /\ PageOk(P[d][j], objects[P[d][j]])
  BY PoolBlock
<1>3. /\ o[1] \in Nat /\ o[2] \in Nat /\ Start(P[c][i]) <= o[1] /\ o[1] < o[2]
      /\ o[2] <= End(TailOf(combpage, P[c][i])) /\ End(TailOf(combpage, P[c][i])) \in Nat
  BY <1>1, <1>2, HoldsWithin, Addresses
<1>4. /\ u[1] \in Nat /\ u[2] \in Nat /\ Start(P[d][j]) <= u[1] /\ u[1] < u[2]
      /\ u[2] <= End(TailOf(combpage, P[d][j])) /\ End(TailOf(combpage, P[d][j])) \in Nat
  BY <1>1, <1>2, HoldsWithin, Addresses
<1> DEFINE a == o[1]
<1>5. a \in Nat /\ a < End(TailOf(combpage, P[c][i])) /\ a < End(TailOf(combpage, P[d][j]))
      /\ Start(P[c][i]) <= a /\ Start(P[d][j]) <= a
  BY <1>3, <1>4
<1> HIDE DEF a
<1>6. c = d /\ i = j
  BY <1>5, OnePlace
<1>7. o = u
  <2>1. CASE combpage[P[c][i]] = 0
    <3>1. PICK k \in 1 .. Len(objects[P[c][i]]) : o = objects[P[c][i]][k]
      BY <2>1 DEF Holds
    <3>2. PICK l \in 1 .. Len(objects[P[c][i]]) : u = objects[P[c][i]][l]
      BY <1>6, <2>1 DEF Holds
    <3>3. k = l
      BY <1>2, <3>1, <3>2, StartsDiffer
    <3>. QED BY <3>1, <3>2, <3>3
  <2>2. CASE combpage[P[c][i]] # 0
    BY <1>6, <2>2 DEF Holds
  <2>. QED BY <2>1, <2>2
<1>. QED BY <1>6, <1>7
\* The lists and hands of the model are those of the invariant.
LEMMA Lists ==
  ASSUME TypeInv, NEW home, NEW P, Inv(home, P)
  PROVE  /\ \A c \in Cpu : /\ Heads(poolPages[c]) = P[c]
                           /\ PagesOf(poolPages[c]) = At(home, Pool(c))
                           /\ InHand(c) = At(home, Hand(c))
         /\ PagesOf(serverPages) = At(home, Server)
         /\ \E S : /\ IsList(serverPages, S, next, combpage, At(home, Server))
                   /\ Sorted(S, combpage) /\ Heads(serverPages) = S
                   /\ \A i \in 1 .. Len(S) : /\ TailPage(S[i]) = TailOf(combpage, S[i])
                                             /\ Block(S[i]) = BlockOf(combpage, S[i])
<1>1. combpage \in Counts /\ next \in Links /\ serverPages \in Page \cup {NULL}
  BY DEF TypeInv
<1>2. ListInv(home, P)
  BY DEF Inv
<1>3. ASSUME NEW c \in Cpu
      PROVE  Heads(poolPages[c]) = P[c] /\ PagesOf(poolPages[c]) = At(home, Pool(c))
  <2>1. IsList(poolPages[c], P[c], next, combpage, At(home, Pool(c))) /\ At(home, Pool(c)) \in SUBSET Page
    BY <1>2, AtPages DEF ListInv
  <2>. QED BY <1>1, <2>1, HeadsAre
<1>4. ASSUME NEW c \in Cpu
      PROVE  InHand(c) = At(home, Hand(c))
  <2>1. HandInv(home, c)
    BY <1>2 DEF ListInv
  <2>2. CASE pc[c] \in {"link", "giveBack"}
    <3>1. HandOk(ptr[c], next, combpage, At(home, Hand(c)))
      BY <2>1, <2>2 DEF HandInv
    <3>2. ptr[c] \in Page /\ At(home, Hand(c)) = BlockOf(combpage, ptr[c])
      BY <3>1 DEF HandOk
    <3>. QED BY <1>1, <2>2, <3>2, Tails DEF InHand
  <2>3. CASE pc[c] \notin {"link", "giveBack"}
    BY <2>1, <2>3 DEF HandInv, InHand
  <2>. QED BY <2>2, <2>3
<1>5. ServerOk(serverPages, next, combpage, At(home, Server)) /\ Apart(next, At(home, Server))
      /\ At(home, Server) \in SUBSET Page
  BY <1>1, <1>2, AtPages DEF ListInv
<1>6. PICK S : IsList(serverPages, S, next, combpage, At(home, Server)) /\ Sorted(S, combpage)
  BY <1>1, <1>5, ServerList
<1>7. /\ Heads(serverPages) = S /\ PagesOf(serverPages) = At(home, Server)
      /\ \A i \in 1 .. Len(S) : /\ TailPage(S[i]) = TailOf(combpage, S[i])
                                /\ Block(S[i]) = BlockOf(combpage, S[i])
  BY <1>1, <1>5, <1>6, HeadsAre
<1>. QED BY <1>3, <1>4, <1>6, <1>7

\* IInv implies each property of the runs.
LEMMA IsTypeOK == ASSUME IInv PROVE TypeOK
<1>1. PICK home, P : Inv(home, P)
  BY DEF IInv
<1>2. ASSUME NEW p \in Page
      PROVE  objects[p] \in Seq((Start(p) .. End(p)) \X (Start(p) .. End(p)))
  <2>1. PageOk(p, objects[p])
    BY <1>1 DEF Inv, ObjInv
  <2> DEFINE L == objects[p]
             X == (Start(p) .. End(p)) \X (Start(p) .. End(p))
  <2>2. L \in Seq(Pair) /\ Len(L) \in Nat
    BY <2>1, PageNumbers
  <2>3. ASSUME NEW i \in 1 .. Len(L) PROVE L[i] \in X
    <3>1. Fine(p, L[i]) /\ L[i] \in Pair /\ L[i][1] \in Nat /\ L[i][2] \in Nat
      BY <2>1, PageNumbers DEF PageOk
    <3> DEFINE x == L[i][1]
               y == L[i][2]
    <3>4. /\ Start(p) + Header <= x /\ x < y /\ y <= End(p) /\ x \in Nat /\ y \in Nat
          /\ Start(p) \in Nat /\ End(p) \in Nat /\ Header \in Nat
      BY <3>1, Sizes, Addresses DEF Fine
    <3> HIDE DEF x, y
    <3>2. Start(p) <= x /\ x <= End(p) /\ Start(p) <= y /\ y <= End(p)
          /\ Start(p) \in Nat /\ End(p) \in Nat
      BY <3>4
    <3>3. L[i][1] \in Start(p) .. End(p) /\ L[i][2] \in Start(p) .. End(p) /\ L[i] = <<L[i][1], L[i][2]>>
      BY <3>1, <3>2 DEF Pair, x, y
    <3>. QED BY <3>3
  <2> HIDE DEF L, X
  <2>4. L \in Seq(X)
    BY <2>2, <2>3
  <2>. QED BY <2>4 DEF L, X
<1>3. TypeInv
  BY DEF IInv
<1>. QED BY <1>2, <1>3 DEF TypeInv, TypeOK, Links, Counts

\* Of its objects: those in one page lie apart in its list, those of two blocks in different pages.
LEMMA IsObjectsApart == ASSUME IInv PROVE ObjectsApart
<1>1. TypeInv /\ combpage \in Counts
  BY DEF IInv, TypeInv
<1>2. PICK home, P : Inv(home, P)
  BY DEF IInv
<1>3. P \in [Cpu -> Seq(Page)] /\ ListInv(home, P) /\ ObjInv(P) /\ LiveInv(P)
  BY <1>2 DEF Inv
<1>4. ASSUME NEW o \in live
      PROVE  \E c \in Cpu : \E i \in 1 .. Len(P[c]) :
               /\ P[c][i] \in Page /\ TailOf(combpage, P[c][i]) \in Page
               /\ PageOk(P[c][i], objects[P[c][i]]) /\ HeadInv(combpage, objects, P[c][i])
               /\ Holds(combpage, objects, P[c][i], o)
  <2>1. PICK c \in Cpu : In(P[c], combpage, objects, o)
    BY <1>3 DEF LiveInv
  <2>2. PICK i \in 1 .. Len(P[c]) : Holds(combpage, objects, P[c][i], o)
    BY <2>1 DEF In
  <2>. QED BY <1>1, <1>3, <2>2, PoolBlock
<1>5. ASSUME NEW h \in Page, TailOf(combpage, h) \in Page, PageOk(h, objects[h]), NEW o,
             Holds(combpage, objects, h, o), NEW a \in Taken(o)
      PROVE  /\ a \in Nat /\ Start(h) <= a /\ a < End(TailOf(combpage, h))
             /\ Start(1) <= a /\ a <= End(PageCount) - 1
  <2>1. /\ o[1] \in Nat /\ o[2] \in Nat
        /\ Start(h) <= o[1] /\ o[1] < o[2] /\ o[2] <= End(TailOf(combpage, h))
        /\ o[2] - o[1] < PageSize => Start(h) + Header <= o[1]
    BY <1>1, <1>5, HoldsWithin
  <2>2. /\ Start(h) \in Nat /\ Start(1) <= Start(h) /\ Start(1) \in Nat
        /\ End(TailOf(combpage, h)) \in Nat /\ End(TailOf(combpage, h)) <= End(PageCount)
        /\ End(PageCount) \in Nat /\ Header \in Nat /\ PageSize \in Nat
    <3>1. 1 \in Page /\ PageCount \in Page
      BY Sizes DEF Page
    <3>. QED BY <1>5, <3>1, Addresses, Sizes
  <2>3. a \in Int /\ Start(h) <= a /\ a <= o[2] - 1
    BY <2>1, <2>2 DEF Taken
  <2>. QED BY <2>1, <2>2, <2>3
<1>6. ASSUME NEW o \in live
      PROVE  o[1] % (o[2] - o[1]) = 0 /\ Taken(o) \subseteq Start(1) .. End(PageCount) - 1
  <2>a. PICK c \in Cpu : \E i \in 1 .. Len(P[c]) :
               /\ P[c][i] \in Page /\ TailOf(combpage, P[c][i]) \in Page
               /\ PageOk(P[c][i], objects[P[c][i]]) /\ HeadInv(combpage, objects, P[c][i])
               /\ Holds(combpage, objects, P[c][i], o)
    BY <1>4
  <2>1. PICK i \in 1 .. Len(P[c]) :
               /\ P[c][i] \in Page /\ TailOf(combpage, P[c][i]) \in Page
               /\ PageOk(P[c][i], objects[P[c][i]]) /\ HeadInv(combpage, objects, P[c][i])
               /\ Holds(combpage, objects, P[c][i], o)
    BY <2>a
  <2> DEFINE h == P[c][i]
  <2>2. o[1] % (o[2] - o[1]) = 0
    <3>1. CASE combpage[h] = 0
      BY <1>1, <2>1, <3>1, HoldsWithin
    <3>2. CASE combpage[h] # 0
      <4>1. o = <<Start(h), Start(h) + combpage[h] * PageSize>>
        BY <2>1, <3>2 DEF Holds
      <4>2. combpage[h] * PageSize \in Nat /\ Start(h) \in Nat
        <5>1. combpage[h] \in Nat
          BY <1>1, <2>1 DEF Counts
        <5>2. PageSize \in Nat /\ Start(h) \in Nat
          BY <2>1, Addresses, Sizes
        <5> DEFINE n == combpage[h]
        <5> HIDE DEF n
        <5>3. n \in Nat
          BY <5>1 DEF n
        <5>4. n * PageSize \in Nat
          BY <5>2, <5>3
        <5>. QED BY <5>2, <5>4 DEF n
      <4>3. o[2] - o[1] = combpage[h] * PageSize /\ o[1] = Start(h)
        BY <4>1, <4>2
      <4>. QED BY <2>1, <3>2, <4>3 DEF HeadInv
    <3>. QED BY <3>1, <3>2
  <2>3. ASSUME NEW a \in Taken(o) PROVE a \in Start(1) .. End(PageCount) - 1
    <3>1. a \in Nat /\ Start(1) <= a /\ a <= End(PageCount) - 1
      BY <1>5, <2>1
    <3>2. Start(1) \in Nat /\ End(PageCount) \in Nat
      <4>1. 1 \in Page /\ PageCount \in Page
        BY Sizes DEF Page
      <4>. QED BY <4>1, Addresses
    <3>. QED BY <3>1, <3>2
  <2>. QED BY <2>2, <2>3
<1>7. ASSUME NEW o \in live, NEW u \in live, o # u, NEW a, a \in Taken(o), a \in Taken(u)
      PROVE  FALSE
  <2>a. PICK c \in Cpu : \E i \in 1 .. Len(P[c]) :
               /\ P[c][i] \in Page /\ TailOf(combpage, P[c][i]) \in Page
               /\ PageOk(P[c][i], objects[P[c][i]]) /\ HeadInv(combpage, objects, P[c][i])
               /\ Holds(combpage, objects, P[c][i], o)
    BY <1>4
  <2>1. PICK i \in 1 .. Len(P[c]) :
               /\ P[c][i] \in Page /\ TailOf(combpage, P[c][i]) \in Page
               /\ PageOk(P[c][i], objects[P[c][i]]) /\ HeadInv(combpage, objects, P[c][i])
               /\ Holds(combpage, objects, P[c][i], o)
    BY <2>a
  <2>b. PICK d \in Cpu : \E j \in 1 .. Len(P[d]) :
               /\ P[d][j] \in Page /\ TailOf(combpage, P[d][j]) \in Page
               /\ PageOk(P[d][j], objects[P[d][j]]) /\ HeadInv(combpage, objects, P[d][j])
               /\ Holds(combpage, objects, P[d][j], u)
    BY <1>4
  <2>2. PICK j \in 1 .. Len(P[d]) :
               /\ P[d][j] \in Page /\ TailOf(combpage, P[d][j]) \in Page
               /\ PageOk(P[d][j], objects[P[d][j]]) /\ HeadInv(combpage, objects, P[d][j])
               /\ Holds(combpage, objects, P[d][j], u)
    BY <2>b
  <2>3. a \in Nat /\ Start(P[c][i]) <= a /\ a < End(TailOf(combpage, P[c][i]))
    BY <1>5, <1>7, <2>1
  <2>4. Start(P[d][j]) <= a /\ a < End(TailOf(combpage, P[d][j]))
    BY <1>5, <1>7, <2>2
  <2>5. c = d /\ i = j
    BY <1>1, <1>3, <2>3, <2>4, OnePlace
  <2> DEFINE h == P[c][i]
  <2>6. CASE combpage[h] # 0
    BY <1>7, <2>1, <2>2, <2>5, <2>6 DEF Holds
  <2>7. CASE combpage[h] = 0
    <3> DEFINE L == objects[h]
    <3>1. PICK k \in 1 .. Len(L) : o = L[k]
      BY <2>1, <2>7 DEF Holds
    <3>2. PICK l \in 1 .. Len(L) : u = L[l]
      BY <2>2, <2>5, <2>7 DEF Holds
    <3>3. k # l /\ Len(L) \in Nat
      BY <1>7, <2>1, <3>1, <3>2, PageNumbers
    <3>4. /\ k < l => o[2] + Header <= u[1]
          /\ l < k => u[2] + Header <= o[1]
      BY <2>1, <3>1, <3>2 DEF PageOk
    <3>5. /\ o[1] \in Nat /\ o[2] \in Nat /\ u[1] \in Nat /\ u[2] \in Nat /\ Header \in Nat
          /\ o[2] - o[1] < PageSize /\ u[2] - u[1] < PageSize
      BY <1>1, <2>1, <2>2, <2>5, <2>7, HoldsWithin, Sizes
    <3>6. /\ a \in o[1] - Header .. o[2] - 1
          /\ a \in u[1] - Header .. u[2] - 1
      BY <1>7, <3>5 DEF Taken
    <3>7. k \in Nat /\ l \in Nat
      BY <3>3
    <3> DEFINE x == o[1]
               y == o[2]
               v == u[1]
               w == u[2]
    <3> HIDE DEF L, x, y, v, w
    <3>8. /\ a \in Int /\ x - Header <= a /\ a <= y - 1 /\ v - Header <= a /\ a <= w - 1
          /\ x \in Nat /\ y \in Nat /\ v \in Nat /\ w \in Nat /\ Header \in Nat
      BY <3>5, <3>6 DEF x, y, v, w
    <3>9. y + Header <= v \/ w + Header <= x
      BY <3>3, <3>4, <3>7 DEF x, y, v, w
    <3>. QED BY <3>8, <3>9
  <2>. QED BY <2>6, <2>7
<1>. QED BY <1>6, <1>7 DEF ObjectsApart

\* Of who has a page: each page has one home.
LEMMA IsOwnedOnce == ASSUME IInv PROVE OwnedOnce
<1>1. TypeInv
  BY DEF IInv
<1>2. PICK home, P : Inv(home, P)
  BY DEF IInv
<1>3. /\ \A c \in Cpu : /\ PagesOf(poolPages[c]) = At(home, Pool(c))
                        /\ InHand(c) = At(home, Hand(c))
      /\ PagesOf(serverPages) = At(home, Server)
  BY <1>1, <1>2, Lists
<1>4. \A x, y : x # y => At(home, x) \cap At(home, y) = {}
  BY DEF At
<1>5. \A p \in Page : own[p] = 1 <=> Owned(home, p)
  BY <1>2 DEF Inv, OwnInv
<1>6. {p \in Page : own[p] = 1} = (UNION {PagesOf(poolPages[c]) : c \in Cpu})
                                  \cup (UNION {InHand(c) : c \in {d \in Cpu : pc[d] = "link"}})
  <2>1. ASSUME NEW p \in Page, own[p] = 1
        PROVE  \/ \E c \in Cpu : p \in PagesOf(poolPages[c])
               \/ \E c \in Cpu : pc[c] = "link" /\ p \in InHand(c)
    BY <1>3, <1>5, <2>1 DEF Owned, At
  <2>2. ASSUME NEW p, NEW c \in Cpu, p \in PagesOf(poolPages[c]) PROVE p \in Page /\ own[p] = 1
    BY <1>3, <1>5, <2>2 DEF Owned, At
  <2>3. ASSUME NEW p, NEW c \in Cpu, pc[c] = "link", p \in InHand(c) PROVE p \in Page /\ own[p] = 1
    BY <1>3, <1>5, <2>3 DEF Owned, At
  <2> DEFINE A == UNION {PagesOf(poolPages[c]) : c \in Cpu}
             B == UNION {InHand(c) : c \in {d \in Cpu : pc[d] = "link"}}
  <2>4. \A p : p \in A <=> \E c \in Cpu : p \in PagesOf(poolPages[c])
    OBVIOUS
  <2>5. \A p : p \in B <=> \E c \in Cpu : pc[c] = "link" /\ p \in InHand(c)
    OBVIOUS
  <2> HIDE DEF A, B
  <2>6. {p \in Page : own[p] = 1} = A \cup B
    BY <2>1, <2>2, <2>3, <2>4, <2>5
  <2>. QED BY <2>6 DEF A, B
<1>7. ASSUME NEW c \in Cpu
      PROVE  (PagesOf(poolPages[c]) \cup InHand(c)) \cap PagesOf(serverPages) = {}
  <2>1. Server # Pool(c) /\ Server # Hand(c)
    BY Homes
  <2>. QED BY <1>3, <1>4, <2>1
<1>8. ASSUME NEW c \in Cpu, NEW d \in Cpu
      PROVE  /\ InHand(d) \cap PagesOf(poolPages[c]) = {}
             /\ c # d => /\ PagesOf(poolPages[c]) \cap PagesOf(poolPages[d]) = {}
                         /\ InHand(c) \cap InHand(d) = {}
  <2>1. /\ Pool(c) # Hand(d)
        /\ c # d => Pool(c) # Pool(d) /\ Hand(c) # Hand(d)
    BY Homes
  <2>. QED BY <1>3, <1>4, <2>1
<1>. QED BY <1>6, <1>7, <1>8 DEF OwnedOnce

\* Of the server's list: its blocks are the runs of the server's pages.
LEMMA IsServerCoalesced == ASSUME IInv PROVE ServerCoalesced
<1>1. TypeInv /\ combpage \in Counts
  BY DEF IInv, TypeInv
<1>2. PICK home, P : Inv(home, P)
  BY DEF IInv
<1> DEFINE V == At(home, Server)
<1>3. PICK S : /\ IsList(serverPages, S, next, combpage, V)
               /\ Sorted(S, combpage) /\ Heads(serverPages) = S
               /\ \A i \in 1 .. Len(S) : /\ TailPage(S[i]) = TailOf(combpage, S[i])
                                         /\ Block(S[i]) = BlockOf(combpage, S[i])
  BY <1>1, <1>2, Lists
<1>4. ServerOk(serverPages, next, combpage, V) /\ V \in SUBSET Page
  BY <1>2, AtPages DEF Inv, ListInv
<1>5. ASSUME NEW i \in 1 .. Len(S), NEW p \in BlockOf(combpage, S[i])
      PROVE  /\ combpage[p] = TailOf(combpage, S[i]) - p + 1
             /\ p # TailOf(combpage, S[i]) => next[p] = p + 1
  <2> DEFINE h == S[i]
             t == TailOf(combpage, h)
  <2>1. h \in Page /\ t \in Page /\ \A q \in BlockOf(combpage, h) : q \in V
    BY <1>3 DEF IsList
  <2>2. h \in BlockOf(combpage, h) /\ p \in V /\ h \in V
    BY <1>1, <2>1, TailAfter
  <2>3. Run(combpage, V, h) /\ Run(combpage, V, p)
    BY <1>4, <2>2 DEF ServerOk
  <2>4. combpage[h] >= 1 /\ combpage[h] \in Nat /\ combpage[p] \in Nat /\ h \in Nat /\ p \in Nat
    BY <1>1, <1>4, <2>2, <2>3 DEF Run, Counts, Page
  <2>5. t = h + combpage[h] - 1
    BY <2>4 DEF TailOf
  <2>6. p \in h .. t
    BY DEF BlockOf
  <2>7. h <= p /\ p <= h + combpage[h] - 1
    BY <2>4, <2>5, <2>6
  <2>8. h + combpage[h] = p + combpage[p]
    BY <1>1, <1>4, <2>2, <2>3, <2>7, SameRun
  <2>9. combpage[p] = t - p + 1
    BY <2>4, <2>5, <2>8, SMTT(30)
  <2>10. p # t => next[p] = p + 1
    <3>1. \A q \in h .. t - 1 : next[q] = q + 1
      BY <1>3 DEF IsList
    <3>2. t \in Nat
      BY <2>1 DEF Page
    <3>3. p # t => p \in h .. t - 1
      BY <2>4, <2>6, <3>2
    <3>. QED BY <3>1, <3>3
  <2>. QED BY <2>9, <2>10
<1>6. \A i \in 1 .. Len(S) - 1 : TailOf(combpage, S[i]) + 1 < S[i + 1]
  BY <1>3 DEF Sorted
<1>7. Len(S) \in Nat
  BY <1>3 DEF IsList
<1>8. \A i \in 1 .. Len(S) - 1 : i \in 1 .. Len(S)
  BY <1>7
<1>. QED BY <1>3, <1>5, <1>6, <1>8 DEF ServerCoalesced

\* Of the pages of the pools, and of the search of kfree: the object lies ahead.
LEMMA IsPoolPagesUsed == ASSUME IInv PROVE PoolPagesUsed /\ FreeFinds
<1>1. TypeInv
  BY DEF IInv
<1>2. PICK home, P : Inv(home, P)
  BY DEF IInv
<1>3. \A c \in Cpu : Heads(poolPages[c]) = P[c]
  BY <1>1, <1>2, Lists
<1>4. ASSUME NEW c \in Cpu, NEW h \in Range(P[c]), combpage[h] = 0 PROVE objects[h] # <<>>
  <2>1. P[c] \in Seq(Page)
    BY <1>2 DEF Inv
  <2>2. PICK i \in 1 .. Len(P[c]) : h = P[c][i]
    BY <2>1 DEF Range
  <2>. QED BY <1>2, <1>4, <2>2 DEF Inv, ObjInv, HeadInv
<1>5. FreeFinds
  BY <1>2 DEF Inv, LiveInv, FreeFinds
<1>. QED BY <1>3, <1>4, <1>5 DEF PoolPagesUsed
------------------------------------------------------------------------------
(* The first state.                                                        *)

\* Addresses up to the end of the heap.
LEMMA UpToEnd ==
  ASSUME NEW p \in Page, NEW a \in Nat, a <= End(p)
  PROVE  a \in Address
<1>1. End(p) \in Address /\ End(p) \in Nat
  BY Addresses
<1>2. Start(PageCount + 1) \in Nat
  <2>1. PageCount \in Page
    BY Sizes DEF Page
  <2>2. Start(PageCount) + PageSize = Start(PageCount + 1) /\ Start(PageCount) \in Nat
    <3>1. \A f, n, s \in Nat : n >= 1 => (f + n - 1) * s + s = (f + (n + 1) - 1) * s
      OBVIOUS
    <3>. QED BY <2>1, <3>1, Sizes, Addresses DEF Start
  <2>. QED BY <2>2, Sizes
<1>. QED BY <1>1, <1>2 DEF Address

\* pmm_init gives all pages to the server, as one block.
LEMMA Initial == Init => IInv
<1> SUFFICES ASSUME Init PROVE IInv
  OBVIOUS
<1> DEFINE home == [p \in Page |-> Server]
           P == [c \in Cpu |-> <<>>]
<1>1. /\ PageCount \in Nat /\ PageCount >= 1 /\ CpuCount \in Nat /\ 0 \in Cpu
      /\ 1 \in Page /\ 0 \in Address
  <2>1. 1 \in Page /\ PageCount \in Page
    BY Sizes DEF Page
  <2>2. 0 <= End(1)
    BY <2>1, Addresses
  <2>4. 0 \in Cpu
    BY CountAssumption DEF Cpu
  <2>5. 0 \in Address
    BY <2>1, <2>2, UpToEnd
  <2>. QED BY <2>1, <2>4, <2>5, Sizes
<1>2. /\ \A p \in Page : p \in Nat /\ p >= 1 /\ p <= PageCount
      /\ \A p \in Page : p # PageCount => p + 1 \in Page
      /\ \A p \in Page : PageCount - p + 1 \in 0 .. PageCount
  BY <1>1 DEF Page
<1>3. TypeInv
  <2>1. combpage \in Counts
    BY <1>2 DEF Init, Counts
  <2>2. next \in Links
    BY <1>2 DEF Init, Links, NULL
  <2>3. objects \in [Page -> Seq(Pair)]
    BY DEF Init
  <2>4. serverPages \in Page \cup {NULL}
    BY <1>1 DEF Init
  <2>. QED BY <1>1, <2>1, <2>2, <2>3, <2>4 DEF TypeInv, Init
<1>4. SizeInv
  BY DEF Init, SizeInv
<1>5. home \in [Page -> Home] /\ P \in [Cpu -> Seq(Page)]
  BY Homes
<1>6. /\ At(home, Server) = Page
      /\ \A c \in Cpu : At(home, Pool(c)) = {} /\ At(home, Hand(c)) = {}
  BY Homes DEF At
<1>7. /\ \A c \in Cpu : P[c] = <<>> /\ Len(P[c]) = 0 /\ P[c] \in Seq(Page)
      /\ \A p \in Page : home[p] = Server
  OBVIOUS
<1> HIDE DEF home, P
<1>8. ServerOk(serverPages, next, combpage, Page)
  <2>1. serverPages = 1 /\ 1 # NULL
    BY DEF Init, NULL
  <2>2. \A p \in Page : /\ next[p] = (IF p = PageCount THEN NULL ELSE p + 1)
                        /\ combpage[p] = PageCount - p + 1
    BY DEF Init
  <2>3. \A p \in Page : next[p] # NULL => next[p] > p
    BY <1>2, <2>2
  <2>4. \A p, q \in Page : p < q => next[p] # NULL /\ next[p] <= q
    BY <1>2, <2>2 DEF NULL
  <2>5. ASSUME NEW p \in Page PROVE Run(combpage, Page, p)
    <3>1. combpage[p] >= 1 /\ p + combpage[p] = PageCount + 1 /\ combpage[p] \in Nat
      BY <1>1, <1>2, <2>2
    <3>. QED BY <1>1, <1>2, <3>1 DEF Run, Page
  <2>. QED BY <1>1, <1>2, <2>1, <2>3, <2>4, <2>5 DEF ServerOk
<1>9. NextOk(next, home)
  <2>1. next \in Links
    BY <1>3 DEF TypeInv
  <2>. QED BY <1>7, <2>1 DEF NextOk, Links
<1>10. ASSUME NEW c \in Cpu
       PROVE  IsList(poolPages[c], P[c], next, combpage, At(home, Pool(c))) /\ HandInv(home, c)
  <2>1. poolPages[c] = NULL /\ pc[c] = "idle"
    BY DEF Init
  <2>. QED BY <1>6, <1>7, <2>1 DEF IsList, HandInv
<1>11. ListInv(home, P)
  BY <1>6, <1>8, <1>9, <1>10 DEF ListInv
<1>12. OwnInv(home)
  <2>1. \A p \in Page : ~ Owned(home, p)
    BY <1>7, Homes DEF Owned
  <2>2. \A p \in Page : own[p] = 0
    BY DEF Init
  <2>. QED BY <2>1, <2>2 DEF OwnInv
<1>13. LinkInv
  BY DEF LinkInv, Init
<1>14. ObjInv(P)
  <2>1. \A p \in Page : objects[p] = <<>>
    BY DEF Init
  <2>2. \A p \in Page : PageOk(p, <<>>)
    BY DEF PageOk
  <2>. QED BY <1>7, <2>1, <2>2 DEF ObjInv
<1>15. LiveInv(P)
  BY DEF LiveInv, Init
<1>16. Inv(home, P)
  BY <1>5, <1>11, <1>12, <1>13, <1>14, <1>15 DEF Inv
<1>. QED BY <1>3, <1>4, <1>16 DEF IInv
------------------------------------------------------------------------------
(* What the steps have in common.                                          *)

\* An object of a pool, seen from its block.
LEMMA InBlock ==
  ASSUME TypeInv, NEW home, NEW P, P \in [Cpu -> Seq(Page)], ListInv(home, P), ObjInv(P),
         NEW d \in Cpu, NEW u, In(P[d], combpage, objects, u)
  PROVE  \E i \in 1 .. Len(P[d]) :
           /\ Holds(combpage, objects, P[d][i], u)
           /\ u \in Pair /\ u[1] \in Nat /\ u[2] \in Nat
           /\ Start(P[d][i]) <= u[1] /\ u[1] < u[2] /\ u[2] <= End(TailOf(combpage, P[d][i]))
           /\ u[1] < End(TailOf(combpage, P[d][i]))
<1>1. PICK i \in 1 .. Len(P[d]) : Holds(combpage, objects, P[d][i], u)
  BY DEF In
<1>2. /\ P[d][i] \in Page /\ TailOf(combpage, P[d][i]) \in Page /\ combpage \in Counts
      /\ PageOk(P[d][i], objects[P[d][i]])
  BY PoolBlock DEF TypeInv
<1>3. /\ u \in Pair /\ u[1] \in Nat /\ u[2] \in Nat
      /\ Start(P[d][i]) <= u[1] /\ u[1] < u[2] /\ u[2] <= End(TailOf(combpage, P[d][i]))
  BY <1>1, <1>2, HoldsWithin
<1>4. End(TailOf(combpage, P[d][i])) \in Nat
  BY <1>2, Addresses
<1>5. u[1] < End(TailOf(combpage, P[d][i]))
  BY <1>3, <1>4
<1>. QED BY <1>1, <1>3, <1>5

\* It does not start in a block that is not in its pool.
LEMMA Elsewhere ==
  ASSUME TypeInv, NEW home, NEW P, P \in [Cpu -> Seq(Page)], ListInv(home, P), ObjInv(P),
         NEW d \in Cpu, NEW u, In(P[d], combpage, objects, u),
         NEW b \in Page, TailOf(combpage, b) \in Page,
         \A p \in BlockOf(combpage, b) : home[p] # Pool(d),
         NEW a \in Nat, Start(b) <= a, a < End(TailOf(combpage, b))
  PROVE  u[1] # a
<1> SUFFICES ASSUME u[1] = a PROVE FALSE
  OBVIOUS
<1>1. PICK i \in 1 .. Len(P[d]) : /\ Start(P[d][i]) <= u[1]
                                  /\ u[1] < End(TailOf(combpage, P[d][i]))
  BY InBlock
<1>2. /\ P[d][i] \in Page /\ TailOf(combpage, P[d][i]) \in Page
      /\ \A p \in BlockOf(combpage, P[d][i]) : p \in Page /\ home[p] = Pool(d)
  BY PoolBlock
<1>4. combpage \in Counts
  BY DEF TypeInv
<1>3. \E p \in Page : p \in BlockOf(combpage, P[d][i]) /\ p \in BlockOf(combpage, b)
  BY <1>1, <1>2, <1>4, CommonPage
<1>. QED BY <1>2, <1>3

\* The objects of callers, in a step that takes no object from the lists.
LEMMA LiveStep ==
  ASSUME NEW P, NEW P2, LiveInv(P), NEW N, live' = live \cup N,
         \A o \in N : \E d \in Cpu : In(P2[d], combpage', objects', o),
         \A d \in Cpu : \A u : In(P[d], combpage, objects, u) =>
           In(P2[d], combpage', objects', u) /\ u \notin N,
         \A c \in Cpu : pc'[c] = "search" => pc[c] = "search" /\ ptr'[c] = ptr[c] /\ at'[c] = at[c],
         \A c \in Cpu : pc'[c] # "lost"
  PROVE  LiveInv(P2)'
<1>1. ASSUME NEW o \in live' PROVE \E d \in Cpu : In(P2[d], combpage', objects', o)
  BY DEF LiveInv
<1>2. ASSUME NEW c \in Cpu, pc'[c] = "search" PROVE Ahead(P2, combpage, objects, c)'
  <2>1. Ahead(P, combpage, objects, c)
    BY <1>2 DEF LiveInv
  <2>2. PICK d \in Cpu : at[c] <= d /\ \E o \in Pair : /\ In(P[d], combpage, objects, o)
                                                       /\ o[1] = ptr[c] /\ o \notin live
    BY <2>1 DEF Ahead
  <2>3. PICK o \in Pair : In(P[d], combpage, objects, o) /\ o[1] = ptr[c] /\ o \notin live
    BY <2>2
  <2>4. In(P2[d], combpage', objects', o) /\ o \notin live' /\ o[1] = ptr'[c] /\ at'[c] <= d
    BY <1>2, <2>2, <2>3
  <2>. QED BY <2>4 DEF Ahead
<1>3. \A c, d \in Cpu : pc'[c] = "search" /\ pc'[d] = "search" /\ c # d => ptr'[c] # ptr'[d]
  BY DEF LiveInv
<1>. QED BY <1>1, <1>2, <1>3 DEF LiveInv

\* The lists and hands, in a step that leaves them alone.
LEMMA ListsStay ==
  ASSUME NEW home, NEW P, ListInv(home, P), OwnInv(home), UNCHANGED nodeVars,
         \A d \in Cpu : /\ pc'[d] = "link" <=> pc[d] = "link"
                        /\ pc'[d] = "giveBack" <=> pc[d] = "giveBack"
                        /\ pc[d] \in {"link", "giveBack"} => ptr'[d] = ptr[d]
  PROVE  ListInv(home, P)' /\ OwnInv(home)'
<1>1. /\ own' = own /\ combpage' = combpage /\ next' = next
      /\ serverPages' = serverPages /\ poolPages' = poolPages
  BY DEF nodeVars
<1>2. \A c \in Cpu : HandInv(home, c)'
  <2>1. ASSUME NEW c \in Cpu PROVE HandInv(home, c)'
    <3>1. HandInv(home, c)
      BY DEF ListInv
    <3>2. pc'[c] \in {"link", "giveBack"} <=> pc[c] \in {"link", "giveBack"}
      OBVIOUS
    <3>3. CASE pc[c] \in {"link", "giveBack"}
      <4>1. HandOk(ptr'[c], next', combpage', At(home, Hand(c)))
        BY <1>1, <3>1, <3>3 DEF HandInv
      <4>. QED BY <3>2, <3>3, <4>1 DEF HandInv, At
    <3>4. CASE pc[c] \notin {"link", "giveBack"}
      BY <3>1, <3>2, <3>4 DEF HandInv, At
    <3>. QED BY <3>3, <3>4
  <2>. QED BY <2>1
<1>3. ListInv(home, P)'
  BY <1>1, <1>2 DEF ListInv, NextOk, At
<1>4. OwnInv(home)'
  <2>1. ASSUME NEW p \in Page PROVE own'[p] = 1 <=> Owned(home, p)'
    BY <1>1 DEF OwnInv, Owned
  <2>. QED BY <2>1 DEF OwnInv
<1>. QED BY <1>3, <1>4

\* Two objects of pools that start at the same address are one.
LEMMA SameStart ==
  ASSUME TypeInv, NEW home, NEW P, P \in [Cpu -> Seq(Page)], ListInv(home, P), ObjInv(P),
         NEW c \in Cpu, NEW d \in Cpu, NEW o, NEW u, o[1] = u[1],
         In(P[c], combpage, objects, o), In(P[d], combpage, objects, u)
  PROVE  c = d /\ o = u
<1>1. PICK i \in 1 .. Len(P[c]) : Holds(combpage, objects, P[c][i], o)
  BY DEF In
<1>2. PICK j \in 1 .. Len(P[d]) : Holds(combpage, objects, P[d][j], u)
  BY DEF In
<1>. QED BY <1>1, <1>2, SameObject
\* What a step leaves of the objects of the pools: those of N are new, those of G are
\* gone; and a block that a CPU gives back is in its hands until it has.
Leaves(home, P, home2, P2, N, G) ==
  /\ \A u \in N : \E d \in Cpu : In(P2[d], combpage', objects', u)
  /\ \A d \in Cpu : \A u : In(P[d], combpage, objects, u) =>
       u \notin N /\ (u \in G \/ In(P2[d], combpage', objects', u))
  /\ \A d \in Cpu : pc[d] = "giveBack" /\ pc'[d] = "giveBack" =>
       At(home2, Hand(d)) = At(home, Hand(d))

\* The invariant holds after the step.
After(home, P, N, G) ==
  /\ TypeInv' /\ SizeInv'
  /\ \E home2, P2 : Inv(home2, P2)' /\ Leaves(home, P, home2, P2, N, G)

\* Cpu c has object o in its hands: it lies in pages b .. t of them.
Carries(c, o) == /\ o \in Pair /\ o[1] < o[2]
                 /\ \E b, t \in Page : /\ b <= t /\ Start(b) <= o[1] /\ o[2] <= End(t)
                                       /\ \A p \in b .. t : p \in InHand(c)

\* A step of cpu c on its way to free object o.
Releases(home, P, c, o) ==
  /\ o[1] = ptr[c] /\ \E d \in Cpu : In(P[d], combpage, objects, o)
  /\ \/ pc'[c] = "search" /\ ptr'[c] = ptr[c] /\ After(home, P, {}, {})
     \/ pc'[c] = "giveBack" /\ Carries(c, o)' /\ After(home, P, {}, {o})
     \/ pc'[c] = "idle" /\ After(home, P, {}, {o})

LEMMA AfterIs ==
  ASSUME NEW home, NEW P, NEW N, NEW G, After(home, P, N, G) PROVE IInv'
  BY DEF After, IInv

\* A step that changes neither lists nor objects.
LEMMA NoneLeft ==
  ASSUME NEW home, NEW P, TypeInv', SizeInv', Inv(home, P)', combpage' = combpage, objects' = objects
  PROVE  After(home, P, {}, {})
<1>1. Leaves(home, P, home, P, {}, {})
  BY DEF Leaves
<1>. QED BY <1>1 DEF After
------------------------------------------------------------------------------
(* The steps.                                                              *)

\* kfree is called.
LEMMA KfreeStep ==
  ASSUME TypeInv, SizeInv, NEW home, NEW P, Inv(home, P), NEW c \in Cpu, NEW o \in live, Kfree(c, o)
  PROVE  After(home, P, {}, {})
<1>1. /\ pc[c] = "idle" /\ live' = live \ {o} /\ UNCHANGED <<nodeVars, objects, poolLock, size>>
      /\ ptr' = [ptr EXCEPT ![c] = o[1]] /\ at' = [at EXCEPT ![c] = 0]
      /\ pc' = [pc EXCEPT ![c] = "search"]
  BY DEF Kfree
<1>2. /\ home \in [Page -> Home] /\ P \in [Cpu -> Seq(Page)] /\ ListInv(home, P) /\ OwnInv(home)
      /\ LinkInv /\ ObjInv(P) /\ LiveInv(P)
  BY DEF Inv
<1>3. /\ pc \in [Cpu -> {"idle", "fetch", "link", "search", "giveBack", "lost"}]
      /\ ptr \in [Cpu -> Address \cup Page] /\ at \in [Cpu -> Cpu]
      /\ live \subseteq Address \X Address /\ o[1] \in Address
  BY DEF TypeInv
<1>4. /\ pc'[c] = "search" /\ ptr'[c] = o[1] /\ at'[c] = 0
      /\ \A d \in Cpu : d # c => pc'[d] = pc[d] /\ ptr'[d] = ptr[d] /\ at'[d] = at[d]
  BY <1>1, <1>3
<1>5. 0 \in Cpu /\ \A d \in Cpu : d \in Nat /\ 0 <= d
  BY CountAssumption DEF Cpu
<1>6. TypeInv'
  BY <1>1, <1>3, <1>5 DEF TypeInv, nodeVars
<1>7. SizeInv'
  BY <1>1, <1>4 DEF SizeInv
<1>8. ListInv(home, P)' /\ OwnInv(home)'
  BY <1>1, <1>2, <1>4, ListsStay
<1>9. LinkInv'
  BY <1>1, <1>2, <1>4 DEF LinkInv, nodeVars
<1>10. ObjInv(P)'
  BY <1>1, <1>2 DEF ObjInv, nodeVars, Single
<1>11. LiveInv(P)'
  <2>1. combpage' = combpage /\ objects' = objects
    BY <1>1 DEF nodeVars
  <2>2. \A u \in live' : \E d \in Cpu : In(P[d], combpage', objects', u)
    BY <1>1, <1>2, <2>1 DEF LiveInv
  <2>3. PICK e \in Cpu : In(P[e], combpage, objects, o)
    BY <1>2 DEF LiveInv
  <2>4. o \in Pair
    BY <1>2, <2>3, InBlock
  <2>5. ASSUME NEW d \in Cpu, pc[d] = "search"
        PROVE  \E x \in Cpu : at[d] <= x /\ \E u \in Pair : /\ In(P[x], combpage, objects, u)
                                           /\ u[1] = ptr[d] /\ u \notin live /\ u[1] # o[1]
    <3>1. PICK x \in Cpu : at[d] <= x /\ \E u \in Pair : /\ In(P[x], combpage, objects, u)
                                                         /\ u[1] = ptr[d] /\ u \notin live
      BY <1>2, <2>5 DEF LiveInv, Ahead
    <3>2. PICK u \in Pair : In(P[x], combpage, objects, u) /\ u[1] = ptr[d] /\ u \notin live
      BY <3>1
    <3>3. u[1] = o[1] => u = o
      BY <1>2, <2>3, <3>2, SameStart
    <3>. QED BY <3>1, <3>2, <3>3
  <2>6. ASSUME NEW d \in Cpu, pc'[d] = "search" PROVE Ahead(P, combpage, objects, d)'
    <3>1. CASE d = c
      <4>1. at'[c] <= e /\ o[1] = ptr'[c] /\ o \notin live'
        BY <1>1, <1>4, <1>5
      <4>. QED BY <2>1, <2>3, <2>4, <3>1, <4>1 DEF Ahead
    <3>2. CASE d # c
      <4>1. PICK x \in Cpu : at[d] <= x /\ \E u \in Pair : /\ In(P[x], combpage, objects, u)
                                                           /\ u[1] = ptr[d] /\ u \notin live
        BY <1>4, <2>5, <2>6, <3>2
      <4>2. PICK u \in Pair : In(P[x], combpage, objects, u) /\ u[1] = ptr[d] /\ u \notin live
        BY <4>1
      <4>3. u \notin live' /\ u[1] = ptr'[d] /\ at'[d] <= x
        BY <1>1, <1>4, <3>2, <4>1, <4>2
      <4>. QED BY <2>1, <4>2, <4>3 DEF Ahead
    <3>. QED BY <3>1, <3>2
  <2>7. \A d \in Cpu : pc'[d] = "search" /\ d # c => ptr'[d] # o[1]
    BY <1>4, <2>5
  <2>8. \A d, x \in Cpu : pc'[d] = "search" /\ pc'[x] = "search" /\ d # x => ptr'[d] # ptr'[x]
    BY <1>2, <1>4, <2>7, SMTT(30) DEF LiveInv
  <2>9. \A d \in Cpu : pc'[d] # "lost"
    BY <1>2, <1>4 DEF LiveInv
  <2>. QED BY <2>2, <2>6, <2>8, <2>9 DEF LiveInv
<1>12. Inv(home, P)'
  BY <1>2, <1>8, <1>9, <1>10, <1>11 DEF Inv
<1>. QED BY <1>1, <1>6, <1>7, <1>12, NoneLeft DEF nodeVars

\* A new object comes into a page of its pool.
LEMMA DeliverStep ==
  ASSUME TypeInv, NEW home, NEW P, Inv(home, P), NEW c \in Cpu,
         NEW i \in 1 .. Len(P[c]), NEW s \in Nat \ {0}, s < PageSize,
         combpage[P[c][i]] = 0, Gaps(P[c][i], s) # {}, combpage' = combpage,
         objects' = Deliver(P[c][i], s), live' = live \cup {Object(P[c][i], s)},
         UNCHANGED <<pc, ptr, at>>
  PROVE  /\ objects' \in [Page -> Seq(Pair)] /\ live' \subseteq Address \X Address
         /\ ObjInv(P)' /\ LiveInv(P)'
         /\ Leaves(home, P, home, P, {Object(P[c][i], s)}, {})
<1> DEFINE h == P[c][i]
           o == Object(h, s)
           M == InsertAt(objects[h], Min(Gaps(h, s)), o)
<1>1. /\ P \in [Cpu -> Seq(Page)] /\ ListInv(home, P) /\ ObjInv(P) /\ LiveInv(P)
  BY DEF Inv
<1>2. h \in Page /\ PageOk(h, objects[h]) /\ \A p \in BlockOf(combpage, h) : home[p] = Pool(c)
  BY <1>1, PoolBlock
<1>3. /\ PageOk(h, M) /\ M # <<>> /\ o \in Pair /\ Fine(h, o)
      /\ \E k \in 1 .. Len(M) : M[k] = o
      /\ \A k \in 1 .. Len(objects[h]) : /\ objects[h][k][1] # o[1]
                                         /\ \E j \in 1 .. Len(M) : M[j] = objects[h][k]
  BY <1>2, Delivered, SMTT(30)
<1>4. objects \in [Page -> Seq(Pair)] /\ combpage \in Counts /\ live \subseteq Address \X Address
  BY DEF TypeInv
<1>5. /\ objects' = [objects EXCEPT ![h] = M]
      /\ objects'[h] = M /\ \A p \in Page : p # h => objects'[p] = objects[p]
  BY <1>2, <1>4 DEF Deliver
<1>6. M \in Seq(Pair)
  BY <1>3 DEF PageOk
<1>7. objects' \in [Page -> Seq(Pair)]
  BY <1>2, <1>4, <1>5, <1>6
<1>8. o[1] \in Address /\ o[2] \in Address /\ o = <<o[1], o[2]>>
  <2> DEFINE x == o[1]
             y == o[2]
  <2>1. x \in Nat /\ y \in Nat /\ o = <<x, y>> /\ x < y /\ y <= End(h) /\ End(h) \in Nat
    BY <1>2, <1>3, Addresses DEF Pair, Fine
  <2> HIDE DEF x, y
  <2>2. x <= End(h)
    BY <2>1
  <2>. QED BY <1>2, <2>1, <2>2, UpToEnd DEF x, y
<1>9. live' \subseteq Address \X Address
  <2>1. o \in Address \X Address
    BY <1>8
  <2>. QED BY <1>4, <2>1
<1> HIDE DEF M
<1>10. \A p \in Page : /\ PageOk(p, objects'[p])
                       /\ objects'[p] # <<>> => p = h \/ objects[p] # <<>>
                       /\ objects[p] # <<>> => objects'[p] # <<>>
  BY <1>1, <1>3, <1>5 DEF ObjInv
<1>11. Single(P, combpage, h)
  BY DEF Single
<1>12. ObjInv(P)'
  <2>1. ASSUME NEW p \in Page, objects'[p] # <<>> PROVE Single(P, combpage', p)
    BY <1>1, <1>10, <1>11, <2>1 DEF ObjInv
  <2>2. ASSUME NEW d \in Cpu, NEW j \in 1 .. Len(P[d]) PROVE HeadInv(combpage', objects', P[d][j])
    <3>1. P[d][j] \in Page /\ HeadInv(combpage, objects, P[d][j])
      BY <1>1, PoolBlock
    <3>. QED BY <1>10, <3>1 DEF HeadInv
  <2>. QED BY <1>10, <2>1, <2>2 DEF ObjInv
<1>13. In(P[c], combpage', objects', o)
  <2>1. Holds(combpage', objects', h, o)
    BY <1>3, <1>5 DEF Holds
  <2>. QED BY <2>1 DEF In
<1>14. ASSUME NEW d \in Cpu, NEW u, In(P[d], combpage, objects, u)
       PROVE  In(P[d], combpage', objects', u) /\ u # o
  <2>1. PICK j \in 1 .. Len(P[d]) : Holds(combpage, objects, P[d][j], u)
    BY <1>14 DEF In
  <2> DEFINE g == P[d][j]
  <2>2. g \in Page /\ PageOk(g, objects[g]) /\ TailOf(combpage, g) \in Page
    BY <1>1, PoolBlock
  <2>3. \A k \in 1 .. Len(objects[g]) : \E l \in 1 .. Len(objects'[g]) : objects'[g][l] = objects[g][k]
    <3>1. CASE g = h
      <4>1. \A k \in 1 .. Len(objects[h]) : \E l \in 1 .. Len(objects'[h]) : objects'[h][l] = objects[h][k]
        BY <1>3, <1>5
      <4> HIDE DEF g, h
      <4>. QED BY <3>1, <4>1
    <3>2. CASE g # h
      BY <1>5, <2>2, <3>2
    <3>. QED BY <3>1, <3>2
  <2>4. Holds(combpage', objects', g, u)
    <3>1. Holds(combpage, objects', g, u)
      <4>1. Holds(combpage, objects, g, u)
        BY <2>1
      <4> HIDE DEF g
      <4>2. CASE combpage[g] = 0
        <5>1. PICK k \in 1 .. Len(objects[g]) : u = objects[g][k]
          BY <4>1, <4>2 DEF Holds
        <5>2. PICK l \in 1 .. Len(objects'[g]) : objects'[g][l] = objects[g][k]
          BY <2>3
        <5>. QED BY <4>2, <5>1, <5>2 DEF Holds
      <4>3. CASE combpage[g] # 0
        BY <4>1, <4>3 DEF Holds
      <4>. QED BY <4>2, <4>3
    <3>. QED BY <3>1 DEF Holds
  <2>5. u # o
    <3>1. CASE g = h
      <4>1. PICK k \in 1 .. Len(objects[h]) : u = objects[h][k]
        BY <2>1, <3>1 DEF Holds
      <4>. QED BY <1>3, <4>1
    <3>2. CASE g # h
      <4>1. /\ u[1] \in Nat /\ Start(g) <= u[1] /\ u[1] < u[2] /\ u[2] <= End(TailOf(combpage, g))
            /\ u[2] \in Nat
        BY <1>4, <2>1, <2>2, HoldsWithin
      <4>2. End(TailOf(combpage, g)) \in Nat /\ Start(h) \in Nat /\ End(h) \in Nat /\ Header \in Nat
            /\ TailOf(combpage, h) = h
        BY <1>2, <2>2, Addresses, Sizes DEF TailOf
      <4>3. Start(h) + Header <= o[1] /\ o[1] < o[2] /\ o[2] <= End(h)
        BY <1>3 DEF Fine
      <4> SUFFICES ASSUME u = o PROVE FALSE
        OBVIOUS
      <4> DEFINE x == u[1]
                 y == u[2]
      <4>4. /\ x \in Nat /\ y \in Nat /\ Start(g) <= x /\ x < y /\ y <= End(TailOf(combpage, g))
            /\ Start(h) + Header <= x /\ y <= End(h)
        BY <4>1, <4>3
      <4> HIDE DEF x, y
      <4>5. Start(g) <= x /\ x < End(TailOf(combpage, g)) /\ Start(h) <= x /\ x < End(TailOf(combpage, h))
        BY <4>2, <4>4, SMTT(30)
      <4>6. c = d /\ i = j
        BY <1>1, <4>4, <4>5, OnePlace
      <4>. QED BY <3>2, <4>6
    <3>. QED BY <3>1, <3>2
  <2>. QED BY <2>4, <2>5 DEF In
<1>15. LiveInv(P)'
  <2>1. \A d \in Cpu : pc[d] # "lost"
    BY <1>1 DEF LiveInv
  <2> HIDE DEF o
  <2>2. live' = live \cup {o}
    BY DEF o
  <2>3. \A u \in {o} : \E d \in Cpu : In(P[d], combpage', objects', u)
    BY <1>13
  <2>4. \A d \in Cpu : \A u : In(P[d], combpage, objects, u) =>
           In(P[d], combpage', objects', u) /\ u \notin {o}
    BY <1>14
  <2>. QED BY <1>1, <2>1, <2>2, <2>3, <2>4, LiveStep
<1>16. Leaves(home, P, home, P, {o}, {})
  BY <1>13, <1>14 DEF Leaves
<1>. QED BY <1>7, <1>9, <1>12, <1>15, <1>16

\* The same, in a step that delivers no object either.
LEMMA LiveSame ==
  ASSUME NEW P, NEW P2, LiveInv(P), live' = live,
         \A d \in Cpu : \A u : In(P[d], combpage, objects, u) => In(P2[d], combpage', objects', u),
         \A c \in Cpu : pc'[c] = "search" => pc[c] = "search" /\ ptr'[c] = ptr[c] /\ at'[c] = at[c],
         \A c \in Cpu : pc'[c] # "lost"
  PROVE  LiveInv(P2)'
<1> DEFINE N == {}
<1>1. live' = live \cup N /\ \A u : u \notin N
  OBVIOUS
<1> HIDE DEF N
<1>2. \A o \in N : \E d \in Cpu : In(P2[d], combpage', objects', o)
  BY <1>1
<1>3. \A d \in Cpu : \A u : In(P[d], combpage, objects, u) =>
        In(P2[d], combpage', objects', u) /\ u \notin N
  BY <1>1
<1>. QED BY <1>1, <1>2, <1>3, LiveStep

\* kalloc carves a small object from its pool, or goes to the server.
LEMMA CarveStep ==
  ASSUME TypeInv, SizeInv, NEW home, NEW P, Inv(home, P), NEW c \in Cpu,
         NEW k \in 0 .. 24, NEW s, s = Power[k], Carve(c, s)
  PROVE  \/ /\ pc'[c] = "idle"
            /\ \E o : live' = live \cup {o} /\ After(home, P, {o}, {})
         \/ pc'[c] = "fetch" /\ live' = live /\ After(home, P, {}, {})
<1>1. /\ P \in [Cpu -> Seq(Page)] /\ ListInv(home, P) /\ OwnInv(home)
      /\ home \in [Page -> Home] /\ LinkInv /\ ObjInv(P) /\ LiveInv(P)
  BY DEF Inv
<1>2. Heads(poolPages[c]) = P[c] /\ P[c] \in Seq(Page) /\ Len(P[c]) \in Nat
  <2>1. Heads(poolPages[c]) = P[c]
    BY Lists
  <2>. QED BY <1>1, <2>1
<1> DEFINE I == {j \in 1 .. Len(P[c]) : combpage[P[c][j]] = 0 /\ Gaps(P[c][j], s) # {}}
           i == IF I # {} THEN Min(I) ELSE 0
<1>3. i = SelectInSeq(Heads(poolPages[c]), LAMBDA h : combpage[h] = 0 /\ Gaps(h, s) # {})
  BY <1>2 DEF SelectInSeq
<1>4. i \in 0 .. Len(P[c]) /\ (i # 0 => i \in I)
  <2>1. I \in SUBSET (1 .. Len(P[c]))
    OBVIOUS
  <2> HIDE DEF I
  <2>. QED BY <1>2, <2>1, FirstMatch
<1>5. /\ i # 0 => combpage[P[c][i]] = 0 /\ Gaps(P[c][i], s) # {} /\ i \in 1 .. Len(P[c])
  BY <1>4
<1> HIDE DEF i, I
<1>6. /\ pc[c] = "idle" /\ poolLock[c] = None /\ UNCHANGED <<nodeVars, ptr, at>>
      /\ \/ /\ s < PageSize
            /\ i # 0
            /\ objects' = Deliver(P[c][i], s)
            /\ live' = live \cup {Object(P[c][i], s)}
            /\ UNCHANGED <<poolLock, pc, size>>
         \/ /\ s >= PageSize \/ i = 0
            /\ poolLock' = [poolLock EXCEPT ![c] = c]
            /\ size' = [size EXCEPT ![c] = s]
            /\ pc' = [pc EXCEPT ![c] = "fetch"]
            /\ UNCHANGED <<objects, live>>
  BY <1>2, <1>3 DEF Carve
<1>7. s \in Nat \ {0}
  BY Powers
<1>8. combpage' = combpage /\ next' = next /\ own' = own /\ serverPages' = serverPages
      /\ poolPages' = poolPages /\ ptr' = ptr /\ at' = at
  BY <1>6 DEF nodeVars
<1>9. CASE /\ s < PageSize /\ i # 0
           /\ objects' = Deliver(P[c][i], s)
           /\ live' = live \cup {Object(P[c][i], s)}
           /\ UNCHANGED <<poolLock, pc, size>>
  <2>1. /\ objects' \in [Page -> Seq(Pair)] /\ live' \subseteq Address \X Address
        /\ ObjInv(P)' /\ LiveInv(P)'
        /\ Leaves(home, P, home, P, {Object(P[c][i], s)}, {})
    BY <1>5, <1>7, <1>8, <1>9, DeliverStep
  <2>2. TypeInv'
    BY <1>8, <1>9, <2>1 DEF TypeInv
  <2>3. SizeInv'
    BY <1>9 DEF SizeInv
  <2>4. ListInv(home, P)' /\ OwnInv(home)'
    BY <1>1, <1>6, <1>9, ListsStay
  <2>5. LinkInv'
    BY <1>1, <1>8, <1>9 DEF LinkInv
  <2>6. Inv(home, P)'
    BY <1>1, <2>1, <2>4, <2>5 DEF Inv
  <2>7. After(home, P, {Object(P[c][i], s)}, {})
    BY <2>1, <2>2, <2>3, <2>6 DEF After
  <2>. QED BY <1>6, <1>9, <2>7
<1>10. CASE /\ poolLock' = [poolLock EXCEPT ![c] = c]
            /\ size' = [size EXCEPT ![c] = s]
            /\ pc' = [pc EXCEPT ![c] = "fetch"]
            /\ UNCHANGED <<objects, live>>
  <2>1. /\ pc \in [Cpu -> {"idle", "fetch", "link", "search", "giveBack", "lost"}]
        /\ size \in [Cpu -> Nat]
    BY DEF TypeInv
  <2>2. /\ pc'[c] = "fetch" /\ size'[c] = s
        /\ \A d \in Cpu : d # c => pc'[d] = pc[d] /\ size'[d] = size[d]
    BY <1>10, <2>1
  <2>3. TypeInv'
    BY <1>7, <1>8, <1>10 DEF TypeInv
  <2>4. SizeInv'
    BY <2>2 DEF SizeInv
  <2>5. ListInv(home, P)' /\ OwnInv(home)'
    BY <1>1, <1>6, <2>2, ListsStay
  <2>6. LinkInv'
    BY <1>1, <1>8, <2>2 DEF LinkInv
  <2>7. ObjInv(P)'
    BY <1>1, <1>8, <1>10 DEF ObjInv, Single
  <2>8. LiveInv(P)'
    <3>2. \A d \in Cpu : \A u : In(P[d], combpage, objects, u) =>
            In(P[d], combpage', objects', u)
      BY <1>8, <1>10
    <3>3. \A d \in Cpu : pc'[d] # "lost"
      BY <1>1, <2>2 DEF LiveInv
    <3>4. \A d \in Cpu : pc'[d] = "search" => pc[d] = "search" /\ ptr'[d] = ptr[d] /\ at'[d] = at[d]
      BY <1>8, <2>2
    <3>. QED BY <1>1, <1>10, <3>2, <3>3, <3>4, LiveSame
  <2>9. Inv(home, P)'
    BY <1>1, <2>5, <2>6, <2>7, <2>8 DEF Inv
  <2>10. After(home, P, {}, {})
    BY <1>8, <1>10, <2>3, <2>4, <2>9, NoneLeft
  <2>. QED BY <1>10, <2>2, <2>10
<1>. QED BY <1>6, <1>9, <1>10

\* The server has no room: kalloc gives up.
LEMMA FetchFails ==
  ASSUME TypeInv, SizeInv, NEW home, NEW P, Inv(home, P), NEW c \in Cpu, pc[c] = "fetch",
         pc' = [pc EXCEPT ![c] = "idle"], size' = [size EXCEPT ![c] = 0],
         poolLock' = [poolLock EXCEPT ![c] = None],
         UNCHANGED <<nodeVars, ptr, objects, at, live>>
  PROVE  After(home, P, {}, {})
<1>1. /\ P \in [Cpu -> Seq(Page)] /\ ListInv(home, P) /\ OwnInv(home)
      /\ home \in [Page -> Home] /\ LinkInv /\ ObjInv(P) /\ LiveInv(P)
  BY DEF Inv
<1>2. combpage' = combpage /\ next' = next /\ own' = own /\ serverPages' = serverPages
      /\ poolPages' = poolPages /\ ptr' = ptr /\ at' = at /\ objects' = objects /\ live' = live
  BY DEF nodeVars
<1>3. /\ pc \in [Cpu -> {"idle", "fetch", "link", "search", "giveBack", "lost"}]
      /\ size \in [Cpu -> Nat]
  BY DEF TypeInv
<1>4. /\ pc'[c] = "idle"
      /\ \A d \in Cpu : d # c => pc'[d] = pc[d] /\ size'[d] = size[d]
  BY <1>3
<1>5. TypeInv'
  BY <1>2 DEF TypeInv
<1>6. SizeInv'
  BY <1>4 DEF SizeInv
<1>7. ListInv(home, P)' /\ OwnInv(home)'
  BY <1>1, <1>4, ListsStay
<1>8. LinkInv'
  BY <1>1, <1>2, <1>4 DEF LinkInv
<1>9. ObjInv(P)'
  BY <1>1, <1>2 DEF ObjInv, Single
<1>10. LiveInv(P)'
  <2>2. \A d \in Cpu : \A u : In(P[d], combpage, objects, u) =>
          In(P[d], combpage', objects', u)
    BY <1>2
  <2>3. \A d \in Cpu : pc'[d] # "lost"
    BY <1>1, <1>4 DEF LiveInv
  <2>4. \A d \in Cpu : pc'[d] = "search" => pc[d] = "search" /\ ptr'[d] = ptr[d] /\ at'[d] = at[d]
    BY <1>2, <1>4
  <2>. QED BY <1>1, <1>2, <2>2, <2>3, <2>4, LiveSame
<1>11. Inv(home, P)'
  BY <1>1, <1>7, <1>8, <1>9, <1>10 DEF Inv
<1>. QED BY <1>2, <1>5, <1>6, <1>11, NoneLeft

\* Nothing happens.
LEMMA NoStep ==
  ASSUME TypeInv, SizeInv, NEW home, NEW P, Inv(home, P), UNCHANGED vars
  PROVE  After(home, P, {}, {})
<1>2. /\ own' = own /\ combpage' = combpage /\ next' = next /\ serverPages' = serverPages
      /\ poolPages' = poolPages /\ objects' = objects /\ poolLock' = poolLock /\ pc' = pc
      /\ size' = size /\ ptr' = ptr /\ at' = at /\ live' = live /\ UNCHANGED nodeVars
  BY DEF vars, nodeVars, callVars
<1>3. TypeInv' /\ SizeInv'
  BY <1>2 DEF TypeInv, SizeInv
<1>4. ListInv(home, P)' /\ OwnInv(home)'
  BY <1>2, ListsStay DEF Inv
<1>5. Inv(home, P)'
  BY <1>2, <1>4 DEF Inv, LinkInv, ObjInv, LiveInv, Single, Ahead
<1>. QED BY <1>2, <1>3, <1>5, NoneLeft

\* Page s lies before the i-th block of a list, and after page before.
LiesAt(S, cb, i, s, before) ==
  /\ \A k \in 1 .. i - 1 : TailOf(cb, S[k]) < s
  /\ \A k \in i .. Len(S) : S[k] >= s
  /\ before = IF i = 1 THEN NULL ELSE TailOf(cb, S[i - 1])

\* The last page before s of the server's list.
LEMMA PriorPage ==
  ASSUME NEW cb \in Counts, NEW nx, NEW first, NEW V \in SUBSET Page, NEW S,
         IsList(first, S, nx, cb, V), Sorted(S, cb), NEW i \in 1 .. Len(S) + 1, NEW s \in Page,
         NEW before, LiesAt(S, cb, i, s, before)
  PROVE  /\ before = NULL \/ (before \in V /\ before < s)
         /\ \A p \in V : p < s => before # NULL /\ p <= before
<1> USE DEF LiesAt
<1>1. Len(S) \in Nat /\ \A k \in 1 .. Len(S) : /\ S[k] \in Page /\ TailOf(cb, S[k]) \in Page
                                               /\ \A p \in BlockOf(cb, S[k]) : p \in V
  BY DEF IsList
<1>2. \A k \in 1 .. i - 1 : k \in 1 .. Len(S)
  BY <1>1
<1>3. \A k \in 1 .. Len(S) : /\ S[k] \in Nat /\ TailOf(cb, S[k]) \in Nat /\ S[k] >= 1
                             /\ S[k] <= TailOf(cb, S[k]) /\ TailOf(cb, S[k]) >= 1
  <2>1. ASSUME NEW k \in 1 .. Len(S)
        PROVE  /\ S[k] \in Nat /\ TailOf(cb, S[k]) \in Nat /\ S[k] >= 1
               /\ S[k] <= TailOf(cb, S[k]) /\ TailOf(cb, S[k]) >= 1
    <3>1. S[k] \in Page /\ S[k] <= TailOf(cb, S[k]) /\ TailOf(cb, S[k]) \in Page
      BY <1>1, TailAfter
    <3>. QED BY <3>1 DEF Page
  <2>. QED BY <2>1
<1>4. ASSUME i # 1 PROVE before \in V /\ before < s
  <2>1. i - 1 \in 1 .. i - 1 /\ i - 1 \in 1 .. Len(S)
    BY <1>1, <1>4
  <2>2. TailOf(cb, S[i - 1]) \in BlockOf(cb, S[i - 1])
    BY <1>3, <2>1 DEF BlockOf
  <2>. QED BY <1>1, <1>4, <2>1, <2>2
<1>5. ASSUME NEW p \in V, p < s PROVE before # NULL /\ p <= before
  <2>1. PICK k \in 1 .. Len(S) : p \in BlockOf(cb, S[k])
    BY DEF IsList
  <2>2. p \in Nat /\ S[k] <= p /\ p <= TailOf(cb, S[k])
    BY <1>3, <2>1 DEF BlockOf, Page
  <2>3. s \in Nat
    BY DEF Page
  <2>4. ~ (S[k] >= s)
    BY <1>3, <1>5, <2>2, <2>3
  <2>5. k \in 1 .. i - 1 /\ k <= i - 1
    BY <1>1, <2>4
  <2>6. i # 1 /\ i - 1 \in 1 .. Len(S) /\ k \in Nat
    BY <1>1, <2>5
  <2>7. TailOf(cb, S[k]) <= TailOf(cb, S[i - 1])
    <3>1. CASE k = i - 1
      BY <1>3, <3>1
    <3>2. CASE k < i - 1
      <4>1. TailOf(cb, S[k]) < S[i - 1]
        BY <2>6, <3>2 DEF Sorted
      <4>. QED BY <1>3, <2>6, <4>1
    <3>. QED BY <2>5, <2>6, <3>1, <3>2
  <2>8. before = TailOf(cb, S[i - 1]) /\ before >= 1 /\ before \in Nat /\ TailOf(cb, S[k]) \in Nat
    BY <1>3, <2>6
  <2> DEFINE x == TailOf(cb, S[k])
             y == TailOf(cb, S[i - 1])
  <2>9. p \in Nat /\ x \in Nat /\ y \in Nat /\ p <= x /\ x <= y /\ before = y /\ y >= 1
    BY <2>2, <2>7, <2>8
  <2> HIDE DEF LiesAt, x, y
  <2>. QED BY <2>9 DEF NULL
<1>. QED BY <1>4, <1>5

\* The objects, in a step that changes no page of a pool.
LEMMA ObjectsStay ==
  ASSUME TypeInv, NEW home, NEW P, P \in [Cpu -> Seq(Page)], ListInv(home, P), ObjInv(P),
         objects' = objects,
         \A d \in Cpu : \A j \in 1 .. Len(P[d]) : combpage'[P[d][j]] = combpage[P[d][j]]
  PROVE  /\ ObjInv(P)'
         /\ \A d \in Cpu : \A u : In(P[d], combpage, objects, u) => In(P[d], combpage', objects', u)
<1>1. ASSUME NEW p \in Page, Single(P, combpage, p) PROVE Single(P, combpage', p)
  BY <1>1 DEF Single
<1>2. \A d \in Cpu : \A j \in 1 .. Len(P[d]) : HeadInv(combpage', objects', P[d][j])
  BY DEF ObjInv, HeadInv
<1>3. ObjInv(P)'
  BY <1>1, <1>2 DEF ObjInv
<1>4. ASSUME NEW d \in Cpu, NEW u, In(P[d], combpage, objects, u)
      PROVE  In(P[d], combpage', objects', u)
  <2>1. PICK j \in 1 .. Len(P[d]) : Holds(combpage, objects, P[d][j], u)
    BY <1>4 DEF In
  <2>2. Holds(combpage', objects', P[d][j], u)
    BY <2>1 DEF Holds
  <2>. QED BY <2>2 DEF In
<1>. QED BY <1>3, <1>4

\* A step that changes no page of the homes that are not among X.
Only(X, home, home2, P, P2) ==
  /\ \A p \in Page : home[p] \notin X => next'[p] = next[p] /\ combpage'[p] = combpage[p]
  /\ \A d \in Cpu : Pool(d) \notin X => /\ At(home2, Pool(d)) = At(home, Pool(d))
                                        /\ P2[d] = P[d] /\ poolPages'[d] = poolPages[d]
  /\ \A d \in Cpu : Hand(d) \notin X => /\ At(home2, Hand(d)) = At(home, Hand(d))
                                        /\ pc'[d] = pc[d] /\ ptr'[d] = ptr[d]

\* Their lists and hands stay as they are.
LEMMA OthersKept ==
  ASSUME TypeInv, TypeInv', NEW home, NEW home2, NEW P, NEW P2, ListInv(home, P), NEW X,
         Only(X, home, home2, P, P2)
  PROVE  /\ \A d \in Cpu : Pool(d) \notin X =>
              IsList(poolPages'[d], P2[d], next', combpage', At(home2, Pool(d)))
         /\ \A d \in Cpu : Hand(d) \notin X => HandInv(home2, d)'
         /\ Server \notin X => ServerOk(serverPages, next', combpage', At(home, Server))
<1>5. /\ \A p \in Page : home[p] \notin X => next'[p] = next[p] /\ combpage'[p] = combpage[p]
      /\ \A d \in Cpu : Pool(d) \notin X => /\ At(home2, Pool(d)) = At(home, Pool(d))
                                            /\ P2[d] = P[d] /\ poolPages'[d] = poolPages[d]
      /\ \A d \in Cpu : Hand(d) \notin X => /\ At(home2, Hand(d)) = At(home, Hand(d))
                                            /\ pc'[d] = pc[d] /\ ptr'[d] = ptr[d]
  BY DEF Only
<1>1. next \in Links /\ combpage \in Counts /\ next' \in Links /\ combpage' \in Counts
  BY DEF TypeInv
<1>2. ASSUME NEW d \in Cpu, Pool(d) \notin X
      PROVE  IsList(poolPages'[d], P2[d], next', combpage', At(home2, Pool(d)))
  <2>1. IsList(poolPages[d], P[d], next, combpage, At(home, Pool(d)))
    BY DEF ListInv
  <2>2. \A p \in At(home, Pool(d)) : next'[p] = next[p] /\ combpage'[p] = combpage[p]
    BY <1>2, <1>5 DEF At
  <2>3. At(home, Pool(d)) \in SUBSET Page
    BY AtPages
  <2>4. IsList(poolPages[d], P[d], next', combpage', At(home, Pool(d)))
    BY <1>1, <2>1, <2>2, <2>3, ListFrame
  <2>. QED BY <1>2, <1>5, <2>4
<1>3. ASSUME NEW d \in Cpu, Hand(d) \notin X PROVE HandInv(home2, d)'
  <2>1. HandInv(home, d)
    BY DEF ListInv
  <2>2. \A p \in At(home, Hand(d)) : next'[p] = next[p] /\ combpage'[p] = combpage[p]
    BY <1>3, <1>5 DEF At
  <2>3. At(home, Hand(d)) \in SUBSET Page
    BY AtPages
  <2>4. At(home2, Hand(d)) = At(home, Hand(d)) /\ pc'[d] = pc[d] /\ ptr'[d] = ptr[d]
    BY <1>3, <1>5
  <2>5. CASE pc[d] \in {"link", "giveBack"}
    <3>1. HandOk(ptr[d], next, combpage, At(home, Hand(d)))
      BY <2>1, <2>5 DEF HandInv
    <3>2. HandOk(ptr[d], next', combpage', At(home, Hand(d)))
      BY <1>1, <2>2, <2>3, <3>1, HandFrame
    <3>3. HandOk(ptr'[d], next', combpage', At(home2, Hand(d)))
      BY <2>4, <3>2
    <3>. QED BY <2>4, <2>5, <3>3 DEF HandInv, At
  <2>6. CASE pc[d] \notin {"link", "giveBack"}
    BY <2>1, <2>4, <2>6 DEF HandInv, At
  <2>. QED BY <2>5, <2>6
<1>4. ASSUME Server \notin X PROVE ServerOk(serverPages, next', combpage', At(home, Server))
  <2>1. \A p \in At(home, Server) : next'[p] = next[p] /\ combpage'[p] = combpage[p]
    BY <1>4, <1>5 DEF At
  <2>2. ServerOk(serverPages, next, combpage, At(home, Server))
    BY DEF ListInv
  <2> DEFINE V == At(home, Server)
  <2> HIDE DEF V
  <2>3. ServerOk(serverPages, next, combpage, V) /\ \A p \in V : next'[p] = next[p] /\ combpage'[p] = combpage[p]
    BY <2>1, <2>2 DEF V
  <2>4. ServerOk(serverPages, next', combpage', V)
    BY <2>3 DEF ServerOk, Run
  <2>. QED BY <2>4 DEF V
<1>. QED BY <1>2, <1>3, <1>4

\* The last page of the server before page b of its i-th block.
LastBefore(S, i, b) == IF b = S[i] THEN IF i = 1 THEN NULL ELSE TailOf(combpage, S[i - 1]) ELSE b - 1

\* Pages b..e of the server's block of page h, and the last page before them.
Chosen(V, h, b, e, before) ==
  /\ h \in Page /\ b \in Page /\ e \in Page /\ b <= e
  /\ \A p \in b .. e : p \in V
  /\ \A p \in b .. e - 1 : next[p] = p + 1
  /\ combpage[b] \in Nat /\ e <= b + combpage[b] - 1
  /\ before = NULL \/ (before \in V /\ before < b)
  /\ \A p \in V : p < b => before # NULL /\ p <= before
  /\ b # h <=> b - 1 \in V

\* What memserver_delivery does with them.
Taking(c, n, h, b, e, before) ==
  /\ serverPages' = IF before = NULL THEN next[e] ELSE serverPages
  /\ next' = [p \in Page |-> IF p = e THEN NULL ELSE IF p = before THEN next[e] ELSE next[p]]
  /\ combpage' = [p \in Page |->
       IF p \in b .. e THEN IF size[c] < PageSize THEN 0 ELSE n - (p - b)
       ELSE IF b # h /\ p \in LeadUp(next, b) /\ p >= serverPages THEN Left(p, b, n)
       ELSE combpage[p]]
  /\ own' = [p \in Page |-> IF p \in b .. e THEN 1 ELSE own[p]]
  /\ ptr' = [ptr EXCEPT ![c] = b]
  /\ pc' = [pc EXCEPT ![c] = "link"]
  /\ UNCHANGED <<poolPages, poolLock, size, objects, at, live>>

\* The number of pages that a CPU asks the server for.
Asks(c, n) == /\ n \in Nat \ {0}
              /\ size[c] < PageSize => n = 1
              /\ size[c] >= PageSize => n = Pages(size[c]) /\ size[c] = n * PageSize

\* Pages of a block of the server's list are such pages.
LEMMA Chooses ==
  ASSUME TypeInv, NEW V \in SUBSET Page, ServerOk(serverPages, next, combpage, V), Apart(next, V),
         NEW S, IsList(serverPages, S, next, combpage, V), Sorted(S, combpage),
         NEW i \in 1 .. Len(S), NEW h, h = S[i], NEW b \in Page, NEW e \in Page,
         h <= b, b <= e, e <= TailOf(combpage, h)
  PROVE  Chosen(V, h, b, e, LastBefore(S, i, b))
<1> DEFINE t == TailOf(combpage, h)
           before == LastBefore(S, i, b)
<1>2. combpage \in Counts /\ next \in Links
  BY DEF TypeInv
<1>5. ServerOk(serverPages, next, combpage, V)
  OBVIOUS
<1>8. /\ h \in Page /\ t \in Page /\ h <= t
      /\ \A p \in h .. t : p \in V
      /\ \A p \in h .. t - 1 : next[p] = p + 1
  <2>1. h \in Page /\ t \in Page /\ \A p \in BlockOf(combpage, h) : p \in V
    BY DEF IsList
  <2>2. \A p \in h .. t - 1 : next[p] = p + 1
    BY DEF IsList
  <2>. QED BY <1>2, <2>1, <2>2, TailAfter DEF BlockOf
<1>9. b \in Page /\ h <= b /\ e <= t
  OBVIOUS
<1>b. before = IF b = h THEN IF i = 1 THEN NULL ELSE TailOf(combpage, S[i - 1]) ELSE b - 1
  BY DEF LastBefore
<1> HIDE DEF t, before
<1>10. /\ h \in Nat /\ t \in Nat /\ b \in Nat /\ e \in Nat /\ h >= 1 /\ b <= e /\ e \in Page
  BY <1>8 DEF Page
<1>11. /\ \A p \in b .. e : p \in h .. t /\ p \in V /\ p \in Page
       /\ \A p \in b .. e - 1 : next[p] = p + 1
       /\ b \in V /\ e \in V /\ h \in V
  <2>1. \A p \in b .. e : p \in h .. t
    BY <1>9, <1>10
  <2>2. \A p \in b .. e - 1 : p \in h .. t - 1
    BY <1>9, <1>10
  <2>3. b \in b .. e /\ e \in b .. e /\ h \in h .. t
    BY <1>8, <1>10
  <2>. QED BY <1>8, <2>1, <2>2, <2>3
<1>12. /\ Run(combpage, V, h) /\ Run(combpage, V, b)
       /\ combpage[h] \in Nat /\ combpage[b] \in Nat /\ t = h + combpage[h] - 1
       /\ h + combpage[h] = b + combpage[b] /\ e <= b + combpage[b] - 1
  <2>1. Run(combpage, V, h) /\ Run(combpage, V, b)
    BY <1>5, <1>11 DEF ServerOk
  <2>2. combpage[h] \in Nat /\ combpage[b] \in Nat /\ combpage[h] >= 1
    BY <1>2, <1>8, <1>9, <2>1 DEF Counts, Run
  <2>3. t = h + combpage[h] - 1
    BY <2>2 DEF t, TailOf
  <2>4. b <= h + combpage[h] - 1
    BY <1>9, <1>10, <2>3
  <2>5. h + combpage[h] = b + combpage[b]
    BY <1>2, <1>9, <1>11, <2>1, <2>4, SameRun
  <2>. QED BY <1>9, <1>10, <2>1, <2>2, <2>3, <2>5, SMTT(30)
<1>13. /\ before = NULL \/ (before \in V /\ before < b)
       /\ \A p \in V : p < b => before # NULL /\ p <= before
       /\ b # h <=> b - 1 \in V
  <2>1. CASE b = h
    <3>1. Len(S) \in Nat /\ S[i] \in Page
      BY DEF IsList
    <3>2. i \in 1 .. Len(S) + 1 /\ \A x \in 1 .. i - 1 : x \in 1 .. Len(S) /\ x < i
      BY <3>1
    <3>3. \A x \in 1 .. i - 1 : TailOf(combpage, S[x]) < b
      BY <2>1, <3>2 DEF Sorted
    <3>4. \A x \in i .. Len(S) : S[x] >= b
      <4>1. ASSUME NEW x \in i .. Len(S) PROVE S[x] >= b
        <5>1. x \in 1 .. Len(S) /\ x \in Nat /\ i \in Nat /\ i <= x
          BY <3>1
        <5>2. x # i => t < S[x]
          BY <5>1 DEF Sorted, t
        <5>3. S[x] \in Nat
          <6>1. S[x] \in Page
            BY <5>1 DEF IsList
          <6>. QED BY <6>1 DEF Page
        <5>. QED BY <1>8, <1>10, <2>1, <5>2, <5>3
      <4>. QED BY <4>1
    <3>5. before = IF i = 1 THEN NULL ELSE TailOf(combpage, S[i - 1])
      BY <1>b, <2>1
    <3>6. IsList(serverPages, S, next, combpage, V)
      OBVIOUS
    <3>7. /\ before = NULL \/ (before \in V /\ before < b)
          /\ \A p \in V : p < b => before # NULL /\ p <= before
      <4>1. LiesAt(S, combpage, i, b, before)
        BY <3>3, <3>4, <3>5 DEF LiesAt
      <4>. QED BY <1>2, <1>9, <3>2, <3>6, <4>1, PriorPage
    <3>8. b - 1 \notin V
      <4> SUFFICES ASSUME b - 1 \in V PROVE FALSE
        OBVIOUS
      <4>1. before # NULL /\ b - 1 <= before
        BY <1>10, <3>7
      <4>2. i # 1 /\ before = TailOf(combpage, S[i - 1]) /\ i - 1 \in 1 .. Len(S) - 1
        BY <3>1, <3>5, <4>1
      <4>3. (i - 1) + 1 = i
        OBVIOUS
      <4>4. before + 1 < b
        BY <2>1, <4>2, <4>3 DEF Sorted
      <4>5. before \in Nat
        <5>1. before \in V
          BY <3>7, <4>1
        <5>2. before \in Page
          BY <5>1
        <5>. QED BY <5>2 DEF Page
      <4>. QED BY <1>10, <4>1, <4>4, <4>5
    <3>. QED BY <2>1, <3>7, <3>8
  <2>2. CASE b # h
    <3>1. b - 1 \in h .. t /\ b - 1 < b /\ b - 1 # NULL
      BY <1>9, <1>10, <2>2 DEF NULL
    <3>2. b - 1 \in V /\ before = b - 1
      BY <1>8, <1>b, <2>2, <3>1
    <3>3. \A p \in V : p \in Nat
      BY DEF Page
    <3>. QED BY <1>10, <2>2, <3>1, <3>2, <3>3
  <2>. QED BY <2>1, <2>2
<1>14. Chosen(V, h, b, e, before)
  BY <1>8, <1>10, <1>11, <1>12, <1>13 DEF Chosen
<1>. QED BY <1>14 DEF before

\* memserver_delivery takes these pages out of the server's list.
LEMMA FetchTakes ==
  ASSUME TypeInv, SizeInv, NEW home, NEW P, Inv(home, P), NEW c \in Cpu, pc[c] = "fetch",
         NEW n, NEW h, NEW b, NEW e, NEW before, Asks(c, n),
         Chosen(At(home, Server), h, b, e, before), n = e - b + 1, FirstNumber(b) % n = 0,
         Taking(c, n, h, b, e, before)
  PROVE  After(home, P, {}, {})
<1> DEFINE V == At(home, Server)
           home2 == [p \in Page |-> IF p \in b .. e THEN Hand(c) ELSE home[p]]
<1>1. /\ P \in [Cpu -> Seq(Page)] /\ ListInv(home, P) /\ OwnInv(home)
      /\ home \in [Page -> Home] /\ LinkInv /\ ObjInv(P) /\ LiveInv(P)
  BY DEF Inv
<1>2. /\ combpage \in Counts /\ next \in Links /\ serverPages \in Page \cup {NULL}
      /\ own \in [Page -> {0, 1}] /\ ptr \in [Cpu -> Address \cup Page]
      /\ pc \in [Cpu -> {"idle", "fetch", "link", "search", "giveBack", "lost"}]
      /\ size \in [Cpu -> Nat]
  BY DEF TypeInv
<1>3. V \in SUBSET Page /\ \A p : p \in V <=> p \in Page /\ home[p] = Server
  BY AtPages
<1>4. Apart(next, V)
  BY <1>1, <1>2, AtPages DEF ListInv
<1>5. ServerOk(serverPages, next, combpage, V)
  BY <1>1 DEF ListInv
<1>6. PICK k \in 0 .. 24 : size[c] = Power[k]
  BY DEF SizeInv
<1>7. /\ n \in Nat \ {0}
      /\ size[c] < PageSize => n = 1
      /\ size[c] >= PageSize => n = Pages(size[c]) /\ size[c] = n * PageSize
  BY DEF Asks
<1>9. b \in Page /\ e \in Page /\ FirstNumber(b) % n = 0
  BY DEF Chosen
<1>10. b \in Nat /\ e \in Nat /\ b >= 1 /\ e <= PageCount /\ b <= e /\ n = e - b + 1 /\ PageCount \in Nat
  BY <1>9, Sizes DEF Page, Chosen
<1>11. /\ \A p \in b .. e : p \in V /\ p \in Page
       /\ \A p \in b .. e - 1 : next[p] = p + 1
       /\ b \in V /\ e \in V
  <2>1. /\ \A p \in b .. e : p \in V
        /\ \A p \in b .. e - 1 : next[p] = p + 1
    BY DEF Chosen
  <2>2. b \in b .. e /\ e \in b .. e
    BY <1>10
  <2>. QED BY <1>3, <2>1, <2>2
<1>12. /\ Run(combpage, V, b) /\ combpage[b] \in Nat /\ e <= b + combpage[b] - 1
  BY <1>5, <1>11 DEF ServerOk, Chosen
<1>13. /\ before = NULL \/ (before \in V /\ before < b)
       /\ \A p \in V : p < b => before # NULL /\ p <= before
       /\ b # h <=> b - 1 \in V
  BY DEF Chosen
<1>t. /\ serverPages' = IF before = NULL THEN next[e] ELSE serverPages
      /\ next' = [p \in Page |-> IF p = e THEN NULL ELSE IF p = before THEN next[e] ELSE next[p]]
      /\ combpage' = [p \in Page |->
           IF p \in b .. e THEN IF size[c] < PageSize THEN 0 ELSE n - (p - b)
           ELSE IF b # h /\ p \in LeadUp(next, b) /\ p >= serverPages THEN Left(p, b, n)
           ELSE combpage[p]]
      /\ own' = [p \in Page |-> IF p \in b .. e THEN 1 ELSE own[p]]
  BY DEF Taking
<1>u. /\ ptr' = [ptr EXCEPT ![c] = b]
      /\ pc' = [pc EXCEPT ![c] = "link"]
      /\ poolPages' = poolPages /\ poolLock' = poolLock /\ size' = size
      /\ objects' = objects /\ at' = at /\ live' = live
  BY DEF Taking
<1> HIDE DEF V
<1>14. \A p \in Page : next'[p] = IF p = e THEN NULL ELSE IF p = before THEN next[e] ELSE next[p]
  BY <1>t
<1>15. \A p \in Page : /\ p \in b .. e =>
                            combpage'[p] = IF size[c] < PageSize THEN 0 ELSE n - (p - b)
                       /\ p \notin b .. e =>
                            combpage'[p] = IF b - 1 \in V /\ p \in LeadUp(next, b) /\ p >= serverPages
                                           THEN combpage[p] - combpage[b] ELSE combpage[p]
  BY <1>13, <1>t DEF Left
<1>16. \A p \in Page : p \notin V => next'[p] = next[p] /\ combpage'[p] = combpage[p]
  <2>1. ASSUME NEW p \in Page, p \notin V PROVE next'[p] = next[p]
    <3>1. p # e /\ p # before
      <4>1. NULL \notin Page
        BY DEF NULL, Page
      <4>. QED BY <1>11, <1>13, <2>1, <4>1
    <3>. QED BY <1>14, <3>1
  <2>2. ASSUME NEW p \in Page, p \notin V PROVE combpage'[p] = combpage[p]
    <3>1. p \notin b .. e
      BY <1>11, <2>2
    <3>2. p \in LeadUp(next, b) => p \in V
      <4>1. ASSUME p \in LeadUp(next, b) PROVE p \in V
        <5>1. p \in Page /\ p < b /\ \A q \in p .. b : q \in V
          BY <1>2, <1>3, <1>4, <1>11, <4>1, LeadUpIn
        <5>. QED BY <1>10, <5>1 DEF Page
      <4>. QED BY <4>1
    <3>. QED BY <1>15, <2>2, <3>1, <3>2
  <2>. QED BY <2>1, <2>2
<1>17. combpage' \in Counts
  <2>1. ASSUME NEW p \in Page PROVE combpage'[p] \in 0 .. PageCount
    <3>1. CASE p \in b .. e
      <4>1. n - (p - b) \in 0 .. PageCount
        BY <1>10, <3>1 DEF Page
      <4>2. 0 \in 0 .. PageCount
        BY Sizes
      <4>. QED BY <1>15, <3>1, <4>1, <4>2
    <3>2. CASE p \notin b .. e /\ p \in LeadUp(next, b)
      <4>1. p \in Page /\ p < b /\ \A q \in p .. b : q \in V
        BY <1>2, <1>3, <1>4, <1>11, <3>2, LeadUpIn
      <4>2. p \in Nat /\ p <= b /\ p \in p .. b
        BY <1>10, <4>1 DEF Page
      <4>3. p \in V /\ Run(combpage, V, p)
        BY <1>5, <4>1, <4>2 DEF ServerOk
      <4>4. combpage[p] \in 0 .. PageCount /\ combpage[p] \in Nat /\ PageCount \in Nat
        BY <1>2, Sizes DEF Counts
      <4>5. p + combpage[p] \notin V
        BY <4>3 DEF Run
      <4>6. ~ (p + combpage[p] <= b)
        <5> SUFFICES ASSUME p + combpage[p] <= b PROVE FALSE
          OBVIOUS
        <5>1. p + combpage[p] \in p .. b
          BY <1>10, <4>2, <4>4
        <5>. QED BY <4>1, <4>5, <5>1
      <4>7. b <= p + combpage[p] - 1
        BY <1>10, <4>2, <4>4, <4>6
      <4>8. p + combpage[p] = b + combpage[b]
        BY <1>2, <1>3, <1>11, <1>12, <4>2, <4>3, <4>7, SameRun
      <4>9. combpage[p] - combpage[b] \in 0 .. PageCount
        BY <1>10, <1>12, <4>2, <4>4, <4>8
      <4>. QED BY <1>15, <3>2, <4>4, <4>9
    <3>3. CASE p \notin b .. e /\ p \notin LeadUp(next, b)
      BY <1>2, <1>15, <3>3 DEF Counts
    <3>. QED BY <3>1, <3>2, <3>3
  <2>2. combpage' \in [Page -> 0 .. PageCount]
    BY <1>t, <2>1
  <2>. QED BY <2>2 DEF Counts
<1>18. next' \in Links /\ next[e] \in Page \cup {NULL}
  <2>1. next[e] \in Page \cup {NULL}
    BY <1>2, <1>9 DEF Links
  <2>. QED BY <1>2, <1>t, <2>1 DEF Links
<1>19. TypeInv'
  <2>1. serverPages' \in Page \cup {NULL}
    BY <1>2, <1>18, <1>t
  <2>2. own' \in [Page -> {0, 1}] /\ ptr' \in [Cpu -> Address \cup Page]
        /\ pc' \in [Cpu -> {"idle", "fetch", "link", "search", "giveBack", "lost"}]
    BY <1>2, <1>9, <1>t, <1>u
  <2>. QED BY <1>17, <1>18, <1>u, <2>1, <2>2 DEF TypeInv
<1>20. /\ pc'[c] = "link" /\ ptr'[c] = b /\ size' = size
       /\ \A d \in Cpu : d # c => pc'[d] = pc[d] /\ ptr'[d] = ptr[d]
  BY <1>2, <1>u
<1>21. SizeInv'
  BY <1>6, <1>20 DEF SizeInv
<1>22. /\ home2 \in [Page -> Home]
       /\ \A p \in Page : home2[p] = IF p \in b .. e THEN Hand(c) ELSE home[p]
  BY <1>1, Homes
<1>23. At(home, Hand(c)) = {}
  <2>1. HandInv(home, c)
    BY <1>1 DEF ListInv
  <2>. QED BY <2>1 DEF HandInv
<1> HIDE DEF home2
<1>24. /\ At(home2, Server) = V \ (b .. e)
       /\ At(home2, Hand(c)) = b .. e
       /\ \A d \in Cpu : At(home2, Pool(d)) = At(home, Pool(d))
       /\ \A d \in Cpu : d # c => At(home2, Hand(d)) = At(home, Hand(d))
  <2>1. \A p \in b .. e : home[p] = Server /\ p \in Page
    BY <1>3, <1>11
  <2>2. At(home2, Server) = V \ (b .. e)
    BY <1>22, Homes DEF At, V
  <2>3. At(home2, Hand(c)) = b .. e
    BY <1>22, <1>23, <2>1 DEF At
  <2>4. ASSUME NEW x, x # Server, x # Hand(c) PROVE At(home2, x) = At(home, x)
    BY <1>22, <2>1, <2>4 DEF At
  <2>. QED BY <2>2, <2>3, <2>4, Homes
<1>25. ServerOk(serverPages', next', combpage', At(home2, Server))
  <2>1. \A p \in V : p \notin b .. e =>
          combpage'[p] = IF b - 1 \in V /\ p \in LeadUp(next, b) /\ p >= serverPages
                         THEN combpage[p] - combpage[b] ELSE combpage[p]
    BY <1>3, <1>15
  <2>2. ServerOk(serverPages', next', combpage', V \ (b .. e))
    <3>1. V \in SUBSET Page /\ b \in V /\ e \in Page /\ b <= e /\ e <= b + combpage[b] - 1
      BY <1>3, <1>9, <1>10, <1>11, <1>12
    <3>2. before = NULL \/ (before \in V /\ before < b)
      BY <1>13
    <3>3. \A p \in V : p < b => before # NULL /\ p <= before
      BY <1>13
    <3>4. serverPages' = IF before = NULL THEN next[e] ELSE serverPages
      BY <1>t
    <3>5. next \in Links /\ combpage \in Counts /\ serverPages \in Page \cup {NULL}
          /\ next' \in Links /\ combpage' \in Counts
      BY <1>2, <1>17, <1>18
    <3>6. PagesGone(serverPages, next, combpage, V, b, e, before, serverPages', next', combpage')
      BY <1>4, <1>5, <1>14, <2>1, <3>1, <3>2, <3>3, <3>4 DEF PagesGone
    <3>. QED BY <3>1, <3>5, <3>6, ServerRemove
  <2>. QED BY <1>24, <2>2
<1>26. NextOk(next', home2)
  <2>1. ASSUME NEW p \in Page, next'[p] # NULL PROVE home2[next'[p]] = home2[p]
    <3>1. p # e
      BY <1>14, <2>1
    <3>2. \A q \in Page : next[q] # NULL => next[q] \in Page /\ home[next[q]] = home[q]
      BY <1>1, <1>2 DEF ListInv, NextOk, Links
    <3>3. \A q \in V : next[q] # NULL => next[q] > q /\ next[q] \in V
      BY <1>3, <1>5, <3>2 DEF ServerOk
    <3>4. \A q \in Page : q \in Nat
      BY DEF Page
    <3>5. CASE p \in b .. e
      <4>1. p # before /\ p \in b .. e - 1
        BY <1>10, <1>13, <3>1, <3>5 DEF NULL
      <4>2. next'[p] = p + 1 /\ p + 1 \in b .. e
        BY <1>10, <1>11, <1>14, <3>1, <4>1
      <4>3. p + 1 \in Page
        BY <1>11, <4>2
      <4>. QED BY <1>22, <3>5, <4>2, <4>3
    <3>6. CASE p \notin b .. e /\ p = before
      <4>1. next'[p] = next[e]
        BY <1>14, <3>1, <3>6
      <4>2. next[e] > e /\ next[e] \in V /\ next[e] \in Page
        BY <1>3, <1>11, <2>1, <3>3, <4>1
      <4>3. next[e] \notin b .. e
        BY <1>10, <3>4, <4>2
      <4>4. p \in V
        BY <1>13, <2>1, <3>6 DEF NULL, Page
      <4>. QED BY <1>3, <1>22, <3>6, <4>1, <4>2, <4>3, <4>4
    <3>7. CASE p \notin b .. e /\ p # before
      <4>1. next'[p] = next[p] /\ next[p] \in Page /\ home[next[p]] = home[p]
        BY <1>14, <2>1, <3>1, <3>2, <3>7
      <4>2. next[p] \notin b .. e
        <5>1. CASE p \notin V
          <6>1. next[p] \notin V
            BY <1>3, <4>1, <5>1
          <6>. QED BY <1>11, <6>1
        <5>2. CASE p \in V /\ p > e
          <6>1. next[p] > p
            BY <2>1, <3>3, <4>1, <5>2
          <6>. QED BY <1>10, <3>4, <4>1, <5>2, <6>1
        <5>3. CASE p \in V /\ p < b
          <6>1. before # NULL /\ p < before /\ before \in V /\ before < b
            <7>1. before # NULL /\ p <= before
              BY <1>13, <5>3
            <7>2. before \in V /\ before \in Nat
              BY <1>3, <1>13, <3>4, <7>1
            <7>. QED BY <1>13, <3>4, <3>7, <7>1, <7>2
          <6>2. next[p] <= before
            BY <1>5, <5>3, <6>1 DEF ServerOk
          <6>. QED BY <1>3, <1>10, <3>4, <4>1, <6>1, <6>2
        <5>4. p < b \/ p \in b .. e \/ p > e
          BY <1>10, <3>4
        <5>. QED BY <3>7, <5>1, <5>2, <5>3, <5>4
      <4>. QED BY <1>22, <3>7, <4>1, <4>2
    <3>. QED BY <3>5, <3>6, <3>7
  <2>. QED BY <2>1 DEF NextOk
<1>27. /\ \A d \in Cpu : IsList(poolPages'[d], P[d], next', combpage', At(home2, Pool(d)))
       /\ \A d \in Cpu : d # c => HandInv(home2, d)'
  <2> DEFINE X == {Server, Hand(c)}
  <2>1. \A p \in Page : home[p] \notin X => next'[p] = next[p] /\ combpage'[p] = combpage[p]
    BY <1>3, <1>16
  <2>2. ListInv(home, P) /\ TypeInv' /\ poolPages' = poolPages
    BY <1>1, <1>19, <1>u
  <2>3. \A d \in Cpu : Pool(d) \notin X /\ (d # c => Hand(d) \notin X) /\ Hand(c) \in X
    BY Homes
  <2> HIDE DEF X
  <2>4. \A d \in Cpu : Pool(d) \notin X => /\ At(home2, Pool(d)) = At(home, Pool(d))
                                           /\ P[d] = P[d] /\ poolPages'[d] = poolPages[d]
    BY <1>24, <2>2
  <2>5. \A d \in Cpu : Hand(d) \notin X => /\ At(home2, Hand(d)) = At(home, Hand(d))
                                           /\ pc'[d] = pc[d] /\ ptr'[d] = ptr[d]
    BY <1>20, <1>24, <2>3
  <2>6. /\ \A d \in Cpu : Pool(d) \notin X =>
              IsList(poolPages'[d], P[d], next', combpage', At(home2, Pool(d)))
        /\ \A d \in Cpu : Hand(d) \notin X => HandInv(home2, d)'
    <3>1. Only(X, home, home2, P, P)
      BY <2>1, <2>4, <2>5 DEF Only
    <3>. QED BY <2>2, <3>1, OthersKept
  <2>. QED BY <2>3, <2>6
<1>28. HandInv(home2, c)'
  <2>1. TailOf(combpage', b) = e
    <3>1. b \in b .. e
      BY <1>10
    <3>2. combpage'[b] = IF size[c] < PageSize THEN 0 ELSE n - (b - b)
      BY <1>9, <1>15, <3>1
    <3>3. CASE size[c] < PageSize
      BY <1>7, <1>10, <3>2, <3>3 DEF TailOf
    <3>4. CASE ~ (size[c] < PageSize)
      <4>1. combpage'[b] = n
        BY <1>7, <1>10, <3>2, <3>4
      <4>. QED BY <1>7, <1>10, <4>1 DEF TailOf
    <3>. QED BY <3>3, <3>4
  <2>2. ASSUME NEW p \in b .. e - 1 PROVE next'[p] = p + 1
    <3>1. p \in Page /\ p # e /\ p # before /\ next[p] = p + 1
      BY <1>10, <1>11, <1>13 DEF NULL
    <3>. QED BY <1>14, <3>1
  <2>3. HandOk(b, next', combpage', b .. e)
    BY <1>9, <1>10, <2>1, <2>2 DEF HandOk, BlockOf
  <2>4. HandOk(ptr'[c], next', combpage', At(home2, Hand(c)))
    BY <1>20, <1>24, <2>3
  <2>. QED BY <1>20, <2>4 DEF HandInv, At
<1>29. ListInv(home2, P)'
  <2>1. \A d \in Cpu : HandInv(home2, d)'
    BY <1>27, <1>28
  <2>. QED BY <1>25, <1>26, <1>27, <2>1 DEF ListInv, NextOk, At
<1>30. OwnInv(home2)'
  <2>1. ASSUME NEW p \in Page PROVE own'[p] = 1 <=> Owned(home2, p)'
    <3>1. CASE p \in b .. e
      <4>1. own'[p] = 1 /\ home2[p] = Hand(c)
        BY <1>22, <1>t, <3>1
      <4>. QED BY <1>20, <4>1 DEF Owned
    <3>2. CASE p \notin b .. e
      <4>1. own'[p] = own[p] /\ home2[p] = home[p]
        BY <1>22, <1>t, <3>2
      <4>2. own[p] = 1 <=> Owned(home, p)
        BY <1>1 DEF OwnInv
      <4>3. home[p] # Hand(c)
        BY <1>23 DEF At
      <4>. QED BY <1>20, <4>1, <4>2, <4>3 DEF Owned
    <3>. QED BY <3>1, <3>2
  <2>. QED BY <2>1 DEF OwnInv
<1>31. LinkInv'
  <2>1. ASSUME NEW d \in Cpu, pc'[d] = "link"
        PROVE  IF size'[d] < PageSize THEN combpage'[ptr'[d]] = 0
               ELSE combpage'[ptr'[d]] = Pages(size'[d]) /\ Start(ptr'[d]) % size'[d] = 0
    <3>1. CASE d = c
      <4>1. b \in b .. e
        BY <1>10
      <4>2. combpage'[b] = IF size[c] < PageSize THEN 0 ELSE n - (b - b)
        BY <1>9, <1>15, <4>1
      <4>3. size[c] >= PageSize => combpage'[b] = Pages(size[c]) /\ Start(b) % size[c] = 0
        <5>1. Start(b) % (n * PageSize) = 0
          BY <1>7, <1>9, BlockAligned
        <5>2. n - (b - b) = n
          BY <1>7, <1>10
        <5>3. size[c] \in Nat /\ PageSize \in Nat
          BY <1>2, Sizes
        <5>. QED BY <1>7, <4>2, <5>1, <5>2, <5>3
      <4>4. size[c] \in Nat /\ PageSize \in Nat
        BY <1>2, Sizes
      <4>. QED BY <1>20, <3>1, <4>2, <4>3, <4>4
    <3>2. CASE d # c
      <4>1. pc[d] = "link" /\ ptr'[d] = ptr[d] /\ size'[d] = size[d]
        BY <1>20, <2>1, <3>2
      <4>2. HandInv(home, d)
        BY <1>1 DEF ListInv
      <4>3. HandOk(ptr[d], next, combpage, At(home, Hand(d)))
        BY <4>1, <4>2 DEF HandInv
      <4>4. ptr[d] \in Page /\ ptr[d] \in At(home, Hand(d))
        BY <1>2, <4>3, TailAfter DEF HandOk
      <4>5. ptr[d] \notin V
        BY <1>3, <4>4, Homes DEF At
      <4>6. combpage'[ptr[d]] = combpage[ptr[d]]
        BY <1>16, <4>4, <4>5
      <4>. QED BY <1>1, <4>1, <4>6 DEF LinkInv
    <3>. QED BY <3>1, <3>2
  <2>. QED BY <2>1 DEF LinkInv
<1>32. /\ ObjInv(P)'
       /\ \A d \in Cpu : \A u : In(P[d], combpage, objects, u) => In(P[d], combpage', objects', u)
  <2>1. ASSUME NEW d \in Cpu, NEW j \in 1 .. Len(P[d]) PROVE combpage'[P[d][j]] = combpage[P[d][j]]
    <3>1. P[d][j] \in Page /\ home[P[d][j]] = Pool(d)
      BY <1>1, PoolBlock
    <3>2. P[d][j] \notin V
      BY <1>3, <3>1, Homes
    <3>. QED BY <1>16, <3>1, <3>2
  <2>. QED BY <1>1, <1>u, <2>1, ObjectsStay
<1>33. LiveInv(P)'
  <2>1. \A d \in Cpu : pc'[d] # "lost"
    BY <1>1, <1>20 DEF LiveInv
  <2>2. \A d \in Cpu : pc'[d] = "search" => pc[d] = "search" /\ ptr'[d] = ptr[d] /\ at'[d] = at[d]
    BY <1>20, <1>u
  <2>. QED BY <1>1, <1>32, <1>u, <2>1, <2>2, LiveSame
<1>34. Inv(home2, P)'
  BY <1>1, <1>22, <1>29, <1>30, <1>31, <1>32, <1>33 DEF Inv
<1>35. Leaves(home, P, home2, P, {}, {})
  <2>1. \A d \in Cpu : d # c => At(home2, Hand(d)) = At(home, Hand(d))
    BY <1>24, Homes
  <2>. QED BY <1>20, <1>32, <2>1 DEF Leaves
<1>. QED BY <1>19, <1>21, <1>34, <1>35 DEF After

\* memserver_delivery: it takes the first block with room, or fails.
LEMMA FetchStep ==
  ASSUME TypeInv, SizeInv, NEW home, NEW P, Inv(home, P), NEW c \in Cpu, Fetch(c)
  PROVE  After(home, P, {}, {})
<1> DEFINE V == At(home, Server)
           n == Max({1, Pages(size[c])})
<1>1. PICK S : /\ IsList(serverPages, S, next, combpage, V)
               /\ Sorted(S, combpage) /\ Heads(serverPages) = S
               /\ \A i \in 1 .. Len(S) : /\ TailPage(S[i]) = TailOf(combpage, S[i])
                                         /\ Block(S[i]) = BlockOf(combpage, S[i])
  BY Lists
<1>2. Len(S) \in Nat /\ \A j \in 1 .. Len(S) : S[j] \in Page /\ TailOf(combpage, S[j]) \in Page
  BY <1>1 DEF IsList
<1> DEFINE I == {j \in 1 .. Len(S) : Fits(S[j], n)}
           i == IF I # {} THEN Min(I) ELSE 0
           h == S[i]
           b == Aligned(h, n)
           e == b + n - 1
           before == IF b = h THEN Prior(S, i) ELSE b - 1
<1>3. i = SelectInSeq(Heads(serverPages), LAMBDA g : Fits(g, n))
  BY <1>1 DEF SelectInSeq
<1>4. i \in 0 .. Len(S) /\ (i # 0 => i \in I)
  <2>1. I \in SUBSET (1 .. Len(S))
    OBVIOUS
  <2> HIDE DEF I
  <2>. QED BY <1>2, <2>1, FirstMatch
<1>5. i # 0 => i \in 1 .. Len(S) /\ Fits(h, n)
  BY <1>4
<1> HIDE DEF i
<1>6. /\ pc[c] = "fetch" /\ UNCHANGED <<objects, at, live>>
      /\ \/ /\ i = 0
            /\ pc' = [pc EXCEPT ![c] = "idle"]
            /\ size' = [size EXCEPT ![c] = 0]
            /\ poolLock' = [poolLock EXCEPT ![c] = None]
            /\ UNCHANGED <<nodeVars, ptr>>
         \/ i # 0 /\ Taking(c, n, h, b, e, before)
  BY <1>1, <1>3 DEF Fetch, Taking
<1> HIDE DEF n, I
<1>7. CASE i = 0
  <2>1. /\ pc[c] = "fetch" /\ pc' = [pc EXCEPT ![c] = "idle"] /\ size' = [size EXCEPT ![c] = 0]
        /\ poolLock' = [poolLock EXCEPT ![c] = None]
        /\ UNCHANGED <<nodeVars, ptr, objects, at, live>>
    BY <1>6, <1>7
  <2>. QED BY <2>1, FetchFails
<1>8. CASE i # 0
  <2>1. i \in 1 .. Len(S) /\ Fits(h, n) /\ h \in Page /\ TailOf(combpage, h) \in Page
        /\ TailPage(h) = TailOf(combpage, h) /\ combpage \in Counts
    BY <1>1, <1>2, <1>5, <1>8 DEF TypeInv
  <2>2. Asks(c, n)
    <3>1. PICK k \in 0 .. 24 : size[c] = Power[k]
      BY <1>6 DEF SizeInv
    <3>2. /\ size[c] >= PageSize => Pages(size[c]) \in Nat \ {0} /\ size[c] = Pages(size[c]) * PageSize
          /\ size[c] < PageSize => Pages(size[c]) = 0
      BY <3>1, SizeOfPower
    <3>3. size[c] \in Nat /\ PageSize \in Nat
      BY Sizes DEF TypeInv
    <3>4. Pages(size[c]) \in Nat
      BY <3>2, <3>3
    <3>5. n = IF Pages(size[c]) = 0 THEN 1 ELSE Pages(size[c])
      BY <3>4, MaxOne DEF n
    <3>. QED BY <3>2, <3>3, <3>4, <3>5 DEF Asks
  <2>3. n \in Nat \ {0}
    BY <2>2 DEF Asks
  <2>4. h <= TailPage(h)
    BY <2>1, TailAfter
  <2>5. b \in Page /\ h <= b /\ e <= TailPage(h) /\ FirstNumber(b) % n = 0
    BY <2>1, <2>3, <2>4, Fitting
  <2>6. before = LastBefore(S, i, b)
    <3>1. i # 1 => i - 1 \in 1 .. Len(S)
      BY <1>2, <2>1
    <3>. QED BY <1>1, <3>1 DEF LastBefore, Prior
  <2> HIDE DEF before, h, b
  <2>7. b \in Nat /\ TailPage(h) \in Nat /\ TailPage(h) <= PageCount /\ b >= 1 /\ PageCount \in Nat
    BY <2>1, <2>5, Sizes DEF Page
  <2>8. b <= e /\ e \in Page /\ n = e - b + 1
    BY <2>3, <2>5, <2>7 DEF Page
  <2> HIDE DEF e
  <2>9. V \in SUBSET Page /\ ServerOk(serverPages, next, combpage, V) /\ Apart(next, V)
    BY AtPages DEF Inv, ListInv, TypeInv
  <2>10. h = S[i] /\ e <= TailOf(combpage, h)
    BY <2>1, <2>5 DEF h
  <2> HIDE DEF V
  <2>11. Chosen(V, h, b, e, LastBefore(S, i, b))
    BY <1>1, <2>1, <2>5, <2>8, <2>9, <2>10, Chooses
  <2>12. Chosen(V, h, b, e, before)
    BY <2>6, <2>11
  <2>13. Taking(c, n, h, b, e, before)
    BY <1>6, <1>8 DEF h, b, e, before
  <2>. QED BY <1>6, <2>2, <2>5, <2>8, <2>12, <2>13, FetchTakes DEF V
<1>. QED BY <1>7, <1>8

\* What cpumempool_delivery makes of the block that it got: the caller's object.
LinkedObject(b, o) ==
  /\ objects' \in [Page -> Seq(Pair)]
  /\ \A p \in Page : p # b => objects'[p] = objects[p]
  /\ PageOk(b, objects'[b])
  /\ objects'[b] # <<>> => combpage[b] = 0
  /\ HeadInv(combpage, objects', b)
  /\ Holds(combpage, objects', b, o)
  /\ live' = live \cup {o}

\* An object of the right size, aligned.
LEMMA LinkDelivers ==
  ASSUME TypeInv, SizeInv, NEW home, NEW P, Inv(home, P), NEW c \in Cpu, Link(c)
  PROVE  \E o : LinkedObject(ptr[c], o)
<1> DEFINE b == ptr[c]
           s == size[c]
<1>1. pc[c] = "link" /\ \/ /\ s >= PageSize
                           /\ live' = live \cup {<<Start(b), Start(b) + s>>}
                           /\ UNCHANGED objects
                        \/ /\ s < PageSize
                           /\ objects' = Deliver(b, s)
                           /\ live' = live \cup {Object(b, s)}
  BY DEF Link
<1>2. ListInv(home, P) /\ LinkInv /\ ObjInv(P) /\ P \in [Cpu -> Seq(Page)]
  BY DEF Inv
<1>3. HandOk(b, next, combpage, At(home, Hand(c)))
  BY <1>1, <1>2 DEF ListInv, HandInv
<1>4. /\ objects \in [Page -> Seq(Pair)] /\ combpage \in Counts /\ s \in Nat /\ PageSize \in Nat
  BY Sizes DEF TypeInv
<1>5. b \in Page /\ home[b] = Hand(c)
  BY <1>3, <1>4, TailAfter DEF HandOk, At
<1>6. objects[b] = <<>>
  <2> SUFFICES ASSUME objects[b] # <<>> PROVE FALSE
    OBVIOUS
  <2>1. Single(P, combpage, b)
    BY <1>2, <1>5 DEF ObjInv
  <2>2. PICK d \in Cpu : \E j \in 1 .. Len(P[d]) : b = P[d][j]
    BY <2>1 DEF Single
  <2>3. PICK j \in 1 .. Len(P[d]) : b = P[d][j]
    BY <2>2
  <2>4. home[b] = Pool(d)
    BY <1>2, <2>3, PoolBlock
  <2>. QED BY <1>5, <2>4, Homes
<1>7. PICK k \in 0 .. 24 : s = Power[k]
  BY <1>1 DEF SizeInv
<1>8. PageOk(b, objects[b])
  BY <1>2, <1>5 DEF ObjInv
<1>9. IF s < PageSize THEN combpage[b] = 0 ELSE combpage[b] = Pages(s) /\ Start(b) % s = 0
  BY <1>1, <1>2 DEF LinkInv
<1>10. CASE s >= PageSize
  <2>1. Pages(s) \in Nat \ {0} /\ s = Pages(s) * PageSize
    BY <1>7, <1>10, SizeOfPower
  <2>2. /\ objects' = objects /\ live' = live \cup {<<Start(b), Start(b) + s>>}
        /\ combpage[b] = Pages(s) /\ Start(b) % s = 0
    BY <1>1, <1>4, <1>9, <1>10
  <2> HIDE DEF b, s
  <2>3. combpage[b] # 0 /\ s = combpage[b] * PageSize
    BY <2>1, <2>2
  <2>4. LinkedObject(b, <<Start(b), Start(b) + s>>)
    BY <1>4, <1>6, <1>8, <2>2, <2>3 DEF LinkedObject, HeadInv, Holds
  <2>. QED BY <2>4 DEF b
<1>11. CASE s < PageSize
  <2>1. Gaps(b, s) # {} /\ s \in Nat \ {0}
    BY <1>5, <1>6, <1>7, <1>11, NewPageRoom, Powers
  <2> DEFINE o == Object(b, s)
             M == InsertAt(objects[b], Min(Gaps(b, s)), o)
  <2>2. PageOk(b, M) /\ M # <<>> /\ \E j \in 1 .. Len(M) : M[j] = o
    BY <1>5, <1>8, <1>11, <2>1, Delivered
  <2>3. objects' = [objects EXCEPT ![b] = M] /\ live' = live \cup {o} /\ combpage[b] = 0
    BY <1>1, <1>4, <1>9, <1>11 DEF Deliver
  <2> HIDE DEF b, s, o, M
  <2>4. M \in Seq(Pair)
    BY <2>2 DEF PageOk
  <2>5. /\ objects'[b] = M /\ objects' \in [Page -> Seq(Pair)]
        /\ \A p \in Page : p # b => objects'[p] = objects[p]
    BY <1>4, <1>5, <2>3, <2>4
  <2>6. LinkedObject(b, o)
    BY <2>2, <2>3, <2>5 DEF LinkedObject, HeadInv, Holds
  <2>. QED BY <2>6 DEF b
<1>. QED BY <1>4, <1>10, <1>11

\* cpumempool_delivery puts the block at the head of its pool.
LEMMA LinkStep ==
  ASSUME TypeInv, SizeInv, NEW home, NEW P, Inv(home, P), NEW c \in Cpu, Link(c)
  PROVE  \E o : live' = live \cup {o} /\ After(home, P, {o}, {})
<1> DEFINE b == ptr[c]
           t == TailOf(combpage, b)
           V == At(home, Pool(c))
           W == At(home, Hand(c))
           home2 == [p \in Page |-> IF home[p] = Hand(c) THEN Pool(c) ELSE home[p]]
           X == {Pool(c), Hand(c)}
<1>1. /\ P \in [Cpu -> Seq(Page)] /\ ListInv(home, P) /\ OwnInv(home)
      /\ home \in [Page -> Home] /\ LinkInv /\ ObjInv(P) /\ LiveInv(P)
  BY DEF Inv
<1>2. /\ combpage \in Counts /\ next \in Links /\ poolPages \in [Cpu -> Page \cup {NULL}]
      /\ ptr \in [Cpu -> Address \cup Page] /\ size \in [Cpu -> Nat]
      /\ pc \in [Cpu -> {"idle", "fetch", "link", "search", "giveBack", "lost"}]
      /\ objects \in [Page -> Seq(Pair)] /\ live \subseteq Address \X Address
      /\ poolLock \in [Cpu -> Cpu \cup {None}]
  BY DEF TypeInv
<1>3. /\ pc[c] = "link"
      /\ next' = [next EXCEPT ![TailPage(b)] = poolPages[c]]
      /\ poolPages' = [poolPages EXCEPT ![c] = b]
      /\ poolLock' = [poolLock EXCEPT ![c] = None]
      /\ pc' = [pc EXCEPT ![c] = "idle"]
      /\ size' = [size EXCEPT ![c] = 0]
      /\ ptr' = [ptr EXCEPT ![c] = 0]
      /\ own' = own /\ combpage' = combpage /\ serverPages' = serverPages /\ at' = at
  BY DEF Link
<1>4. HandOk(b, next, combpage, W)
  BY <1>1, <1>3 DEF ListInv, HandInv
<1>5. b \in Page /\ t \in Page /\ TailPage(b) = t /\ W = BlockOf(combpage, b) /\ b \in W /\ t \in W
  <2>1. b \in Page /\ t \in Page /\ W = BlockOf(combpage, b)
    BY <1>4 DEF HandOk
  <2>2. b <= t /\ b \in BlockOf(combpage, b) /\ TailPage(b) = t
    BY <1>2, <2>1, TailAfter, Tails
  <2>3. t \in BlockOf(combpage, b)
    BY <2>1, <2>2 DEF BlockOf, Page
  <2>. QED BY <2>1, <2>2, <2>3
<1>6. PICK o : LinkedObject(b, o)
  BY LinkDelivers
<1>7. IsList(poolPages[c], P[c], next, combpage, V)
  BY <1>1 DEF ListInv
<1>8. /\ V \in SUBSET Page /\ W \in SUBSET Page /\ V \cap W = {}
      /\ \A p : p \in V <=> p \in Page /\ home[p] = Pool(c)
      /\ \A p : p \in W <=> p \in Page /\ home[p] = Hand(c)
  BY Homes DEF At
<1>9. \A p \in Page : next'[p] = IF p = t THEN poolPages[c] ELSE next[p]
  BY <1>2, <1>3, <1>5 DEF Links
<1>10. next' \in Links
  BY <1>2, <1>3, <1>5 DEF Links
<1> HIDE DEF b, t, V, W
<1>11. IsList(b, <<b>> \o P[c], next', combpage, V \cup W)
  BY <1>2, <1>4, <1>5, <1>7, <1>8, <1>9, <1>10, ListPush DEF t
<1>12. /\ pc'[c] = "idle" /\ poolPages'[c] = b
       /\ \A d \in Cpu : d # c => /\ pc'[d] = pc[d] /\ ptr'[d] = ptr[d] /\ size'[d] = size[d]
                                  /\ poolPages'[d] = poolPages[d]
  BY <1>2, <1>3
<1>p. PICK P2 : P2 = [P EXCEPT ![c] = <<b>> \o P[c]]
  OBVIOUS
<1>13. /\ P2 \in [Cpu -> Seq(Page)] /\ P2[c] = <<b>> \o P[c]
       /\ \A d \in Cpu : d # c => P2[d] = P[d]
       /\ P2[c][1] = b /\ Len(P2[c]) = Len(P[c]) + 1 /\ Len(P[c]) \in Nat
       /\ \A j \in 1 .. Len(P[c]) : P2[c][j + 1] = P[c][j]
  <2>1. P[c] \in Seq(Page)
    BY <1>1
  <2>2. /\ <<b>> \o P[c] \in Seq(Page) /\ Len(<<b>> \o P[c]) = Len(P[c]) + 1
        /\ (<<b>> \o P[c])[1] = b
        /\ \A j \in 1 .. Len(P[c]) : (<<b>> \o P[c])[j + 1] = P[c][j]
    BY <1>5, <2>1, Pushed
  <2>. QED BY <1>1, <1>p, <2>1, <2>2
<1>14. /\ home2 \in [Page -> Home]
       /\ \A p \in Page : home2[p] = IF home[p] = Hand(c) THEN Pool(c) ELSE home[p]
  BY <1>1, Homes
<1> HIDE DEF home2
<1>15. /\ At(home2, Pool(c)) = V \cup W /\ At(home2, Hand(c)) = {}
       /\ At(home2, Server) = At(home, Server)
       /\ \A d \in Cpu : d # c => /\ At(home2, Pool(d)) = At(home, Pool(d))
                                  /\ At(home2, Hand(d)) = At(home, Hand(d))
  <2>1. At(home2, Pool(c)) = V \cup W
    BY <1>8, <1>14 DEF At
  <2>2. At(home2, Hand(c)) = {}
    BY <1>14, Homes DEF At
  <2>3. ASSUME NEW x, x # Pool(c), x # Hand(c) PROVE At(home2, x) = At(home, x)
    BY <1>14, <2>3 DEF At
  <2>. QED BY <2>1, <2>2, <2>3, Homes
<1>16. \A p \in Page : home[p] \notin X => next'[p] = next[p] /\ combpage'[p] = combpage[p]
  BY <1>3, <1>5, <1>8, <1>9
<1>17. /\ \A d \in Cpu : d # c => Pool(d) \notin X /\ Hand(d) \notin X
       /\ Server \notin X /\ Pool(c) \in X /\ Hand(c) \in X
  BY Homes
<1>18. TypeInv'
  <2>1. objects' \in [Page -> Seq(Pair)] /\ live' = live \cup {o} /\ PageOk(b, objects'[b])
        /\ Holds(combpage, objects', b, o)
    BY <1>6 DEF LinkedObject
  <2>2. /\ o \in Pair /\ o[1] \in Nat /\ o[2] \in Nat /\ o[1] < o[2] /\ o[2] <= End(t)
    BY <1>2, <1>5, <2>1, HoldsWithin DEF t
  <2>3. End(t) \in Nat
    BY <1>5, Addresses
  <2>4. o[1] <= End(t)
    BY <2>2, <2>3
  <2>5. o[1] \in Address /\ o[2] \in Address
    BY <1>5, <2>2, <2>4, UpToEnd
  <2>6. o \in Address \X Address
    BY <2>2, <2>5 DEF Pair
  <2>7. live' \subseteq Address \X Address
    BY <1>2, <2>1, <2>6
  <2>8. ptr' \in [Cpu -> Address \cup Page]
    <3>1. 0 <= End(t) /\ 0 \in Nat
      BY <2>3
    <3>2. 0 \in Address
      BY <1>5, <3>1, UpToEnd
    <3>. QED BY <1>2, <1>3, <3>2
  <2>9. /\ poolPages' \in [Cpu -> Page \cup {NULL}] /\ size' \in [Cpu -> Nat]
        /\ pc' \in [Cpu -> {"idle", "fetch", "link", "search", "giveBack", "lost"}]
        /\ poolLock' \in [Cpu -> Cpu \cup {None}]
    BY <1>2, <1>3, <1>5
  <2>. QED BY <1>3, <1>10, <2>1, <2>7, <2>8, <2>9 DEF TypeInv
<1>19. SizeInv'
  BY <1>12 DEF SizeInv
<1>20. /\ \A d \in Cpu : Pool(d) \notin X =>
             IsList(poolPages'[d], P2[d], next', combpage', At(home2, Pool(d)))
       /\ \A d \in Cpu : Hand(d) \notin X => HandInv(home2, d)'
       /\ Server \notin X => ServerOk(serverPages, next', combpage', At(home, Server))
  <2> HIDE DEF X
  <2>1. \A d \in Cpu : Pool(d) \notin X => /\ At(home2, Pool(d)) = At(home, Pool(d))
                                           /\ P2[d] = P[d] /\ poolPages'[d] = poolPages[d]
    BY <1>12, <1>13, <1>15, <1>17
  <2>2. \A d \in Cpu : Hand(d) \notin X => /\ At(home2, Hand(d)) = At(home, Hand(d))
                                           /\ pc'[d] = pc[d] /\ ptr'[d] = ptr[d]
    BY <1>12, <1>15, <1>17
  <2>3. ListInv(home, P)
    BY <1>1
  <2>4. Only(X, home, home2, P, P2)
    BY <1>16, <2>1, <2>2 DEF Only
  <2>. QED BY <1>18, <2>3, <2>4, OthersKept
<1>21. NextOk(next', home2)
  <2>1. ASSUME NEW p \in Page, next'[p] # NULL PROVE home2[next'[p]] = home2[p]
    <3>1. CASE p = t
      <4>1. next'[p] = poolPages[c] /\ home2[p] = Pool(c)
        BY <1>5, <1>8, <1>9, <1>14, <3>1
      <4>2. poolPages[c] = P[c][1] /\ 1 \in 1 .. Len(P[c])
        BY <1>7, <2>1, <4>1 DEF IsList
      <4>3. P[c][1] \in Page /\ home[P[c][1]] = Pool(c)
        BY <1>1, <4>2, PoolBlock
      <4>. QED BY <1>14, <4>1, <4>2, <4>3
    <3>2. CASE p # t
      <4>1. next'[p] = next[p] /\ next[p] \in Page /\ home[next[p]] = home[p]
        BY <1>1, <1>2, <1>9, <2>1, <3>2 DEF ListInv, NextOk, Links
      <4>. QED BY <1>14, <4>1
    <3>. QED BY <3>1, <3>2
  <2>. QED BY <2>1 DEF NextOk
<1>22. ListInv(home2, P2)'
  <2>1. \A d \in Cpu : IsList(poolPages'[d], P2[d], next', combpage', At(home2, Pool(d)))
    BY <1>3, <1>11, <1>12, <1>13, <1>15, <1>17, <1>20
  <2>2. HandInv(home2, c)'
    BY <1>12, <1>15 DEF HandInv, At
  <2>3. \A d \in Cpu : HandInv(home2, d)'
    BY <1>17, <1>20, <2>2
  <2>4. ServerOk(serverPages', next', combpage', At(home2, Server))
    BY <1>3, <1>15, <1>17, <1>20
  <2>. QED BY <1>21, <2>1, <2>3, <2>4 DEF ListInv, NextOk, At
<1>23. OwnInv(home2)'
  <2>1. ASSUME NEW p \in Page PROVE own'[p] = 1 <=> Owned(home2, p)'
    <3>1. own[p] = 1 <=> Owned(home, p)
      BY <1>1 DEF OwnInv
    <3>2. Owned(home, p) <=> Owned(home2, p)'
      <4>1. CASE home[p] = Hand(c)
        BY <1>3, <1>14, <4>1 DEF Owned
      <4>2. CASE home[p] # Hand(c)
        BY <1>12, <1>14, <4>2 DEF Owned
      <4>. QED BY <4>1, <4>2
    <3>. QED BY <1>3, <3>1, <3>2
  <2>. QED BY <2>1 DEF OwnInv
<1>24. LinkInv'
  BY <1>1, <1>3, <1>12 DEF LinkInv
<1>25. ASSUME NEW d \in Cpu, NEW j \in 1 .. Len(P[d])
       PROVE  /\ P[d][j] \in Page /\ P[d][j] # b /\ objects'[P[d][j]] = objects[P[d][j]]
              /\ HeadInv(combpage, objects, P[d][j])
  <2>1. P[d][j] \in Page /\ home[P[d][j]] = Pool(d) /\ HeadInv(combpage, objects, P[d][j])
    BY <1>1, PoolBlock
  <2>2. P[d][j] # b
    BY <1>5, <1>8, <2>1, Homes
  <2>. QED BY <1>6, <2>1, <2>2 DEF LinkedObject
<1>26. \A d \in Cpu : \A j \in 1 .. Len(P[d]) : \E k \in 1 .. Len(P2[d]) : P2[d][k] = P[d][j]
  <2>1. ASSUME NEW d \in Cpu, NEW j \in 1 .. Len(P[d])
        PROVE  \E k \in 1 .. Len(P2[d]) : P2[d][k] = P[d][j]
    <3>1. CASE d = c
      <4>1. j + 1 \in 1 .. Len(P2[c]) /\ P2[c][j + 1] = P[c][j]
        BY <1>13, <3>1
      <4>. QED BY <3>1, <4>1
    <3>2. CASE d # c
      BY <1>13, <3>2
    <3>. QED BY <3>1, <3>2
  <2>. QED BY <2>1
<1>27. ASSUME NEW d \in Cpu, NEW k \in 1 .. Len(P2[d])
       PROVE  P2[d][k] = b \/ \E j \in 1 .. Len(P[d]) : P2[d][k] = P[d][j]
  <2>1. CASE d = c /\ k = 1
    BY <1>13, <2>1
  <2>2. CASE d = c /\ k # 1
    <3>1. k - 1 \in 1 .. Len(P[c]) /\ (k - 1) + 1 = k
      BY <1>13, <2>2
    <3>2. P2[c][k] = P[c][k - 1]
      BY <1>13, <3>1
    <3>. QED BY <2>2, <3>1, <3>2
  <2>3. CASE d # c
    BY <1>13, <2>3
  <2>. QED BY <2>1, <2>2, <2>3
<1>28. ObjInv(P2)'
  <2>1. \A p \in Page : PageOk(p, objects'[p])
    BY <1>1, <1>6 DEF ObjInv, LinkedObject
  <2>2. ASSUME NEW p \in Page, objects'[p] # <<>> PROVE Single(P2, combpage', p)
    <3>1. CASE p = b
      <4>1. combpage'[b] = 0
        BY <1>3, <1>6, <2>2, <3>1 DEF LinkedObject
      <4>2. 1 \in 1 .. Len(P2[c])
        BY <1>13
      <4>. QED BY <1>13, <3>1, <4>1, <4>2 DEF Single
    <3>2. CASE p # b
      <4>1. Single(P, combpage, p)
        BY <1>1, <1>6, <2>2, <3>2 DEF ObjInv, LinkedObject
      <4>2. PICK d \in Cpu : \E j \in 1 .. Len(P[d]) : p = P[d][j]
        BY <4>1 DEF Single
      <4>3. \E k \in 1 .. Len(P2[d]) : p = P2[d][k]
        BY <1>26, <4>2
      <4>. QED BY <1>3, <4>1, <4>3 DEF Single
    <3>. QED BY <3>1, <3>2
  <2>3. ASSUME NEW d \in Cpu, NEW k \in 1 .. Len(P2[d]) PROVE HeadInv(combpage', objects', P2[d][k])
    <3>1. CASE P2[d][k] = b
      BY <1>3, <1>6, <3>1 DEF LinkedObject
    <3>2. CASE P2[d][k] # b
      <4>1. PICK j \in 1 .. Len(P[d]) : P2[d][k] = P[d][j]
        BY <1>27, <3>2
      <4>. QED BY <1>3, <1>25, <4>1 DEF HeadInv
    <3>. QED BY <3>1, <3>2
  <2>. QED BY <2>1, <2>2, <2>3 DEF ObjInv
<1>29. In(P2[c], combpage', objects', o)
  <2>1. Holds(combpage', objects', P2[c][1], o)
    BY <1>3, <1>6, <1>13 DEF LinkedObject
  <2>2. 1 \in 1 .. Len(P2[c])
    BY <1>13
  <2>. QED BY <2>1, <2>2 DEF In
<1>30. ASSUME NEW d \in Cpu, NEW u, In(P[d], combpage, objects, u)
       PROVE  In(P2[d], combpage', objects', u) /\ u # o
  <2>1. PICK j \in 1 .. Len(P[d]) : Holds(combpage, objects, P[d][j], u)
    BY <1>30 DEF In
  <2>2. Holds(combpage', objects', P[d][j], u)
    BY <1>3, <1>25, <2>1 DEF Holds
  <2>3. In(P2[d], combpage', objects', u)
    BY <1>26, <2>2 DEF In
  <2>4. Holds(combpage, objects', b, o) /\ PageOk(b, objects'[b])
    BY <1>6 DEF LinkedObject
  <2>5. /\ o[1] \in Nat /\ o[2] \in Nat /\ Start(b) <= o[1] /\ o[1] < o[2] /\ o[2] <= End(t)
    BY <1>2, <1>5, <2>4, HoldsWithin DEF t
  <2>6. End(t) \in Nat
    BY <1>5, Addresses
  <2>7. o[1] < End(t)
    BY <2>5, <2>6
  <2>8. \A p \in BlockOf(combpage, b) : home[p] # Pool(d)
    BY <1>5, <1>8, Homes
  <2>9. u[1] # o[1]
    BY <1>1, <1>5, <1>30, <2>5, <2>7, <2>8, Elsewhere DEF t
  <2>. QED BY <2>3, <2>9
<1>31. LiveInv(P2)'
  <2> DEFINE N == {o}
  <2>1. live' = live \cup N
    BY <1>6 DEF LinkedObject
  <2>2. \A u \in N : \E d \in Cpu : In(P2[d], combpage', objects', u)
    BY <1>29
  <2>3. \A d \in Cpu : \A u : In(P[d], combpage, objects, u) =>
          In(P2[d], combpage', objects', u) /\ u \notin N
    BY <1>30
  <2>4. \A d \in Cpu : pc'[d] # "lost"
    BY <1>1, <1>12 DEF LiveInv
  <2>5. \A d \in Cpu : pc'[d] = "search" => pc[d] = "search" /\ ptr'[d] = ptr[d] /\ at'[d] = at[d]
    BY <1>3, <1>12
  <2> HIDE DEF N
  <2>. QED BY <1>1, <2>1, <2>2, <2>3, <2>4, <2>5, LiveStep
<1>32. Inv(home2, P2)'
  BY <1>13, <1>14, <1>22, <1>23, <1>24, <1>28, <1>31 DEF Inv
<1>33. Leaves(home, P, home2, P2, {o}, {})
  BY <1>3, <1>12, <1>15, <1>29, <1>30 DEF Leaves
<1>34. live' = live \cup {o}
  BY <1>6 DEF LinkedObject
<1>. QED BY <1>18, <1>19, <1>32, <1>33, <1>34 DEF After

\* A step in which c has found the object o that it frees, and takes it out.
Finds(c, o, P, P2) ==
  /\ live' = live /\ pc[c] = "search" /\ o[1] = ptr[c] /\ o \notin live
  /\ \A d \in Cpu : \A u : In(P[d], combpage, objects, u) /\ u # o =>
       In(P2[d], combpage', objects', u)
  /\ pc'[c] \notin {"search", "lost"}
  /\ \A d \in Cpu : d # c => pc'[d] = pc[d] /\ ptr'[d] = ptr[d] /\ at'[d] = at[d]

\* The objects of callers are all still there.
LEMMA LiveTaken ==
  ASSUME NEW P, NEW P2, LiveInv(P), NEW c \in Cpu, NEW o, Finds(c, o, P, P2)
  PROVE  LiveInv(P2)'
<1> USE DEF Finds
<1>1. ASSUME NEW u \in live' PROVE \E d \in Cpu : In(P2[d], combpage', objects', u)
  BY DEF LiveInv
<1>2. ASSUME NEW x \in Cpu, pc'[x] = "search" PROVE Ahead(P2, combpage, objects, x)'
  <2>1. x # c /\ pc[x] = "search" /\ ptr'[x] = ptr[x] /\ at'[x] = at[x]
    BY <1>2
  <2>2. Ahead(P, combpage, objects, x) /\ ptr[x] # ptr[c]
    BY <2>1 DEF LiveInv
  <2>3. PICK d \in Cpu : at[x] <= d /\ \E u \in Pair : /\ In(P[d], combpage, objects, u)
                                                       /\ u[1] = ptr[x] /\ u \notin live
    BY <2>2 DEF Ahead
  <2>4. PICK u \in Pair : In(P[d], combpage, objects, u) /\ u[1] = ptr[x] /\ u \notin live
    BY <2>3
  <2>5. u # o
    BY <2>2, <2>4
  <2>6. In(P2[d], combpage', objects', u) /\ u \notin live' /\ u[1] = ptr'[x] /\ at'[x] <= d
    BY <2>1, <2>3, <2>4, <2>5
  <2>. QED BY <2>6 DEF Ahead
<1>3. \A x, y \in Cpu : pc'[x] = "search" /\ pc'[y] = "search" /\ x # y => ptr'[x] # ptr'[y]
  BY DEF LiveInv
<1>4. \A x \in Cpu : pc'[x] # "lost"
  BY DEF LiveInv
<1>. QED BY <1>1, <1>2, <1>3, <1>4 DEF LiveInv

\* T has the elements of S, but not the i-th.
Others(T, S, i) == /\ \A j \in 1 .. Len(S) : j # i => \E k \in 1 .. Len(T) : T[k] = S[j]
                   /\ \A k \in 1 .. Len(T) : \E j \in 1 .. Len(S) : j # i /\ T[k] = S[j]

\* What is left of a list without one element.
LEMMA RemovedRest ==
  ASSUME NEW X, NEW S \in Seq(X), NEW i \in 1 .. Len(S)
  PROVE  RemoveAt(S, i) \in Seq(X) /\ Others(RemoveAt(S, i), S, i)
<1> DEFINE T == RemoveAt(S, i)
<1>1. /\ T \in Seq(X) /\ Len(T) = Len(S) - 1 /\ Len(S) \in Nat /\ i \in Nat
      /\ \A k \in 1 .. i - 1 : T[k] = S[k]
      /\ \A k \in i .. Len(S) - 1 : T[k] = S[k + 1]
  BY Removed
<1> HIDE DEF T
<1>2. ASSUME NEW j \in 1 .. Len(S), j # i PROVE \E k \in 1 .. Len(T) : T[k] = S[j]
  <2>1. CASE j < i
    <3>1. j \in 1 .. i - 1 /\ j \in 1 .. Len(T)
      BY <1>1, <2>1
    <3>. QED BY <1>1, <3>1
  <2>2. CASE j > i
    <3>1. j - 1 \in i .. Len(S) - 1 /\ j - 1 \in 1 .. Len(T) /\ (j - 1) + 1 = j
      BY <1>1, <2>2
    <3>2. T[j - 1] = S[j]
      BY <1>1, <3>1
    <3>. QED BY <3>1, <3>2
  <2>3. j < i \/ j > i
    BY <1>1, <1>2
  <2>. QED BY <2>1, <2>2, <2>3
<1>3. ASSUME NEW k \in 1 .. Len(T) PROVE \E j \in 1 .. Len(S) : j # i /\ T[k] = S[j]
  <2>1. CASE k < i
    <3>1. k \in 1 .. i - 1 /\ k \in 1 .. Len(S) /\ k # i
      BY <1>1, <2>1
    <3>. QED BY <1>1, <3>1
  <2>2. CASE k >= i
    <3>1. k \in i .. Len(S) - 1 /\ k + 1 \in 1 .. Len(S) /\ k + 1 # i
      BY <1>1, <2>2
    <3>. QED BY <1>1, <3>1
  <2>3. k \in Nat /\ i \in Nat
    BY <1>1
  <2>. QED BY <2>1, <2>2, <2>3
<1>4. T \in Seq(X) /\ Others(T, S, i)
  BY <1>1, <1>2, <1>3 DEF Others
<1>. QED BY <1>4 DEF T

\* Cpu c goes on to the next pool, its object o is in the later pool d.
GoesOn(c, d, o, P) ==
  /\ at[c] < d /\ In(P[d], combpage, objects, o) /\ o[1] = ptr[c] /\ o \notin live
  /\ at' = [at EXCEPT ![c] = at[c] + 1]
  /\ objects' = objects /\ ptr' = ptr /\ pc' = pc /\ poolLock' = poolLock /\ size' = size
  /\ live' = live /\ UNCHANGED nodeVars

\* The object is not in this pool: kfree looks into the next one.
LEMMA SearchFurther ==
  ASSUME TypeInv, SizeInv, NEW home, NEW P, Inv(home, P), NEW c \in Cpu, pc[c] = "search",
         NEW d \in Cpu, NEW o \in Pair, GoesOn(c, d, o, P)
  PROVE  Releases(home, P, c, o)
<1> USE DEF GoesOn
<1>1. /\ P \in [Cpu -> Seq(Page)] /\ ListInv(home, P) /\ OwnInv(home)
      /\ home \in [Page -> Home] /\ LinkInv /\ ObjInv(P) /\ LiveInv(P)
  BY DEF Inv
<1>2. /\ combpage' = combpage /\ next' = next /\ own' = own /\ serverPages' = serverPages
      /\ poolPages' = poolPages
  BY DEF nodeVars
<1>3. at[c] + 1 \in Cpu /\ at[c] + 1 <= d /\ at \in [Cpu -> Cpu]
  <2>1. at \in [Cpu -> Cpu] /\ at[c] \in Cpu
    BY DEF TypeInv
  <2>2. \A x, y \in Cpu : x < y => x + 1 \in Cpu /\ x + 1 <= y
    BY CountAssumption DEF Cpu
  <2>. QED BY <2>1, <2>2
<1>4. at'[c] = at[c] + 1 /\ \A x \in Cpu : x # c => at'[x] = at[x]
  BY <1>3
<1>5. TypeInv'
  BY <1>2, <1>3 DEF TypeInv
<1>6. SizeInv'
  BY DEF SizeInv
<1>7. ListInv(home, P)' /\ OwnInv(home)'
  BY <1>1, ListsStay
<1>8. LinkInv' /\ ObjInv(P)'
  BY <1>1, <1>2 DEF LinkInv, ObjInv, Single
<1>9. LiveInv(P)'
  <2>1. ASSUME NEW x \in Cpu, pc[x] = "search" PROVE Ahead(P, combpage, objects, x)'
    <3>1. CASE x = c
      BY <1>2, <1>3, <1>4, <3>1 DEF Ahead
    <3>2. CASE x # c
      <4>1. Ahead(P, combpage, objects, x)
        BY <1>1, <2>1 DEF LiveInv
      <4>. QED BY <1>2, <1>4, <3>2, <4>1 DEF Ahead
    <3>. QED BY <3>1, <3>2
  <2>. QED BY <1>1, <1>2, <2>1 DEF LiveInv
<1>10. Inv(home, P)'
  BY <1>1, <1>7, <1>8, <1>9 DEF Inv
<1>. QED BY <1>2, <1>5, <1>6, <1>10, NoneLeft DEF Releases

\* Cpu c takes the object o, the k-th of page h, from its list, which M is without.
Takes(c, h, o, k, M) ==
  /\ combpage[h] = 0 /\ o[1] = ptr[c] /\ o \notin live
  /\ o = objects[h][k] /\ M = RemoveAt(objects[h], k) /\ M # <<>>
  /\ objects' = [objects EXCEPT ![h] = M]
  /\ at' = [at EXCEPT ![c] = 0] /\ ptr' = [ptr EXCEPT ![c] = 0] /\ pc' = [pc EXCEPT ![c] = "idle"]
  /\ poolLock' = poolLock /\ size' = size /\ live' = live /\ UNCHANGED nodeVars

\* The object is in a page with others, which stays where it is.
LEMMA SearchTakes ==
  ASSUME TypeInv, SizeInv, NEW home, NEW P, Inv(home, P), NEW c \in Cpu, pc[c] = "search",
         NEW d \in Cpu, NEW i \in 1 .. Len(P[d]), NEW h, h = P[d][i],
         NEW k \in 1 .. Len(objects[h]), NEW o, NEW M, Takes(c, h, o, k, M)
  PROVE  Releases(home, P, c, o)
<1> USE DEF Takes
<1>1. /\ P \in [Cpu -> Seq(Page)] /\ ListInv(home, P) /\ OwnInv(home)
      /\ home \in [Page -> Home] /\ LinkInv /\ ObjInv(P) /\ LiveInv(P)
  BY DEF Inv
<1>2. /\ combpage' = combpage /\ next' = next /\ own' = own /\ serverPages' = serverPages
      /\ poolPages' = poolPages
  BY DEF nodeVars
<1>3. h \in Page /\ PageOk(h, objects[h])
  BY <1>1, PoolBlock
<1>4. PageOk(h, M) /\ \A j \in 1 .. Len(objects[h]) : j # k => \E l \in 1 .. Len(M) : M[l] = objects[h][j]
  BY <1>3, TakenOut
<1>5. /\ objects \in [Page -> Seq(Pair)] /\ M \in Seq(Pair) /\ at \in [Cpu -> Cpu]
      /\ ptr \in [Cpu -> Address \cup Page]
      /\ pc \in [Cpu -> {"idle", "fetch", "link", "search", "giveBack", "lost"}]
  BY <1>4 DEF TypeInv, PageOk
<1>6. /\ objects'[h] = M /\ \A p \in Page : p # h => objects'[p] = objects[p]
      /\ pc'[c] = "idle"
      /\ \A x \in Cpu : x # c => pc'[x] = pc[x] /\ ptr'[x] = ptr[x] /\ at'[x] = at[x]
  BY <1>3, <1>5
<1>7. 0 \in Cpu /\ 0 \in Address
  <2>1. 0 \in Cpu
    BY CountAssumption DEF Cpu
  <2>2. 0 <= End(h) /\ 0 \in Nat
    BY <1>3, Addresses
  <2>. QED BY <1>3, <2>1, <2>2, UpToEnd
<1>8. TypeInv'
  <2>1. objects' \in [Page -> Seq(Pair)]
    BY <1>5
  <2>. QED BY <1>2, <1>5, <1>7, <2>1 DEF TypeInv
<1>9. SizeInv'
  BY <1>6 DEF SizeInv
<1>10. ListInv(home, P)' /\ OwnInv(home)'
  BY <1>1, <1>6, ListsStay
<1>11. LinkInv'
  BY <1>1, <1>2, <1>6 DEF LinkInv
<1>12. ObjInv(P)'
  <2>1. \A p \in Page : /\ PageOk(p, objects'[p])
                        /\ objects'[p] # <<>> => p = h \/ objects[p] # <<>>
                        /\ objects[p] # <<>> => objects'[p] # <<>>
    BY <1>1, <1>4, <1>6 DEF ObjInv
  <2>2. Single(P, combpage, h)
    BY DEF Single
  <2>3. ASSUME NEW p \in Page, objects'[p] # <<>> PROVE Single(P, combpage', p)
    BY <1>1, <1>2, <2>1, <2>2, <2>3 DEF ObjInv
  <2>4. ASSUME NEW x \in Cpu, NEW j \in 1 .. Len(P[x]) PROVE HeadInv(combpage', objects', P[x][j])
    <3>1. P[x][j] \in Page /\ HeadInv(combpage, objects, P[x][j])
      BY <1>1, PoolBlock
    <3>. QED BY <1>2, <2>1, <3>1 DEF HeadInv
  <2>. QED BY <2>1, <2>3, <2>4 DEF ObjInv
<1>13. ASSUME NEW x \in Cpu, NEW u, In(P[x], combpage, objects, u), u # o
       PROVE  In(P[x], combpage', objects', u)
  <2>1. PICK j \in 1 .. Len(P[x]) : Holds(combpage, objects, P[x][j], u)
    BY <1>13 DEF In
  <2>2. P[x][j] \in Page
    BY <1>1, PoolBlock
  <2>3. Holds(combpage', objects', P[x][j], u)
    <3>1. CASE P[x][j] = h
      <4>1. PICK l \in 1 .. Len(objects[h]) : u = objects[h][l]
        BY <2>1, <3>1 DEF Holds
      <4>2. \E m \in 1 .. Len(M) : u = M[m]
        BY <1>4, <1>13, <4>1
      <4>. QED BY <1>2, <1>6, <3>1, <4>2 DEF Holds
    <3>2. CASE P[x][j] # h
      BY <1>2, <1>6, <2>1, <2>2, <3>2 DEF Holds
    <3>. QED BY <3>1, <3>2
  <2>. QED BY <2>3 DEF In
<1>14. LiveInv(P)'
  <2>1. pc'[c] \notin {"search", "lost"}
    BY <1>6
  <2>2. \A x \in Cpu : \A u : In(P[x], combpage, objects, u) /\ u # o =>
           In(P[x], combpage', objects', u)
    BY <1>13
  <2>3. Finds(c, o, P, P)
    BY <1>6, <2>1, <2>2 DEF Finds
  <2>. QED BY <1>1, <2>3, LiveTaken
<1>15. Inv(home, P)'
  BY <1>1, <1>10, <1>11, <1>12, <1>14 DEF Inv
<1>16. Leaves(home, P, home, P, {}, {o})
  BY <1>13 DEF Leaves
<1>17. In(P[d], combpage, objects, o)
  BY DEF In, Holds
<1>. QED BY <1>6, <1>8, <1>9, <1>15, <1>16, <1>17 DEF Releases, After

\* What cpumempool_receive does with the block of page h, the i-th of pool d.
Unlinking(c, d, h, before) ==
  LET t == TailOf(combpage, h)
  IN /\ poolPages' = IF before = NULL THEN [poolPages EXCEPT ![d] = next[t]] ELSE poolPages
     /\ next' = [p \in Page |-> IF p = t THEN NULL ELSE IF p = before THEN next[t] ELSE next[p]]
     /\ own' = [p \in Page |-> IF p \in BlockOf(combpage, h) THEN 0 ELSE own[p]]
     /\ poolLock' = [poolLock EXCEPT ![d] = c]
     /\ ptr' = [ptr EXCEPT ![c] = h]
     /\ pc' = [pc EXCEPT ![c] = "giveBack"]
     /\ UNCHANGED <<combpage, serverPages, at, size, live>>

\* The last page of the block before the i-th of a list.
BlockBefore(S, i) == IF i = 1 THEN NULL ELSE TailOf(combpage, S[i - 1])

\* An object that is alone in the block of page h goes.
Emptying(h, o) == /\ Holds(combpage, objects, h, o)
                  /\ \A u : Holds(combpage, objects, h, u) => u = o
                  /\ objects' \in [Page -> Seq(Pair)] /\ objects'[h] = <<>>
                  /\ \A p \in Page : p # h => objects'[p] = objects[p]

\* The block and the object that cpu c has found: the i-th block of the list S.
Spotted(S, i, h, before, o, c) == /\ h = S[i] /\ before = BlockBefore(S, i)
                                  /\ o[1] = ptr[c] /\ o \notin live

\* The object was all of its block, or the last of its page: the block leaves the pool.
LEMMA SearchUnlinks ==
  ASSUME TypeInv, SizeInv, NEW home, NEW P, Inv(home, P), NEW c \in Cpu, pc[c] = "search",
         NEW d \in Cpu, NEW i \in 1 .. Len(P[d]), NEW h, NEW before, NEW o,
         Spotted(P[d], i, h, before, o, c), Emptying(h, o), Unlinking(c, d, h, before)
  PROVE  Releases(home, P, c, o)
<1> DEFINE t == TailOf(combpage, h)
           V == At(home, Pool(d))
           B == BlockOf(combpage, h)
           first2 == IF before = NULL THEN next[t] ELSE poolPages[d]
           X == {Pool(d), Hand(c)}
<1>1. /\ P \in [Cpu -> Seq(Page)] /\ ListInv(home, P) /\ OwnInv(home)
      /\ home \in [Page -> Home] /\ LinkInv /\ ObjInv(P) /\ LiveInv(P)
  BY DEF Inv
<1>2. /\ combpage \in Counts /\ next \in Links /\ poolPages \in [Cpu -> Page \cup {NULL}]
      /\ ptr \in [Cpu -> Address \cup Page] /\ own \in [Page -> {0, 1}]
      /\ pc \in [Cpu -> {"idle", "fetch", "link", "search", "giveBack", "lost"}]
      /\ poolLock \in [Cpu -> Cpu \cup {None}]
  BY DEF TypeInv
<1>3. /\ poolPages' = IF before = NULL THEN [poolPages EXCEPT ![d] = next[t]] ELSE poolPages
      /\ next' = [p \in Page |-> IF p = t THEN NULL ELSE IF p = before THEN next[t] ELSE next[p]]
      /\ own' = [p \in Page |-> IF p \in B THEN 0 ELSE own[p]]
      /\ poolLock' = [poolLock EXCEPT ![d] = c]
      /\ ptr' = [ptr EXCEPT ![c] = h]
      /\ pc' = [pc EXCEPT ![c] = "giveBack"]
      /\ combpage' = combpage /\ serverPages' = serverPages /\ at' = at /\ size' = size /\ live' = live
  BY DEF Unlinking
<1>s. /\ h = P[d][i] /\ before = BlockBefore(P[d], i) /\ o[1] = ptr[c] /\ o \notin live
  BY DEF Spotted
<1>e. /\ Holds(combpage, objects, h, o)
      /\ \A u : Holds(combpage, objects, h, u) => u = o
      /\ objects' \in [Page -> Seq(Pair)] /\ objects'[h] = <<>>
      /\ \A p \in Page : p # h => objects'[p] = objects[p]
  BY DEF Emptying
<1>4. /\ h \in Page /\ t \in Page /\ \A p \in B : p \in V /\ p \in Page
      /\ PageOk(h, objects[h]) /\ P[d] \in Seq(Page)
  <2> DEFINE g == P[d][i]
  <2>1. /\ g \in Page /\ TailOf(combpage, g) \in Page /\ PageOk(g, objects[g]) /\ P[d] \in Seq(Page)
        /\ \A p \in BlockOf(combpage, g) : p \in Page /\ home[p] = Pool(d)
    BY <1>1, PoolBlock
  <2>2. g = h
    BY <1>s
  <2> HIDE DEF g
  <2>. QED BY <2>1, <2>2 DEF At
<1>5. IsList(poolPages[d], P[d], next, combpage, V) /\ V \in SUBSET Page
      /\ \A p : p \in V <=> p \in Page /\ home[p] = Pool(d)
  BY <1>1 DEF ListInv, At
<1>r. PICK R : R = RemoveAt(P[d], i)
  OBVIOUS
<1>p. PICK P2 : P2 = [P EXCEPT ![d] = R]
  OBVIOUS
<1>q. PICK home2 : home2 = [p \in Page |-> IF p \in B THEN Hand(c) ELSE home[p]]
  OBVIOUS
<1>6. /\ R \in Seq(Page)
      /\ \A j \in 1 .. Len(P[d]) : j # i => \E k \in 1 .. Len(R) : R[k] = P[d][j]
      /\ \A k \in 1 .. Len(R) : \E j \in 1 .. Len(P[d]) : j # i /\ R[k] = P[d][j]
  <2>1. R \in Seq(Page) /\ Others(R, P[d], i)
    BY <1>4, <1>r, RemovedRest
  <2>. QED BY <2>1 DEF Others
<1>7. P2 \in [Cpu -> Seq(Page)] /\ P2[d] = R /\ \A x \in Cpu : x # d => P2[x] = P[x]
  BY <1>1, <1>6, <1>p
<1> HIDE DEF t, V, B, first2
<1>8. \A p \in Page : next'[p] = IF p = t THEN NULL ELSE IF p = before THEN next[t] ELSE next[p]
  BY <1>3
<1>9. next' \in Links
  BY <1>2, <1>3, <1>4 DEF Links
<1>10. /\ IsList(first2, P2[d], next', combpage, V \ B)
       /\ HandOk(h, next', combpage, B)
       /\ \A p \in Page : p \notin V => next'[p] = next[p]
  <2>1. t = TailOf(combpage, P[d][i]) /\ B = BlockOf(combpage, P[d][i])
    BY <1>s DEF t, B
  <2>2. before = IF i = 1 THEN NULL ELSE TailOf(combpage, P[d][i - 1])
    BY <1>s DEF BlockBefore
  <2>3. /\ IsList(first2, RemoveAt(P[d], i), next', combpage, V \ BlockOf(combpage, P[d][i]))
        /\ HandOk(P[d][i], next', combpage, BlockOf(combpage, P[d][i]))
        /\ \A p \in Page : p \notin V => next'[p] = next[p]
    <3>1. BlockGone(poolPages[d], P[d], next, combpage, V, first2, next', i, t, before)
      BY <1>5, <1>8, <2>1, <2>2 DEF BlockGone, first2
    <3>2. next \in Links /\ combpage \in Counts /\ next' \in Links /\ V \in SUBSET Page
      BY <1>2, <1>5, <1>9
    <3>. QED BY <3>1, <3>2, ListDrop
  <2>. QED BY <1>7, <1>r, <1>s, <2>1, <2>3
<1>11. /\ poolPages'[d] = first2 /\ poolPages' \in [Cpu -> Page \cup {NULL}]
       /\ \A x \in Cpu : x # d => poolPages'[x] = poolPages[x]
  <2>1. next[t] \in Page \cup {NULL}
    BY <1>2, <1>4 DEF Links
  <2>. QED BY <1>2, <1>3, <2>1 DEF first2
<1>12. /\ pc'[c] = "giveBack" /\ ptr'[c] = h
       /\ \A x \in Cpu : x # c => pc'[x] = pc[x] /\ ptr'[x] = ptr[x] /\ at'[x] = at[x]
  BY <1>2, <1>3
<1>13. /\ home2 \in [Page -> Home]
       /\ \A p \in Page : home2[p] = IF p \in B THEN Hand(c) ELSE home[p]
  BY <1>1, <1>q, Homes
<1>14. At(home, Hand(c)) = {}
  <2>1. HandInv(home, c)
    BY <1>1 DEF ListInv
  <2>. QED BY <2>1 DEF HandInv
<1>15. /\ At(home2, Pool(d)) = V \ B /\ At(home2, Hand(c)) = B
       /\ At(home2, Server) = At(home, Server)
       /\ \A x \in Cpu : x # d => At(home2, Pool(x)) = At(home, Pool(x))
       /\ \A x \in Cpu : x # c => At(home2, Hand(x)) = At(home, Hand(x))
  <2>1. \A p \in B : home[p] = Pool(d) /\ p \in Page
    BY <1>4, <1>5
  <2>2. At(home2, Pool(d)) = V \ B
    BY <1>5, <1>13, Homes DEF At
  <2>3. At(home2, Hand(c)) = B
    BY <1>13, <1>14, <2>1 DEF At
  <2>4. ASSUME NEW x, x # Pool(d), x # Hand(c) PROVE At(home2, x) = At(home, x)
    BY <1>13, <2>1, <2>4 DEF At
  <2>. QED BY <2>2, <2>3, <2>4, Homes
<1>16. TypeInv'
  <2>1. own' \in [Page -> {0, 1}] /\ ptr' \in [Cpu -> Address \cup Page]
        /\ pc' \in [Cpu -> {"idle", "fetch", "link", "search", "giveBack", "lost"}]
        /\ poolLock' \in [Cpu -> Cpu \cup {None}]
    BY <1>2, <1>3, <1>4
  <2>. QED BY <1>3, <1>9, <1>11, <1>e, <2>1 DEF TypeInv
<1>17. SizeInv'
  BY <1>3, <1>12 DEF SizeInv
<1>18. \A p \in Page : home[p] \notin X => next'[p] = next[p] /\ combpage'[p] = combpage[p]
  BY <1>3, <1>5, <1>10
<1>19. /\ \A x \in Cpu : x # d => Pool(x) \notin X
       /\ \A x \in Cpu : x # c => Hand(x) \notin X
       /\ Server \notin X /\ Pool(d) \in X /\ Hand(c) \in X
  BY Homes
<1>20. /\ \A x \in Cpu : Pool(x) \notin X =>
             IsList(poolPages'[x], P2[x], next', combpage', At(home2, Pool(x)))
       /\ \A x \in Cpu : Hand(x) \notin X => HandInv(home2, x)'
       /\ Server \notin X => ServerOk(serverPages, next', combpage', At(home, Server))
  <2> HIDE DEF X
  <2>1. \A x \in Cpu : Pool(x) \notin X => /\ At(home2, Pool(x)) = At(home, Pool(x))
                                           /\ P2[x] = P[x] /\ poolPages'[x] = poolPages[x]
    BY <1>7, <1>11, <1>15, <1>19
  <2>2. \A x \in Cpu : Hand(x) \notin X => /\ At(home2, Hand(x)) = At(home, Hand(x))
                                           /\ pc'[x] = pc[x] /\ ptr'[x] = ptr[x]
    BY <1>12, <1>15, <1>19
  <2>3. ListInv(home, P)
    BY <1>1
  <2>4. Only(X, home, home2, P, P2)
    BY <1>18, <2>1, <2>2 DEF Only
  <2>. QED BY <1>16, <2>3, <2>4, OthersKept
<1>21. NextOk(next', home2)
  <2>1. ASSUME NEW p \in Page, next'[p] # NULL PROVE home2[next'[p]] = home2[p]
    <3>1. CASE p \in B
      <4>1. /\ B = h .. t /\ \A q \in h .. t - 1 : next'[q] = q + 1
        BY <1>10 DEF HandOk, BlockOf, t
      <4>2. p # t /\ h \in Nat /\ t \in Nat
        BY <1>4, <1>8, <2>1 DEF Page
      <4>3. p \in h .. t - 1 /\ p + 1 \in h .. t
        BY <3>1, <4>1, <4>2
      <4>4. next'[p] = p + 1 /\ p + 1 \in B /\ p + 1 \in Page
        BY <1>4, <4>1, <4>3
      <4>. QED BY <1>13, <3>1, <4>4
    <3>2. CASE p \in V \ B
      <4>1. V \ B \in SUBSET Page
        BY <1>5
      <4> DEFINE VB == V \ B
      <4>2. VB \in SUBSET Page /\ p \in VB /\ IsList(first2, P2[d], next', combpage, VB)
        BY <1>10, <3>2, <4>1
      <4> HIDE DEF VB
      <4>3. next'[p] \in VB
        BY <1>2, <1>9, <2>1, <4>2, ListClosed
      <4>4. next'[p] \in V \ B
        BY <4>3 DEF VB
      <4>. QED BY <1>5, <1>13, <3>2, <4>4
    <3>3. CASE p \notin V
      <4>1. next'[p] = next[p] /\ next[p] \in Page /\ home[next[p]] = home[p]
        BY <1>1, <1>2, <1>10, <2>1, <3>3 DEF ListInv, NextOk, Links
      <4>2. next[p] \notin B /\ p \notin B
        BY <1>4, <1>5, <3>3, <4>1
      <4>. QED BY <1>13, <4>1, <4>2
    <3>. QED BY <3>1, <3>2, <3>3
  <2>. QED BY <2>1 DEF NextOk
<1>22. ListInv(home2, P2)'
  <2>1. \A x \in Cpu : IsList(poolPages'[x], P2[x], next', combpage', At(home2, Pool(x)))
    BY <1>3, <1>10, <1>11, <1>15, <1>19, <1>20
  <2>2. HandOk(ptr'[c], next', combpage', At(home2, Hand(c)))
    BY <1>3, <1>10, <1>12, <1>15
  <2>3. HandInv(home2, c)'
    BY <1>12, <2>2 DEF HandInv, At
  <2>4. \A x \in Cpu : HandInv(home2, x)'
    BY <1>19, <1>20, <2>3
  <2>5. ServerOk(serverPages', next', combpage', At(home2, Server))
    BY <1>3, <1>15, <1>19, <1>20
  <2>. QED BY <1>21, <2>1, <2>4, <2>5 DEF ListInv, NextOk, At
<1>23. OwnInv(home2)'
  <2>1. ASSUME NEW p \in Page PROVE own'[p] = 1 <=> Owned(home2, p)'
    <3>1. CASE p \in B
      <4>1. own'[p] = 0 /\ home2[p] = Hand(c)
        BY <1>3, <1>13, <3>1
      <4>2. ~ Owned(home2, p)'
        BY <1>12, <4>1, Homes DEF Owned
      <4>. QED BY <4>1, <4>2
    <3>2. CASE p \notin B
      <4>1. own'[p] = own[p] /\ home2[p] = home[p]
        BY <1>3, <1>13, <3>2
      <4>2. own[p] = 1 <=> Owned(home, p)
        BY <1>1 DEF OwnInv
      <4>3. home[p] # Hand(c)
        BY <1>14 DEF At
      <4>. QED BY <1>12, <4>1, <4>2, <4>3 DEF Owned
    <3>. QED BY <3>1, <3>2
  <2>. QED BY <2>1 DEF OwnInv
<1>24. LinkInv'
  BY <1>1, <1>3, <1>12 DEF LinkInv
<1>25. ASSUME NEW x \in Cpu, NEW j \in 1 .. Len(P[x]), P[x][j] = h PROVE x = d /\ j = i
  <2>1. /\ o[1] \in Nat /\ o[2] \in Nat /\ Start(h) <= o[1] /\ o[1] < o[2] /\ o[2] <= End(t)
    BY <1>2, <1>4, <1>e, HoldsWithin DEF t
  <2>2. End(t) \in Nat
    BY <1>4, Addresses
  <2>3. o[1] < End(t)
    BY <2>1, <2>2
  <2> DEFINE a == o[1]
  <2>4. /\ a \in Nat /\ Start(P[x][j]) <= a /\ a < End(TailOf(combpage, P[x][j]))
        /\ Start(P[d][i]) <= a /\ a < End(TailOf(combpage, P[d][i]))
    BY <1>25, <1>s, <2>1, <2>3 DEF t
  <2> HIDE DEF a
  <2>. QED BY <1>1, <2>4, OnePlace
<1>26. ASSUME NEW x \in Cpu, NEW j \in 1 .. Len(P[x]), P[x][j] # h
       PROVE  /\ P[x][j] \in Page /\ objects'[P[x][j]] = objects[P[x][j]]
              /\ \E k \in 1 .. Len(P2[x]) : P2[x][k] = P[x][j]
  <2>1. P[x][j] \in Page
    BY <1>1, PoolBlock
  <2>2. x = d => j # i
    BY <1>26, <1>s
  <2>3. \E k \in 1 .. Len(P2[x]) : P2[x][k] = P[x][j]
    <3>1. CASE x = d
      BY <1>6, <1>7, <2>2, <3>1
    <3>2. CASE x # d
      BY <1>7, <3>2
    <3>. QED BY <3>1, <3>2
  <2>. QED BY <1>26, <1>e, <2>1, <2>3
<1>27. ASSUME NEW x \in Cpu, NEW k \in 1 .. Len(P2[x])
       PROVE  \E j \in 1 .. Len(P[x]) : P2[x][k] = P[x][j] /\ P[x][j] # h
  <2>1. CASE x = d
    <3>1. PICK j \in 1 .. Len(P[d]) : j # i /\ P2[d][k] = P[d][j]
      BY <1>6, <1>7, <2>1
    <3>. QED BY <1>25, <2>1, <3>1
  <2>2. CASE x # d
    BY <1>7, <1>25, <2>2
  <2>. QED BY <2>1, <2>2
<1>28. ObjInv(P2)'
  <2>1. \A p \in Page : PageOk(p, objects'[p])
    <3>1. PageOk(h, <<>>)
      BY DEF PageOk
    <3>. QED BY <1>1, <1>e, <3>1 DEF ObjInv
  <2>2. ASSUME NEW p \in Page, objects'[p] # <<>> PROVE Single(P2, combpage', p)
    <3>1. p # h /\ objects[p] # <<>>
      BY <1>e, <2>2
    <3>2. Single(P, combpage, p)
      BY <1>1, <3>1 DEF ObjInv
    <3>3. PICK x \in Cpu : \E j \in 1 .. Len(P[x]) : p = P[x][j]
      BY <3>2 DEF Single
    <3>4. \E k \in 1 .. Len(P2[x]) : p = P2[x][k]
      BY <1>26, <3>1, <3>3
    <3>. QED BY <1>3, <3>2, <3>4 DEF Single
  <2>3. ASSUME NEW x \in Cpu, NEW k \in 1 .. Len(P2[x]) PROVE HeadInv(combpage', objects', P2[x][k])
    <3>1. PICK j \in 1 .. Len(P[x]) : P2[x][k] = P[x][j] /\ P[x][j] # h
      BY <1>27
    <3>2. HeadInv(combpage, objects, P[x][j])
      BY <1>1 DEF ObjInv
    <3>. QED BY <1>3, <1>26, <3>1, <3>2 DEF HeadInv
  <2>. QED BY <2>1, <2>2, <2>3 DEF ObjInv
<1>29. ASSUME NEW x \in Cpu, NEW u, In(P[x], combpage, objects, u), u # o
       PROVE  In(P2[x], combpage', objects', u)
  <2>1. PICK j \in 1 .. Len(P[x]) : Holds(combpage, objects, P[x][j], u)
    BY <1>29 DEF In
  <2>2. P[x][j] # h
    BY <1>29, <1>e, <2>1
  <2>3. Holds(combpage', objects', P[x][j], u)
    BY <1>3, <1>26, <2>1, <2>2 DEF Holds
  <2>4. \E k \in 1 .. Len(P2[x]) : P2[x][k] = P[x][j]
    BY <1>26, <2>2
  <2>. QED BY <2>3, <2>4 DEF In
<1>30. LiveInv(P2)'
  <2>1. pc'[c] \notin {"search", "lost"} /\ live' = live
    BY <1>3, <1>12
  <2>2. \A x \in Cpu : \A u : In(P[x], combpage, objects, u) /\ u # o =>
           In(P2[x], combpage', objects', u)
    BY <1>29
  <2>3. Finds(c, o, P, P2)
    BY <1>12, <1>s, <2>1, <2>2 DEF Finds
  <2>. QED BY <1>1, <2>3, LiveTaken
<1>31. Inv(home2, P2)'
  BY <1>7, <1>13, <1>22, <1>23, <1>24, <1>28, <1>30 DEF Inv
<1>32. Leaves(home, P, home2, P2, {}, {o})
  BY <1>12, <1>15, <1>29 DEF Leaves
<1>33. In(P[d], combpage, objects, o)
  BY <1>s, <1>e DEF In
<1>34. Carries(c, o)'
  <2>1. InHand(c)' = B
    BY <1>3, <1>12 DEF InHand, Block, TailPage, BlockOf, TailOf, B
  <2>2. o \in Pair /\ Start(h) <= o[1] /\ o[1] < o[2] /\ o[2] <= End(t) /\ h <= t
    BY <1>2, <1>4, <1>e, HoldsWithin, TailAfter DEF t
  <2>3. \A p \in h .. t : p \in InHand(c)'
    BY <2>1 DEF B, BlockOf, t
  <2>. QED BY <1>4, <2>2, <2>3 DEF Carries
<1>. QED BY <1>12, <1>16, <1>17, <1>31, <1>32, <1>33, <1>34, <1>s DEF Releases, After

\* The block of a list that has address a, as kfree looks for it (0: none has).
FirstWith(S, a) == SelectInSeq(S, LAMBDA p : a >= Start(p) /\ a < End(TailPage(p)))

\* What is in pool d, the object of cpu c that frees at address a, is looked for as block i.
SeenAs(P, c, i, d, o) ==
  /\ at[c] <= d /\ o[1] = ptr[c] /\ o \notin live /\ In(P[d], combpage, objects, o)
  /\ i = 0 => at[c] < d
  /\ i # 0 => d = at[c] /\ i \in 1 .. Len(P[d]) /\ Holds(combpage, objects, P[d][i], o)

\* kfree sees the object if it is in this pool, and it is in this one or a later one.
LEMMA Locates ==
  ASSUME TypeInv, NEW home, NEW P, Inv(home, P), NEW c \in Cpu, pc[c] = "search"
  PROVE  \E d \in Cpu : \E o \in Pair : SeenAs(P, c, FirstWith(P[at[c]], ptr[c]), d, o)
<1> DEFINE a == ptr[c]
           e == at[c]
           I == {j \in 1 .. Len(P[e]) : a >= Start(P[e][j]) /\ a < End(TailPage(P[e][j]))}
           m == IF I # {} THEN Min(I) ELSE 0
<1>1. /\ P \in [Cpu -> Seq(Page)] /\ ListInv(home, P) /\ ObjInv(P) /\ LiveInv(P)
  BY DEF Inv
<1>2. e \in Cpu /\ P[e] \in Seq(Page) /\ Len(P[e]) \in Nat /\ combpage \in Counts
  BY <1>1 DEF TypeInv
<1>3. FirstWith(P[e], a) = m
  BY DEF SelectInSeq, FirstWith
<1>4. m \in 0 .. Len(P[e]) /\ (m # 0 => m \in I) /\ (m = 0 => I = {})
  <2>1. I \in SUBSET (1 .. Len(P[e]))
    OBVIOUS
  <2> HIDE DEF I
  <2>. QED BY <1>2, <2>1, FirstMatch
<1> HIDE DEF m
<1>5. Ahead(P, combpage, objects, c)
  BY <1>1 DEF LiveInv
<1>6. PICK d \in Cpu : e <= d /\ \E o \in Pair : In(P[d], combpage, objects, o) /\ o[1] = a /\ o \notin live
  BY <1>5 DEF Ahead
<1>7. PICK o \in Pair : In(P[d], combpage, objects, o) /\ o[1] = a /\ o \notin live
  BY <1>6
<1>8. PICK j \in 1 .. Len(P[d]) : Holds(combpage, objects, P[d][j], o)
  BY <1>7 DEF In
<1>9. a \in Nat /\ Start(P[d][j]) <= a /\ a < End(TailOf(combpage, P[d][j]))
  <2>1. /\ P[d][j] \in Page /\ TailOf(combpage, P[d][j]) \in Page
        /\ PageOk(P[d][j], objects[P[d][j]])
    BY <1>1, PoolBlock
  <2>2. /\ o[1] \in Nat /\ o[2] \in Nat /\ Start(P[d][j]) <= o[1] /\ o[1] < o[2]
        /\ o[2] <= End(TailOf(combpage, P[d][j]))
    BY <1>2, <1>8, <2>1, HoldsWithin
  <2>3. End(TailOf(combpage, P[d][j])) \in Nat /\ Start(P[d][j]) \in Nat
    BY <2>1, Addresses
  <2>. QED BY <1>7, <2>2, <2>3
<1>10. CASE m = 0
  <2>1. d # e
    <3>1. TailPage(P[d][j]) = TailOf(combpage, P[d][j]) /\ Start(P[d][j]) \in Nat
      BY <1>1, PoolBlock, Addresses
    <3>2. a >= Start(P[d][j]) /\ a < End(TailPage(P[d][j]))
      BY <1>9, <3>1
    <3>3. j \notin I
      BY <1>4, <1>10
    <3>. QED BY <3>2, <3>3
  <2>2. e < d
    BY <1>2, <1>6, <2>1 DEF Cpu
  <2>. QED BY <1>3, <1>6, <1>7, <1>10, <2>2 DEF SeenAs
<1>11. CASE m # 0
  <2>1. m \in 1 .. Len(P[e]) /\ a >= Start(P[e][m]) /\ a < End(TailPage(P[e][m]))
    BY <1>4, <1>11
  <2>2. TailPage(P[e][m]) = TailOf(combpage, P[e][m]) /\ P[e][m] \in Page
    BY <1>1, <1>2, <2>1, PoolBlock
  <2>3. Start(P[e][m]) \in Nat
    BY <2>2, Addresses
  <2>4. Start(P[e][m]) <= a /\ a < End(TailOf(combpage, P[e][m]))
    BY <1>9, <2>1, <2>2, <2>3
  <2> HIDE DEF a, e
  <2>5. e = d /\ m = j
    BY <1>1, <1>2, <1>9, <2>1, <2>4, OnePlace
  <2>. QED BY <1>3, <1>6, <1>7, <1>8, <1>11, <2>1, <2>5 DEF SeenAs, a, e
<1>. QED BY <1>10, <1>11

\* kfree's step under the pool's lock.
LEMMA SearchStep ==
  ASSUME TypeInv, SizeInv, NEW home, NEW P, Inv(home, P), NEW c \in Cpu, Search(c)
  PROVE  \E o : Releases(home, P, c, o)
<1> DEFINE e == at[c]
           a == ptr[c]
           i == FirstWith(P[e], a)
           h == P[e][i]
           rest == Without(h, a)
           Small == i # 0 /\ combpage[h] = 0 /\ a # Start(h)
           Whole == i # 0 /\ combpage[h] # 0 /\ a = Start(h)
           GoesBack == Whole \/ (Small /\ rest = <<>>)
           Further == i = 0 /\ e + 1 < CpuCount
<1>1. /\ P \in [Cpu -> Seq(Page)] /\ ListInv(home, P) /\ ObjInv(P)
      /\ combpage \in Counts /\ e \in Cpu /\ objects \in [Page -> Seq(Pair)]
      /\ ptr \in [Cpu -> Address \cup Page] /\ at \in [Cpu -> Cpu]
      /\ pc \in [Cpu -> {"idle", "fetch", "link", "search", "giveBack", "lost"}]
  BY DEF Inv, TypeInv
<1>t. ASSUME NEW j \in 1 .. Len(P[e])
      PROVE  /\ P[e][j] \in Page /\ TailOf(combpage, P[e][j]) \in Page
             /\ PageOk(P[e][j], objects[P[e][j]])
             /\ TailPage(P[e][j]) = TailOf(combpage, P[e][j])
             /\ Block(P[e][j]) = BlockOf(combpage, P[e][j])
  <2>1. P \in [Cpu -> Seq(Page)] /\ ListInv(home, P) /\ ObjInv(P) /\ e \in Cpu
    BY <1>1
  <2> HIDE DEF e, i, h, rest
  <2>. QED BY <2>1, PoolBlock
<1>2. Heads(poolPages[e]) = P[e]
  BY <1>1, Lists
<1>3. /\ pc[c] = "search" /\ size' = size /\ live' = live
      /\ objects' = IF Small THEN [objects EXCEPT ![h] = rest] ELSE objects
      /\ \/ /\ GoesBack
            /\ Unlink(e, P[e], i)
            /\ poolLock' = [poolLock EXCEPT ![e] = c]
            /\ ptr' = [ptr EXCEPT ![c] = h]
            /\ pc' = [pc EXCEPT ![c] = "giveBack"]
            /\ at' = at
         \/ /\ ~GoesBack
            /\ at' = [at EXCEPT ![c] = IF Further THEN e + 1 ELSE 0]
            /\ ptr' = [ptr EXCEPT ![c] = IF Further THEN a ELSE 0]
            /\ pc' = [pc EXCEPT ![c] = IF Further THEN pc[c]
                                       ELSE IF Small /\ rest # objects[h] THEN "idle" ELSE "lost"]
            /\ poolLock' = poolLock /\ UNCHANGED nodeVars
  BY <1>2 DEF Search, FirstWith, MorePools, Empties
<1>4. PICK d \in Cpu : \E o \in Pair : SeenAs(P, c, i, d, o)
  BY <1>3, Locates
<1>5. PICK o \in Pair : SeenAs(P, c, i, d, o)
  BY <1>4
<1> HIDE DEF i
<1>6. /\ e <= d /\ o[1] = a /\ o \notin live /\ In(P[d], combpage, objects, o)
      /\ i = 0 => e < d
      /\ i # 0 => d = e /\ i \in 1 .. Len(P[d]) /\ Holds(combpage, objects, P[d][i], o)
  BY <1>5 DEF SeenAs
<1>7. CASE i = 0
  <2>1. Further
    BY <1>1, <1>6, <1>7, CountAssumption DEF Cpu
  <2>2. ~ Small /\ ~ GoesBack
    BY <1>7
  <2>3. /\ at' = [at EXCEPT ![c] = e + 1] /\ ptr' = ptr /\ pc' = pc
        /\ objects' = objects /\ poolLock' = poolLock /\ size' = size /\ live' = live
        /\ UNCHANGED nodeVars
    BY <1>1, <1>3, <2>1, <2>2, ZenonT(40)
  <2>4. GoesOn(c, d, o, P)
    BY <1>6, <1>7, <2>3 DEF GoesOn
  <2>. QED BY <1>3, <2>4, SearchFurther
<1>8. CASE i # 0
  <2>1. d = e /\ i \in 1 .. Len(P[d]) /\ Holds(combpage, objects, h, o)
    BY <1>6, <1>8
  <2>2. h \in Page /\ TailOf(combpage, h) \in Page /\ PageOk(h, objects[h])
        /\ TailPage(h) = TailOf(combpage, h) /\ Block(h) = BlockOf(combpage, h)
    <3>1. i \in 1 .. Len(P[e])
      BY <2>1
    <3>. QED BY <1>t, <3>1
  <2>3. ~ Further
    BY <1>8
  <2>4. ASSUME GoesBack, Emptying(h, o) PROVE \E u : Releases(home, P, c, u)
    <3>1. Unlink(e, P[e], i) /\ poolLock' = [poolLock EXCEPT ![e] = c]
          /\ ptr' = [ptr EXCEPT ![c] = h] /\ pc' = [pc EXCEPT ![c] = "giveBack"] /\ at' = at
      BY <1>3, <2>4
    <3> DEFINE before == BlockBefore(P[e], i)
    <3>2. Prior(P[e], i) = before
      <4>1. CASE i = 1
        BY <4>1 DEF Prior, BlockBefore
      <4>2. CASE i # 1
        <5>1. i - 1 \in 1 .. Len(P[e])
          BY <2>1, <4>2
        <5>. QED BY <1>t, <4>2, <5>1 DEF Prior, BlockBefore
      <4>. QED BY <4>1, <4>2
    <3> HIDE DEF before
    <3>3. Unlinking(c, e, h, before)
      BY <1>3, <2>2, <3>1, <3>2 DEF Unlink, Unlinking
    <3>4. Spotted(P[e], i, h, before, o, c)
      BY <1>6 DEF Spotted, before
    <3>. QED BY <1>1, <1>3, <2>1, <2>4, <3>3, <3>4, SearchUnlinks
  <2>5. CASE combpage[h] = 0
    <3>1. PICK k \in 1 .. Len(objects[h]) : o = objects[h][k]
      BY <2>1, <2>5 DEF Holds
    <3>2. Small
      <4>1. Start(h) + Header <= o[1]
        BY <1>1, <2>1, <2>2, <2>5, HoldsWithin
      <4>2. Start(h) \in Nat /\ Header \in Nat \ {0} /\ o[1] \in Nat
        BY <2>2, Addresses, Sizes DEF Pair
      <4>. QED BY <1>6, <1>8, <2>5, <4>1, <4>2
    <3>3. rest = RemoveAt(objects[h], k)
      BY <1>6, <2>2, <3>1, WithoutIs
    <3>4. rest # objects[h] /\ PageOk(h, rest)
          /\ \A l \in 1 .. Len(objects[h]) : l # k => \E j \in 1 .. Len(rest) : rest[j] = objects[h][l]
      BY <2>2, <3>3, TakenOut
    <3> HIDE DEF rest
    <3>5. rest \in Seq(Pair) /\ objects' = [objects EXCEPT ![h] = rest]
      BY <1>3, <3>2, <3>4 DEF PageOk
    <3>6. CASE rest = <<>>
      <4>1. GoesBack
        BY <3>2, <3>6
      <4>2. ASSUME NEW u, Holds(combpage, objects, h, u) PROVE u = o
        <5>1. PICK l \in 1 .. Len(objects[h]) : u = objects[h][l]
          BY <2>5, <4>2 DEF Holds
        <5>2. l = k
          BY <3>4, <3>6
        <5>. QED BY <3>1, <5>1, <5>2
      <4>3. /\ objects' \in [Page -> Seq(Pair)] /\ objects'[h] = <<>>
            /\ \A p \in Page : p # h => objects'[p] = objects[p]
        BY <1>1, <2>2, <3>5, <3>6
      <4>4. Emptying(h, o)
        BY <2>1, <4>2, <4>3 DEF Emptying
      <4>. QED BY <2>4, <4>1, <4>4
    <3>7. CASE rest # <<>>
      <4>1. ~ GoesBack
        BY <2>5, <3>7
      <4>2. /\ at' = [at EXCEPT ![c] = 0] /\ ptr' = [ptr EXCEPT ![c] = 0]
            /\ pc' = [pc EXCEPT ![c] = "idle"] /\ poolLock' = poolLock /\ UNCHANGED nodeVars
        BY <1>3, <2>3, <3>2, <3>4, <4>1
      <4>3. Takes(c, h, o, k, rest)
        BY <1>3, <1>6, <2>5, <3>1, <3>3, <3>5, <3>7, <4>2 DEF Takes
      <4>. QED BY <1>3, <2>1, <4>3, SearchTakes
    <3>. QED BY <3>6, <3>7
  <2>6. CASE combpage[h] # 0
    <3>1. o = <<Start(h), Start(h) + combpage[h] * PageSize>>
      BY <2>1, <2>6 DEF Holds
    <3>2. Whole /\ ~ Small
      BY <1>6, <1>8, <2>6, <3>1
    <3>3. objects' = objects
      BY <1>3, <3>2
    <3>4. objects[h] = <<>>
      BY <1>1, <2>2, <2>6 DEF ObjInv, Single
    <3>5. \A u : Holds(combpage, objects, h, u) => u = o
      BY <2>6, <3>1 DEF Holds
    <3>6. Emptying(h, o)
      BY <1>1, <2>1, <3>3, <3>4, <3>5 DEF Emptying
    <3>. QED BY <2>4, <3>2, <3>6
  <2>. QED BY <2>5, <2>6
<1>. QED BY <1>7, <1>8

\* The place of pages s .. e among the pages V: after page before, and before page above.
Between(V, s, e, before, above) ==
  /\ before = NULL \/ (before \in V /\ before < s)
  /\ \A p \in V : p < s => before # NULL /\ p <= before
  /\ above = NULL \/ (above \in V /\ above > e)
  /\ \A p \in V : p > e => above # NULL /\ above <= p

\* The place that memserver_receive finds: before the i-th block of its list S.
Placement(S, cb, e, i, before, above) ==
  /\ i \in 1 .. Len(S) + 1
  /\ \A k \in 1 .. i - 1 : ~ (S[k] >= e)
  /\ i <= Len(S) => S[i] >= e
  /\ before = IF i = 1 THEN NULL ELSE TailOf(cb, S[i - 1])
  /\ above = IF i = Len(S) + 1 THEN NULL ELSE S[i]

\* It is the place of the pages.
LEMMA PlaceFor ==
  ASSUME NEW cb \in Counts, NEW nx, NEW first, NEW V \in SUBSET Page, NEW S,
         IsList(first, S, nx, cb, V), Sorted(S, cb), NEW s \in Page, NEW e \in Page, s <= e,
         \A p \in s .. e : p \notin V, NEW i, NEW before, NEW above,
         Placement(S, cb, e, i, before, above)
  PROVE  Between(V, s, e, before, above)
<1>1. /\ Len(S) \in Nat /\ s \in Nat /\ e \in Nat
      /\ i \in 1 .. Len(S) + 1
      /\ \A k \in 1 .. i - 1 : ~ (S[k] >= e)
      /\ i <= Len(S) => S[i] >= e
      /\ before = IF i = 1 THEN NULL ELSE TailOf(cb, S[i - 1])
      /\ above = IF i = Len(S) + 1 THEN NULL ELSE S[i]
  BY DEF Placement, IsList, Page
<1>2. ASSUME NEW k \in 1 .. Len(S)
      PROVE  /\ S[k] \in Nat /\ TailOf(cb, S[k]) \in Nat /\ S[k] <= TailOf(cb, S[k]) /\ S[k] >= 1
             /\ \A p \in S[k] .. TailOf(cb, S[k]) : p \in V
  <2>1. S[k] \in Page /\ TailOf(cb, S[k]) \in Page /\ \A p \in BlockOf(cb, S[k]) : p \in V
    BY DEF IsList
  <2>2. S[k] <= TailOf(cb, S[k])
    BY <2>1, TailAfter
  <2>. QED BY <2>1, <2>2 DEF Page, BlockOf
<1>3. ASSUME NEW k \in 1 .. i - 1 PROVE k \in 1 .. Len(S) /\ TailOf(cb, S[k]) < s
  <2>1. k \in 1 .. Len(S) /\ ~ (S[k] >= e)
    BY <1>1
  <2>2. S[k] \in S[k] .. TailOf(cb, S[k]) /\ S[k] \in V
    BY <1>2, <2>1
  <2>3. S[k] \notin s .. e
    BY <2>2
  <2>4. S[k] < s
    BY <1>1, <1>2, <2>1, <2>3
  <2>5. s \notin S[k] .. TailOf(cb, S[k])
    BY <1>1, <1>2, <2>1
  <2>. QED BY <1>1, <1>2, <2>1, <2>4, <2>5
<1>4. ASSUME NEW k \in i .. Len(S) PROVE k \in 1 .. Len(S) /\ i \in 1 .. Len(S) /\ S[i] <= S[k] /\ S[k] > e
  <2>1. k \in 1 .. Len(S) /\ i \in 1 .. Len(S) /\ S[i] >= e /\ (k = i \/ i < k)
    BY <1>1
  <2>2. S[i] <= S[k]
    <3>1. CASE i < k
      <4>1. TailOf(cb, S[i]) < S[k]
        BY <2>1, <3>1 DEF Sorted
      <4>. QED BY <1>2, <2>1, <4>1
    <3>. QED BY <1>2, <2>1, <3>1
  <2>3. S[k] >= e /\ S[k] \in V
    BY <1>1, <1>2, <2>1, <2>2
  <2>4. S[k] # e
    BY <1>1, <2>3
  <2>. QED BY <1>1, <1>2, <2>1, <2>2, <2>3, <2>4
<1>5. /\ before = NULL \/ (before \in V /\ before < s)
      /\ \A p \in V : p < s => before # NULL /\ p <= before
  <2>1. \A k \in i .. Len(S) : S[k] >= s
    BY <1>1, <1>2, <1>4
  <2>2. LiesAt(S, cb, i, s, before)
    BY <1>1, <1>3, <2>1 DEF LiesAt
  <2>. QED BY <1>1, <2>2, PriorPage
<1>6. above = NULL \/ (above \in V /\ above > e)
  <2>1. CASE i = Len(S) + 1
    BY <1>1, <2>1
  <2>2. CASE i # Len(S) + 1
    <3>1. i \in i .. Len(S) /\ above = S[i]
      BY <1>1, <2>2
    <3>. QED BY <1>2, <1>4, <3>1
  <2>. QED BY <2>1, <2>2
<1>7. ASSUME NEW p \in V, p > e PROVE above # NULL /\ above <= p
  <2>1. PICK k \in 1 .. Len(S) : p \in BlockOf(cb, S[k])
    BY DEF IsList
  <2>2. p \in Nat /\ S[k] <= p /\ p <= TailOf(cb, S[k])
    BY <1>2, <2>1 DEF BlockOf, Page
  <2>3. k \notin 1 .. i - 1
    BY <1>1, <1>2, <1>3, <1>7, <2>2
  <2>4. k \in i .. Len(S)
    BY <1>1, <2>3
  <2>5. S[i] <= S[k] /\ i \in 1 .. Len(S)
    BY <1>4, <2>4
  <2>6. above = S[i] /\ S[i] \in Nat /\ S[i] >= 1 /\ S[k] \in Nat
    BY <1>1, <1>2, <2>5
  <2>. QED BY <2>2, <2>5, <2>6 DEF NULL
<1>. QED BY <1>5, <1>6, <1>7 DEF Between

\* The pages in the hands of cpu c are the server's again, or lost: x is their owner.
Gives(c, x, home, home2) ==
  /\ pc[c] = "giveBack" /\ x \in {Server, Lost}
  /\ home2 = [p \in Page |-> IF home[p] = Hand(c) THEN x ELSE home[p]]
  /\ \A p \in Page : own'[p] = IF home[p] = Hand(c) THEN 0 ELSE own[p]
  /\ pc' = [pc EXCEPT ![c] = "idle"]
  /\ ptr' = [ptr EXCEPT ![c] = 0]
  /\ at' = [at EXCEPT ![c] = 0]
  /\ objects' = objects /\ poolPages' = poolPages /\ size' = size /\ live' = live
  /\ \A p \in Page : home[p] \notin {Server, Hand(c)} =>
       next'[p] = next[p] /\ combpage'[p] = combpage[p]
  /\ NextOk(next', home2)
  /\ ServerOk(serverPages', next', combpage', At(home2, Server))

\* All else stays as it is.
LEMMA Restored ==
  ASSUME TypeInv, TypeInv', NEW home, NEW P, Inv(home, P), NEW c \in Cpu, NEW x, NEW home2,
         Gives(c, x, home, home2)
  PROVE  Inv(home2, P)' /\ Leaves(home, P, home2, P, {}, {})
<1> DEFINE X == {Server, Hand(c)}
<1>1. /\ P \in [Cpu -> Seq(Page)] /\ ListInv(home, P) /\ OwnInv(home)
      /\ home \in [Page -> Home] /\ LinkInv /\ ObjInv(P) /\ LiveInv(P)
  BY DEF Inv
<1>2. /\ combpage \in Counts /\ next \in Links /\ at \in [Cpu -> Cpu]
      /\ ptr \in [Cpu -> Address \cup Page]
      /\ pc \in [Cpu -> {"idle", "fetch", "link", "search", "giveBack", "lost"}]
  BY DEF TypeInv
<1>3. /\ pc[c] = "giveBack" /\ x \in {Server, Lost}
      /\ home2 = [p \in Page |-> IF home[p] = Hand(c) THEN x ELSE home[p]]
      /\ \A p \in Page : own'[p] = IF home[p] = Hand(c) THEN 0 ELSE own[p]
      /\ pc' = [pc EXCEPT ![c] = "idle"] /\ ptr' = [ptr EXCEPT ![c] = 0]
      /\ at' = [at EXCEPT ![c] = 0]
  BY DEF Gives
<1>4. /\ objects' = objects /\ poolPages' = poolPages /\ size' = size /\ live' = live
      /\ \A p \in Page : home[p] \notin X => next'[p] = next[p] /\ combpage'[p] = combpage[p]
      /\ NextOk(next', home2)
      /\ ServerOk(serverPages', next', combpage', At(home2, Server))
  BY DEF Gives
<1>5. /\ pc'[c] = "idle"
      /\ \A d \in Cpu : d # c => pc'[d] = pc[d] /\ ptr'[d] = ptr[d] /\ at'[d] = at[d]
  BY <1>2, <1>3
<1>6. /\ home2 \in [Page -> Home] /\ x # Hand(c)
      /\ \A p \in Page : home2[p] = IF home[p] = Hand(c) THEN x ELSE home[p]
  BY <1>1, <1>3, Homes
<1>7. /\ At(home2, Hand(c)) = {}
      /\ \A d \in Cpu : At(home2, Pool(d)) = At(home, Pool(d))
      /\ \A d \in Cpu : d # c => At(home2, Hand(d)) = At(home, Hand(d))
  <2>1. At(home2, Hand(c)) = {}
    BY <1>6 DEF At
  <2>2. ASSUME NEW y, y \notin {Server, Lost, Hand(c)} PROVE At(home2, y) = At(home, y)
    BY <1>3, <1>6, <2>2 DEF At
  <2>. QED BY <2>1, <2>2, Homes
<1>8. \A d \in Cpu : Pool(d) \notin X /\ (d # c => Hand(d) \notin X) /\ Hand(c) \in X
  BY Homes
<1>9. /\ \A d \in Cpu : IsList(poolPages'[d], P[d], next', combpage', At(home2, Pool(d)))
      /\ \A d \in Cpu : d # c => HandInv(home2, d)'
  <2> HIDE DEF X
  <2>1. \A d \in Cpu : Pool(d) \notin X => /\ At(home2, Pool(d)) = At(home, Pool(d))
                                           /\ P[d] = P[d] /\ poolPages'[d] = poolPages[d]
    BY <1>4, <1>7
  <2>2. \A d \in Cpu : Hand(d) \notin X => /\ At(home2, Hand(d)) = At(home, Hand(d))
                                           /\ pc'[d] = pc[d] /\ ptr'[d] = ptr[d]
    BY <1>5, <1>7, <1>8
  <2>3. Only(X, home, home2, P, P)
    BY <1>4, <2>1, <2>2 DEF Only
  <2>4. ListInv(home, P)
    BY <1>1
  <2>5. /\ \A d \in Cpu : Pool(d) \notin X =>
              IsList(poolPages'[d], P[d], next', combpage', At(home2, Pool(d)))
        /\ \A d \in Cpu : Hand(d) \notin X => HandInv(home2, d)'
    BY <2>3, <2>4, OthersKept
  <2>. QED BY <1>8, <2>5
<1>10. ListInv(home2, P)'
  <2>1. HandInv(home2, c)'
    BY <1>5, <1>7 DEF HandInv, At
  <2>2. \A d \in Cpu : HandInv(home2, d)'
    BY <1>9, <2>1
  <2>. QED BY <1>4, <1>9, <2>2 DEF ListInv, NextOk, At
<1>11. OwnInv(home2)'
  <2>1. ASSUME NEW p \in Page PROVE own'[p] = 1 <=> Owned(home2, p)'
    <3>1. CASE home[p] = Hand(c)
      <4>1. own'[p] = 0 /\ home2[p] \in {Server, Lost}
        BY <1>3, <1>6, <3>1
      <4>2. ~ Owned(home2, p)'
        BY <4>1, Homes DEF Owned
      <4>. QED BY <4>1, <4>2
    <3>2. CASE home[p] # Hand(c)
      <4>1. own'[p] = own[p] /\ home2[p] = home[p]
        BY <1>3, <1>6, <3>2
      <4>2. own[p] = 1 <=> Owned(home, p)
        BY <1>1 DEF OwnInv
      <4>. QED BY <1>5, <3>2, <4>1, <4>2 DEF Owned
    <3>. QED BY <3>1, <3>2
  <2>. QED BY <2>1 DEF OwnInv
<1>12. LinkInv'
  <2>1. ASSUME NEW d \in Cpu, pc'[d] = "link"
        PROVE  IF size'[d] < PageSize THEN combpage'[ptr'[d]] = 0
               ELSE combpage'[ptr'[d]] = Pages(size'[d]) /\ Start(ptr'[d]) % size'[d] = 0
    <3>1. d # c
      BY <1>5, <2>1
    <3>2. pc[d] = "link" /\ ptr'[d] = ptr[d] /\ size'[d] = size[d]
      BY <1>4, <1>5, <2>1, <3>1
    <3>3. HandInv(home, d)
      BY <1>1 DEF ListInv
    <3>4. HandOk(ptr[d], next, combpage, At(home, Hand(d)))
      BY <3>2, <3>3 DEF HandInv
    <3>5. ptr[d] \in Page /\ ptr[d] \in At(home, Hand(d))
      BY <1>2, <3>4, TailAfter DEF HandOk
    <3>6. home[ptr[d]] \notin X
      BY <1>8, <3>1, <3>5 DEF At
    <3>7. combpage'[ptr[d]] = combpage[ptr[d]]
      BY <1>4, <3>5, <3>6
    <3>. QED BY <1>1, <3>2, <3>7 DEF LinkInv
  <2>. QED BY <2>1 DEF LinkInv
<1>13. /\ ObjInv(P)'
       /\ \A d \in Cpu : \A u : In(P[d], combpage, objects, u) => In(P[d], combpage', objects', u)
  <2>1. ASSUME NEW d \in Cpu, NEW j \in 1 .. Len(P[d]) PROVE combpage'[P[d][j]] = combpage[P[d][j]]
    <3>1. P[d][j] \in Page /\ home[P[d][j]] = Pool(d)
      BY <1>1, PoolBlock
    <3>2. home[P[d][j]] \notin X
      BY <1>8, <3>1
    <3>. QED BY <1>4, <3>1, <3>2
  <2>2. objects' = objects
    BY <1>4
  <2>3. P \in [Cpu -> Seq(Page)] /\ ListInv(home, P) /\ ObjInv(P)
    BY <1>1
  <2>. QED BY <2>1, <2>2, <2>3, ObjectsStay
<1>14. LiveInv(P)'
  <2>1. \A d \in Cpu : pc'[d] # "lost"
    BY <1>1, <1>5 DEF LiveInv
  <2>2. \A d \in Cpu : pc'[d] = "search" => pc[d] = "search" /\ ptr'[d] = ptr[d] /\ at'[d] = at[d]
    BY <1>5
  <2>3. live' = live
    BY <1>4
  <2>4. LiveInv(P)
    BY <1>1
  <2>. QED BY <1>13, <2>1, <2>2, <2>3, <2>4, LiveSame
<1>15. Inv(home2, P)'
  BY <1>1, <1>6, <1>10, <1>11, <1>12, <1>13, <1>14 DEF Inv
<1>16. Leaves(home, P, home2, P, {}, {})
  BY <1>5, <1>7, <1>13 DEF Leaves
<1>. QED BY <1>15, <1>16

\* The links with pages s .. e between the pages before and above.
Linked(s, e, before, above) ==
  [p \in Page |-> IF p = e THEN above ELSE IF p = before THEN s ELSE next[p]]

\* What memserver_receive does to the server's list; insert: it puts the pages into it.
Giving(s, e, before, above, joined, insert) ==
  /\ joined = IF above = e + 1 THEN combpage[above] ELSE 0
  /\ next' = IF insert THEN Linked(s, e, before, above) ELSE next
  /\ serverPages' = IF insert /\ before = NULL THEN s ELSE serverPages
  /\ combpage' = [p \in Page |->
        IF p \in s .. e THEN e - p + 1 + joined
        ELSE IF insert /\ p \in LeadUp(Linked(s, e, before, above), s) /\ p >= serverPages
             THEN s - p + e - s + 1 + joined
        ELSE combpage[p]]

\* And what it does else; pages s .. e are those in the hands of cpu c.
HandsBack(c, s, e, home) ==
  /\ pc[c] = "giveBack" /\ s \in Page /\ e \in Page /\ s <= e
  /\ \A p : p \in s .. e <=> p \in Page /\ home[p] = Hand(c)
  /\ \A p \in s .. e - 1 : next[p] = p + 1
  /\ \A p \in Page : own'[p] = IF home[p] = Hand(c) THEN 0 ELSE own[p]
  /\ own' \in [Page -> {0, 1}]
  /\ poolLock' = [poolLock EXCEPT ![at[c]] = None]
  /\ pc' = [pc EXCEPT ![c] = "idle"]
  /\ ptr' = [ptr EXCEPT ![c] = 0]
  /\ at' = [at EXCEPT ![c] = 0]
  /\ objects' = objects /\ poolPages' = poolPages /\ size' = size /\ live' = live

\* memserver_receive finds the place of the pages, or (insert = FALSE) does not link them.
LEMMA GivesPages ==
  ASSUME TypeInv, NEW home, NEW P, Inv(home, P), NEW c \in Cpu, GiveBack(c)
  PROVE  \E s, e, before, above, joined : \E insert \in BOOLEAN :
           /\ HandsBack(c, s, e, home)
           /\ Between(At(home, Server), s, e, before, above)
           /\ Giving(s, e, before, above, joined, insert)
<1> DEFINE V == At(home, Server)
           s == ptr[c]
           e == TailOf(combpage, s)
<1>1. /\ ListInv(home, P) /\ OwnInv(home) /\ home \in [Page -> Home]
      /\ combpage \in Counts /\ next \in Links /\ own \in [Page -> {0, 1}]
  BY DEF Inv, TypeInv
<1>2. pc[c] = "giveBack"
  BY DEF GiveBack
<1>3. HandOk(s, next, combpage, At(home, Hand(c)))
  BY <1>1, <1>2 DEF ListInv, HandInv
<1>4. /\ s \in Page /\ e \in Page /\ s <= e /\ s \in Nat /\ e \in Nat /\ TailPage(s) = e
      /\ \A p \in s .. e - 1 : next[p] = p + 1
      /\ At(home, Hand(c)) = s .. e
  <2>1. /\ s \in Page /\ e \in Page /\ \A p \in s .. e - 1 : next[p] = p + 1
        /\ At(home, Hand(c)) = s .. e
    BY <1>3 DEF HandOk, BlockOf
  <2>2. s <= e /\ TailPage(s) = e
    BY <1>1, <2>1, TailAfter, Tails
  <2>. QED BY <2>1, <2>2 DEF Page
<1>5. \A p : p \in s .. e <=> p \in Page /\ home[p] = Hand(c)
  BY <1>4, AtPages
<1>6. \A p \in s .. e : p \notin V /\ own[p] = 0
  <2>1. ASSUME NEW p \in s .. e PROVE p \notin V /\ own[p] = 0
    <3>1. p \in Page /\ home[p] = Hand(c)
      BY <1>5
    <3>2. ~ Owned(home, p)
      BY <1>2, <3>1, Homes DEF Owned
    <3>. QED BY <1>1, <3>1, <3>2, Homes DEF At, OwnInv
  <2>. QED BY <2>1
<1>7. PICK S : /\ IsList(serverPages, S, next, combpage, V)
               /\ Sorted(S, combpage) /\ Heads(serverPages) = S
               /\ \A k \in 1 .. Len(S) : TailPage(S[k]) = TailOf(combpage, S[k])
  BY Lists
<1>8. S \in Seq(Page) /\ Len(S) \in Nat /\ V \in SUBSET Page
  BY <1>7, AtPages DEF IsList
<1> DEFINE I == {k \in 1 .. Len(S) : S[k] >= e}
           m == IF I # {} THEN Min(I) ELSE 0
           i == IF m = 0 THEN Len(S) + 1 ELSE m
           above == IF m = 0 THEN NULL ELSE S[m]
           before == Prior(S, i)
           joined == IF above = e + 1 THEN combpage[above] ELSE 0
           insert == S = <<>> \/ m # 0 \/ own[s] = 1
<1>9. SelectInSeq(Heads(serverPages), LAMBDA h : h >= TailPage(ptr[c])) = m
  BY <1>4, <1>7 DEF SelectInSeq
<1>10. /\ m \in 0 .. Len(S) /\ (m = 0 => I = {})
       /\ m # 0 => m \in I /\ \A k \in 1 .. m - 1 : k \notin I
  <2>1. I \in SUBSET (1 .. Len(S))
    OBVIOUS
  <2> HIDE DEF I
  <2>. QED BY <1>8, <2>1, FirstMatch
<1> HIDE DEF m
<1>11. Placement(S, combpage, e, i, before, above)
  <2>1. i \in 1 .. Len(S) + 1 /\ (i = Len(S) + 1 <=> m = 0)
    BY <1>8, <1>10
  <2>2. \A k \in 1 .. i - 1 : k \in 1 .. Len(S) /\ k \notin I
    BY <1>8, <1>10
  <2>3. \A k \in 1 .. i - 1 : ~ (S[k] >= e)
    BY <2>2
  <2>4. i <= Len(S) => S[i] >= e
    BY <1>8, <1>10
  <2>5. before = IF i = 1 THEN NULL ELSE TailOf(combpage, S[i - 1])
    <3>1. i # 1 => i - 1 \in 1 .. Len(S)
      BY <1>8, <2>1
    <3>. QED BY <1>7, <3>1 DEF Prior
  <2>6. above = IF i = Len(S) + 1 THEN NULL ELSE S[i]
    BY <1>8, <2>1
  <2> HIDE DEF i, before, above
  <2>. QED BY <2>1, <2>3, <2>4, <2>5, <2>6 DEF Placement
<1> HIDE DEF i, before
<1>12. Between(V, s, e, before, above)
  <2> HIDE DEF s, e, above, V
  <2>1. \A p \in s .. e : p \notin V
    BY <1>6
  <2>. QED BY <1>1, <1>4, <1>7, <1>8, <1>11, <2>1, PlaceFor
<1>13. /\ next' = IF insert THEN Linked(s, e, before, above) ELSE next
       /\ serverPages' = IF insert /\ before = NULL THEN s ELSE serverPages
       /\ combpage' = [p \in Page |->
             IF p \in s .. e THEN IF m # 0 THEN e - p + 1 + joined ELSE e - p + 1
             ELSE IF insert /\ p \in LeadUp(Linked(s, e, before, above), s) /\ p >= serverPages
                  THEN s - p + e - s + 1 + joined
             ELSE combpage[p]]
       /\ own' = [p \in Page |-> IF insert /\ p \in s .. e THEN 0 ELSE own[p]]
       /\ poolLock' = [poolLock EXCEPT ![at[c]] = None]
       /\ pc' = [pc EXCEPT ![c] = "idle"]
       /\ ptr' = [ptr EXCEPT ![c] = 0]
       /\ at' = [at EXCEPT ![c] = 0]
       /\ objects' = objects /\ poolPages' = poolPages /\ size' = size /\ live' = live
  BY <1>4, <1>7, <1>9 DEF GiveBack, Linked, i, before
<1>14. m = 0 => joined = 0
  BY <1>4 DEF NULL
<1>15. Giving(s, e, before, above, joined, insert)
  <2>1. \A p \in s .. e : (IF m # 0 THEN e - p + 1 + joined ELSE e - p + 1) = e - p + 1 + joined
    BY <1>4, <1>14
  <2> HIDE DEF s, e, above, insert
  <2>2. combpage' = [p \in Page |->
           IF p \in s .. e THEN e - p + 1 + joined
           ELSE IF insert /\ p \in LeadUp(Linked(s, e, before, above), s) /\ p >= serverPages
                THEN s - p + e - s + 1 + joined
           ELSE combpage[p]]
    <3> HIDE DEF joined
    <3>. QED BY <1>13, <2>1
  <2>. QED BY <1>13, <2>2 DEF Giving
<1>16. HandsBack(c, s, e, home)
  <2> HIDE DEF s, e, insert
  <2>1. \A p \in Page : own'[p] = IF home[p] = Hand(c) THEN 0 ELSE own[p]
    BY <1>5, <1>6, <1>13
  <2>2. own' \in [Page -> {0, 1}]
    BY <1>1, <1>13
  <2>. QED BY <1>2, <1>4, <1>5, <1>13, <2>1, <2>2 DEF HandsBack
<1>17. insert \in BOOLEAN
  OBVIOUS
<1> HIDE DEF s, e, above, joined, insert
<1>. QED BY <1>12, <1>15, <1>16, <1>17

\* The pages and the block above them end with a page.
LEMMA JoinedFits ==
  ASSUME NEW cb \in Counts, NEW nx, NEW first, NEW V \in SUBSET Page, ServerOk(first, nx, cb, V),
         NEW s, NEW e \in Page, NEW before, NEW above, Between(V, s, e, before, above),
         NEW joined, joined = IF above = e + 1 THEN cb[above] ELSE 0
  PROVE  joined \in Nat /\ e + joined <= PageCount
<1>1. e \in Nat /\ e <= PageCount /\ PageCount \in Nat
  BY CountAssumption DEF Page
<1>2. CASE above = e + 1
  <2>1. above \in V /\ above \in Page
    BY <1>1, <1>2 DEF Between, NULL
  <2>2. joined \in Nat /\ joined = cb[above] /\ Run(cb, V, above)
    BY <1>2, <2>1 DEF Counts, ServerOk
  <2>3. joined >= 1 /\ \A q \in above .. above + joined - 1 : q \in V
    BY <2>2 DEF Run
  <2>4. e + joined \in above .. above + joined - 1
    BY <1>1, <1>2, <2>2, <2>3
  <2>5. e + joined \in Page
    BY <2>3, <2>4
  <2>. QED BY <2>2, <2>5 DEF Page
<1>3. CASE above # e + 1
  BY <1>1, <1>3
<1>. QED BY <1>2, <1>3

\* The types, when the pages have been given back.
LEMMA GivenTypes ==
  ASSUME TypeInv, NEW home, NEW P, Inv(home, P), NEW c \in Cpu,
         NEW s, NEW e, NEW before, NEW above, NEW joined, NEW insert \in BOOLEAN,
         HandsBack(c, s, e, home), Between(At(home, Server), s, e, before, above),
         Giving(s, e, before, above, joined, insert)
  PROVE  TypeInv' /\ Linked(s, e, before, above) \in Links
<1> DEFINE V == At(home, Server)
           nxt == Linked(s, e, before, above)
<1>1. /\ combpage \in Counts /\ next \in Links /\ serverPages \in Page \cup {NULL}
      /\ poolLock \in [Cpu -> Cpu \cup {None}] /\ at \in [Cpu -> Cpu]
      /\ ptr \in [Cpu -> Address \cup Page]
      /\ pc \in [Cpu -> {"idle", "fetch", "link", "search", "giveBack", "lost"}]
  BY DEF TypeInv
<1>2. ServerOk(serverPages, next, combpage, V) /\ V \in SUBSET Page
  BY AtPages DEF Inv, ListInv
<1>3. s \in Page /\ e \in Page /\ s <= e /\ s \in Nat /\ e \in Nat /\ PageCount \in Nat
  BY CountAssumption DEF HandsBack, Page
<1>4. joined \in Nat /\ e + joined <= PageCount
  <2>1. joined = IF above = e + 1 THEN combpage[above] ELSE 0
    BY DEF Giving
  <2> HIDE DEF V
  <2>. QED BY <1>1, <1>2, <1>3, <2>1, JoinedFits DEF V
<1>5. nxt \in Links
  <2>1. above \in Page \cup {NULL}
    BY <1>2 DEF Between
  <2>. QED BY <1>1, <1>3, <2>1 DEF Linked, Links
<1> HIDE DEF nxt
<1>6. /\ next' = IF insert THEN nxt ELSE next
      /\ serverPages' = IF insert /\ before = NULL THEN s ELSE serverPages
      /\ combpage' = [p \in Page |->
            IF p \in s .. e THEN e - p + 1 + joined
            ELSE IF insert /\ p \in LeadUp(nxt, s) /\ p >= serverPages THEN s - p + e - s + 1 + joined
            ELSE combpage[p]]
  BY DEF Giving, nxt
<1>7. combpage' \in Counts
  <2>1. ASSUME NEW p \in s .. e PROVE e - p + 1 + joined \in 0 .. PageCount
    BY <1>3, <1>4 DEF Page
  <2>2. ASSUME NEW p \in LeadUp(nxt, s) PROVE s - p + e - s + 1 + joined \in 0 .. PageCount
    <3>1. p \in 1 .. s - 1
      BY DEF LeadUp
    <3>. QED BY <1>3, <1>4, <3>1
  <2>. QED BY <1>1, <1>6, <2>1, <2>2 DEF Counts
<1>8. 0 \in Cpu /\ 0 \in Address
  <2>1. 0 <= End(s) /\ 0 \in Nat
    BY <1>3, Addresses
  <2>. QED BY <1>3, <2>1, UpToEnd, CountAssumption DEF Cpu
<1>9. /\ own' \in [Page -> {0, 1}]
      /\ poolLock' = [poolLock EXCEPT ![at[c]] = None]
      /\ pc' = [pc EXCEPT ![c] = "idle"]
      /\ ptr' = [ptr EXCEPT ![c] = 0]
      /\ at' = [at EXCEPT ![c] = 0]
      /\ objects' = objects /\ poolPages' = poolPages /\ size' = size /\ live' = live
  BY DEF HandsBack
<1>10. /\ poolLock' \in [Cpu -> Cpu \cup {None}] /\ at' \in [Cpu -> Cpu]
       /\ ptr' \in [Cpu -> Address \cup Page]
       /\ pc' \in [Cpu -> {"idle", "fetch", "link", "search", "giveBack", "lost"}]
  BY <1>1, <1>8, <1>9
<1>11. next' \in Links /\ serverPages' \in Page \cup {NULL}
  BY <1>1, <1>3, <1>5, <1>6
<1>12. TypeInv'
  BY <1>7, <1>9, <1>10, <1>11 DEF TypeInv
<1>. QED BY <1>5, <1>12 DEF nxt

\* The homes when the pages in the hands of cpu c are the server's.
Homecoming(c, home, home2) == home2 = [p \in Page |-> IF home[p] = Hand(c) THEN Server ELSE home[p]]

\* With links nx, pages s .. e are pages of the server like the others.
HangTogether(nx, s, e, c, home, home2) ==
  /\ NextOk(nx, home2)
  /\ At(home2, Server) = At(home, Server) \cup (s .. e)
  /\ \A p \in Page : home[p] # Server /\ home[p] # Hand(c) => nx[p] = next[p]

\* The pages that are put into the server's list hang together with its pages.
LEMMA LinkedOk ==
  ASSUME TypeInv, NEW home, NEW P, Inv(home, P), NEW c \in Cpu,
         NEW s, NEW e, NEW before, NEW above, NEW home2,
         HandsBack(c, s, e, home), Between(At(home, Server), s, e, before, above),
         Homecoming(c, home, home2)
  PROVE  HangTogether(Linked(s, e, before, above), s, e, c, home, home2)
<1> DEFINE V == At(home, Server)
           nxt == Linked(s, e, before, above)
<1>1. next \in Links /\ NextOk(next, home)
  BY DEF TypeInv, Inv, ListInv
<1>2. \A p : p \in V <=> p \in Page /\ home[p] = Server
  BY AtPages
<1>3. /\ s \in Page /\ e \in Page /\ s <= e /\ s \in Nat /\ e \in Nat
      /\ \A p : p \in s .. e <=> p \in Page /\ home[p] = Hand(c)
      /\ \A p \in s .. e - 1 : next[p] = p + 1
  BY DEF HandsBack, Page
<1>4. before = NULL \/ before \in V
  BY DEF Between
<1>5. above = NULL \/ above \in V
  BY DEF Between
<1>6. \A p \in Page : nxt[p] = IF p = e THEN above ELSE IF p = before THEN s ELSE next[p]
  BY DEF Linked
<1>7. \A p \in Page : home2[p] = IF home[p] = Hand(c) THEN Server ELSE home[p]
  BY DEF Homecoming
<1>8. s \in s .. e /\ e \in s .. e /\ \A p \in Page : p # NULL
  BY <1>3 DEF NULL, Page
<1> HIDE DEF V, nxt
<1>9. ASSUME NEW p \in Page, nxt[p] # NULL PROVE home2[nxt[p]] = home2[p]
  <2>1. CASE p = e
    <3>1. nxt[p] = above /\ above \in V
      BY <1>5, <1>6, <1>9, <2>1
    <3>. QED BY <1>2, <1>3, <1>7, <1>8, <2>1, <3>1
  <2>2. CASE p # e /\ p = before
    <3>1. nxt[p] = s /\ p \in V
      BY <1>4, <1>6, <1>8, <2>2
    <3>. QED BY <1>2, <1>3, <1>7, <1>8, <3>1
  <2>3. CASE p # e /\ p # before
    <3>1. nxt[p] = next[p] /\ next[p] \in Page /\ home[next[p]] = home[p]
      BY <1>1, <1>6, <1>9, <2>3 DEF NextOk, Links
    <3>. QED BY <1>7, <3>1
  <2>. QED BY <2>1, <2>2, <2>3
<1>10. NextOk(nxt, home2)
  BY <1>9 DEF NextOk
<1>11. At(home2, Server) = V \cup (s .. e)
  BY <1>2, <1>3, <1>7 DEF At
<1>12. \A p \in Page : home[p] # Server /\ home[p] # Hand(c) => nxt[p] = next[p]
  <2>1. ASSUME NEW p \in Page, home[p] # Server, home[p] # Hand(c) PROVE nxt[p] = next[p]
    <3>1. p # e /\ p # before
      BY <1>2, <1>3, <1>4, <1>8, <2>1
    <3>. QED BY <1>6, <3>1
  <2>. QED BY <2>1
<1>13. HangTogether(nxt, s, e, c, home, home2)
  BY <1>10, <1>11, <1>12 DEF HangTogether, V
<1>. QED BY <1>13 DEF nxt

\* The pages are put into the server's list.
LEMMA GiveJoins ==
  ASSUME TypeInv, SizeInv, NEW home, NEW P, Inv(home, P), NEW c \in Cpu,
         NEW s, NEW e, NEW before, NEW above, NEW joined,
         HandsBack(c, s, e, home), Between(At(home, Server), s, e, before, above),
         Giving(s, e, before, above, joined, TRUE)
  PROVE  After(home, P, {}, {})
<1> DEFINE V == At(home, Server)
           nxt == Linked(s, e, before, above)
<1>1. PICK home2 : home2 = [p \in Page |-> IF home[p] = Hand(c) THEN Server ELSE home[p]]
  OBVIOUS
<1>2. TypeInv' /\ nxt \in Links
  <2>1. TRUE \in BOOLEAN
    OBVIOUS
  <2>. QED BY <2>1, GivenTypes
<1>3. /\ NextOk(nxt, home2) /\ At(home2, Server) = V \cup (s .. e)
      /\ \A p \in Page : home[p] # Server /\ home[p] # Hand(c) => nxt[p] = next[p]
  <2>1. Homecoming(c, home, home2)
    BY <1>1 DEF Homecoming
  <2>2. HangTogether(nxt, s, e, c, home, home2)
    BY <2>1, LinkedOk
  <2> HIDE DEF nxt
  <2>. QED BY <2>2 DEF HangTogether
<1>4. /\ combpage \in Counts /\ next \in Links /\ serverPages \in Page \cup {NULL}
      /\ combpage' \in Counts /\ next' \in Links
  BY <1>2 DEF TypeInv
<1>5. ServerOk(serverPages, next, combpage, V) /\ V \in SUBSET Page /\ Apart(next, V)
  BY <1>4, AtPages DEF Inv, ListInv
<1>6. /\ s \in Page /\ e \in Page /\ s <= e
      /\ \A p : p \in s .. e <=> p \in Page /\ home[p] = Hand(c)
      /\ \A p \in s .. e - 1 : next[p] = p + 1
  BY DEF HandsBack
<1>7. \A p : p \in V <=> p \in Page /\ home[p] = Server
  BY AtPages
<1>8. \A p \in s .. e : p \notin V
  BY <1>6, <1>7, Homes
<1> HIDE DEF V, nxt
<1>9. /\ joined = IF above = e + 1 THEN combpage[above] ELSE 0
      /\ next' = nxt
      /\ serverPages' = IF before = NULL THEN s ELSE serverPages
      /\ combpage' = [p \in Page |->
            IF p \in s .. e THEN e - p + 1 + joined
            ELSE IF p \in LeadUp(nxt, s) /\ p >= serverPages THEN s - p + e - s + 1 + joined
            ELSE combpage[p]]
  BY DEF Giving, nxt
<1>10. Apart(nxt, V \cup (s .. e))
  <2>1. ASSUME NEW p \in Page, nxt[p] # NULL
        PROVE  p \in At(home2, Server) <=> nxt[p] \in At(home2, Server)
    <3>1. home2[nxt[p]] = home2[p] /\ nxt[p] \in Page
      BY <1>2, <1>3, <2>1 DEF NextOk, Links
    <3>. QED BY <3>1 DEF At
  <2>. QED BY <1>3, <2>1 DEF Apart
<1>11. /\ \A p \in Page : nxt[p] = IF p = e THEN above ELSE IF p = before THEN s ELSE next[p]
       /\ \A p \in s .. e : combpage'[p] = e - p + 1 + joined
       /\ \A p \in V : combpage'[p] = IF p \in LeadUp(nxt, s) /\ p >= serverPages
                                      THEN s - p + e - s + 1 + joined ELSE combpage[p]
  <2>1. \A p \in Page : nxt[p] = IF p = e THEN above ELSE IF p = before THEN s ELSE next[p]
    BY DEF nxt, Linked
  <2>. QED BY <1>5, <1>6, <1>8, <1>9, <2>1
<1>12. /\ before = NULL \/ (before \in V /\ before < s)
       /\ \A p \in V : p < s => before # NULL /\ p <= before
       /\ above = NULL \/ (above \in V /\ above > e)
       /\ \A p \in V : p > e => above # NULL /\ above <= p
  BY DEF Between, V
<1>13. PagesBack(serverPages, next, combpage, V, s, e, before, above, joined, serverPages', nxt, combpage')
  <2>1. serverPages' = IF before = NULL THEN s ELSE serverPages
    BY <1>9
  <2>2. joined = IF above = e + 1 THEN combpage[above] ELSE 0
    BY <1>9
  <2>3. s <= e /\ \A p \in s .. e - 1 : next[p] = p + 1
    BY <1>6
  <2>. QED BY <1>5, <1>8, <1>10, <1>11, <1>12, <2>1, <2>2, <2>3 DEF PagesBack
<1>14. ServerOk(serverPages', nxt, combpage', V \cup (s .. e))
  BY <1>2, <1>4, <1>5, <1>6, <1>13, ServerAdd
<1>15. ServerOk(serverPages', next', combpage', At(home2, Server)) /\ NextOk(next', home2)
  BY <1>3, <1>9, <1>14
<1>16. ASSUME NEW p \in Page, home[p] \notin {Server, Hand(c)}
       PROVE  next'[p] = next[p] /\ combpage'[p] = combpage[p]
  <2>1. p \notin s .. e /\ p \notin V
    BY <1>6, <1>7, <1>16
  <2>2. p \notin LeadUp(nxt, s)
    <3>1. V \cup (s .. e) \in SUBSET Page /\ s \in V \cup (s .. e)
      BY <1>5, <1>6, <1>7 DEF Page
    <3>2. ASSUME p \in LeadUp(nxt, s) PROVE p \in V \cup (s .. e)
      <4> DEFINE W == V \cup (s .. e)
      <4>1. W \in SUBSET Page /\ s \in W /\ Apart(nxt, W)
        BY <1>10, <3>1
      <4> HIDE DEF W
      <4>2. \A q \in p .. s : q \in W
        BY <1>2, <3>2, <4>1, LeadUpIn DEF nxt
      <4>3. p < s /\ p \in Page /\ s \in Page
        BY <1>2, <1>6, <3>2, <4>1, LeadUpIn DEF nxt
      <4>4. p \in p .. s
        BY <4>3 DEF Page
      <4>5. p \in W
        BY <4>2, <4>4
      <4>. QED BY <4>5 DEF W
    <3>. QED BY <2>1, <3>2
  <2>3. next'[p] = next[p]
    BY <1>3, <1>9, <1>16
  <2>. QED BY <1>9, <2>1, <2>2, <2>3
<1>17. Gives(c, Server, home, home2)
  <2>1. /\ pc[c] = "giveBack"
        /\ \A p \in Page : own'[p] = IF home[p] = Hand(c) THEN 0 ELSE own[p]
        /\ pc' = [pc EXCEPT ![c] = "idle"] /\ ptr' = [ptr EXCEPT ![c] = 0]
        /\ at' = [at EXCEPT ![c] = 0]
        /\ objects' = objects /\ poolPages' = poolPages /\ size' = size /\ live' = live
    BY DEF HandsBack
  <2>. QED BY <1>1, <1>15, <1>16, <2>1 DEF Gives
<1>18. Inv(home2, P)' /\ Leaves(home, P, home2, P, {}, {})
  BY <1>2, <1>17, Restored
<1>19. SizeInv'
  <2>1. pc' = [pc EXCEPT ![c] = "idle"] /\ size' = size
    BY DEF HandsBack
  <2>2. \A x \in Cpu : x # c => pc'[x] = pc[x]
    BY <2>1 DEF TypeInv
  <2>3. pc'[c] = "idle"
    BY <2>1 DEF TypeInv
  <2>. QED BY <2>1, <2>2, <2>3 DEF SizeInv
<1>. QED BY <1>2, <1>18, <1>19 DEF After

\* The pages are not put into it: nobody has them any more.
LEMMA GiveLoses ==
  ASSUME TypeInv, SizeInv, NEW home, NEW P, Inv(home, P), NEW c \in Cpu,
         NEW s, NEW e, NEW before, NEW above, NEW joined,
         HandsBack(c, s, e, home), Between(At(home, Server), s, e, before, above),
         Giving(s, e, before, above, joined, FALSE)
  PROVE  After(home, P, {}, {})
<1> DEFINE V == At(home, Server)
<1>1. PICK home2 : home2 = [p \in Page |-> IF home[p] = Hand(c) THEN Lost ELSE home[p]]
  OBVIOUS
<1>2. TypeInv'
  <2>1. FALSE \in BOOLEAN
    OBVIOUS
  <2>. QED BY <2>1, GivenTypes
<1>3. /\ next \in Links /\ NextOk(next, home) /\ ServerOk(serverPages, next, combpage, V)
      /\ V \in SUBSET Page
  BY AtPages DEF TypeInv, Inv, ListInv
<1>4. /\ \A p : p \in s .. e <=> p \in Page /\ home[p] = Hand(c)
  BY DEF HandsBack
<1>5. \A p : p \in V <=> p \in Page /\ home[p] = Server
  BY AtPages
<1>6. /\ next' = next /\ serverPages' = serverPages
      /\ combpage' = [p \in Page |-> IF p \in s .. e THEN e - p + 1 + joined ELSE combpage[p]]
  BY DEF Giving
<1>7. \A p \in Page : home2[p] = IF home[p] = Hand(c) THEN Lost ELSE home[p]
  BY <1>1
<1>8. At(home2, Server) = V
  BY <1>5, <1>7, Homes DEF At
<1>9. NextOk(next', home2)
  <2>1. ASSUME NEW p \in Page, next[p] # NULL PROVE home2[next[p]] = home2[p]
    <3>1. next[p] \in Page /\ home[next[p]] = home[p]
      BY <1>3, <2>1 DEF NextOk, Links
    <3>. QED BY <1>7, <3>1
  <2>. QED BY <1>6, <2>1 DEF NextOk
<1>10. \A p \in Page : home[p] # Hand(c) => combpage'[p] = combpage[p]
  BY <1>4, <1>6
<1> HIDE DEF V
<1>11. ServerOk(serverPages', next', combpage', At(home2, Server))
  <2>1. \A p \in V : combpage'[p] = combpage[p]
    BY <1>5, <1>10, Homes
  <2>2. ServerOk(serverPages, next, combpage', V)
    BY <1>3, <2>1 DEF ServerOk, Run
  <2>. QED BY <1>6, <1>8, <2>2
<1>12. Gives(c, Lost, home, home2)
  <2>1. /\ pc[c] = "giveBack"
        /\ \A p \in Page : own'[p] = IF home[p] = Hand(c) THEN 0 ELSE own[p]
        /\ pc' = [pc EXCEPT ![c] = "idle"] /\ ptr' = [ptr EXCEPT ![c] = 0]
        /\ at' = [at EXCEPT ![c] = 0]
        /\ objects' = objects /\ poolPages' = poolPages /\ size' = size /\ live' = live
    BY DEF HandsBack
  <2>. QED BY <1>1, <1>6, <1>9, <1>10, <1>11, <2>1 DEF Gives
<1>13. Inv(home2, P)' /\ Leaves(home, P, home2, P, {}, {})
  BY <1>2, <1>12, Restored
<1>14. SizeInv'
  <2>1. pc' = [pc EXCEPT ![c] = "idle"] /\ size' = size
    BY DEF HandsBack
  <2>2. \A x \in Cpu : x # c => pc'[x] = pc[x]
    BY <2>1 DEF TypeInv
  <2>3. pc'[c] = "idle"
    BY <2>1 DEF TypeInv
  <2>. QED BY <2>1, <2>2, <2>3 DEF SizeInv
<1>. QED BY <1>2, <1>13, <1>14 DEF After

\* memserver_receive under serverlock.
LEMMA GiveBackStep ==
  ASSUME TypeInv, SizeInv, NEW home, NEW P, Inv(home, P), NEW c \in Cpu, GiveBack(c)
  PROVE  After(home, P, {}, {})
<1>1. PICK s, e, before, above, joined : \E insert \in BOOLEAN :
           /\ HandsBack(c, s, e, home)
           /\ Between(At(home, Server), s, e, before, above)
           /\ Giving(s, e, before, above, joined, insert)
  BY GivesPages
<1>2. CASE Giving(s, e, before, above, joined, TRUE)
  BY <1>1, <1>2, GiveJoins
<1>3. CASE Giving(s, e, before, above, joined, FALSE)
  BY <1>1, <1>3, GiveLoses
<1>. QED BY <1>1, <1>2, <1>3
------------------------------------------------------------------------------
(* The theorems.                                                            *)

\* Every step of every CPU keeps the invariant.
LEMMA Inductive == ASSUME IInv, [Next]_vars PROVE IInv'
<1>1. TypeInv /\ SizeInv
  BY DEF IInv
<1>2. PICK home, P : Inv(home, P)
  BY DEF IInv
<1>3. ASSUME NEW c \in Cpu, Kalloc(c) PROVE IInv'
  <2>1. PICK bytes \in {b \in Size : b \in 1 .. MaxSize} : Carve(c, RealSize(bytes))
    BY <1>3 DEF Kalloc
  <2>2. bytes \in Nat /\ bytes \in 1 .. MaxSize
    BY SizeAssumption
  <2>3. PICK k \in 0 .. 24 : RealSize(bytes) = Power[k]
    BY <2>2, RealSizes
  <2>. QED BY <1>1, <1>2, <2>1, <2>3, CarveStep, AfterIs
<1>4. ASSUME NEW c \in Cpu, Fetch(c) PROVE IInv'
  BY <1>1, <1>2, <1>4, FetchStep, AfterIs
<1>5. ASSUME NEW c \in Cpu, Link(c) PROVE IInv'
  BY <1>1, <1>2, <1>5, LinkStep, AfterIs
<1>6. ASSUME NEW c \in Cpu, NEW o \in live, Kfree(c, o) PROVE IInv'
  BY <1>1, <1>2, <1>6, KfreeStep, AfterIs
<1>7. ASSUME NEW c \in Cpu, Search(c) PROVE IInv'
  BY <1>1, <1>2, <1>7, SearchStep, AfterIs DEF Releases
<1>8. ASSUME NEW c \in Cpu, GiveBack(c) PROVE IInv'
  BY <1>1, <1>2, <1>8, GiveBackStep, AfterIs
<1>9. CASE UNCHANGED vars
  BY <1>1, <1>2, <1>9, NoStep, AfterIs
<1>. QED BY <1>3, <1>4, <1>5, <1>6, <1>7, <1>8, <1>9 DEF Next

\* The invariant holds in every state, whatever CPUs allocate and free.
LEMMA Invariant == Spec => []IInv
<1>1. IInv /\ [Next]_vars => IInv'
  BY Inductive
<1>. QED BY <1>1, Initial, PTL DEF Spec

\* Every variable of pmm.c and mempool.c has the type that the model gives it; in
\* particular every object of a page lies in the page, in the order of addresses.
THEOREM TypeCorrect == Spec => []TypeOK
<1>1. IInv => TypeOK
  BY IsTypeOK
<1>. QED BY <1>1, Invariant, PTL

\* kalloc never gives two callers bytes in common, nor gives one the header of
\* another's object; what it gives is aligned to its size and lies in the heap.
THEOREM Apartness == Spec => []ObjectsApart
<1>1. IInv => ObjectsApart
  BY IsObjectsApart
<1>. QED BY <1>1, Invariant, PTL

\* A page is in one list or in the hands of one CPU, and own says whether a CPU has it.
THEOREM Ownership == Spec => []OwnedOnce
<1>1. IInv => OwnedOnce
  BY IsOwnedOnce
<1>. QED BY <1>1, Invariant, PTL

\* memserver_delivery and memserver_receive keep the server's list sorted and its
\* blocks joined, and combpage of each of its pages counts to the end of its block.
THEOREM Coalescing == Spec => []ServerCoalesced
<1>1. IInv => ServerCoalesced
  BY IsServerCoalesced
<1>. QED BY <1>1, Invariant, PTL

\* The assumption of mempool.h: a single page that is in a pool holds an object.
THEOREM PoolPagesInUse == Spec => []PoolPagesUsed
<1>1. IInv => PoolPagesUsed
  BY IsPoolPagesUsed
<1>. QED BY <1>1, Invariant, PTL

\* kfree finds its object, though other CPUs change the pools that it has passed.
THEOREM FreeSucceeds == Spec => []FreeFinds
<1>1. IInv => FreeFinds
  BY IsPoolPagesUsed
<1>. QED BY <1>1, Invariant, PTL
------------------------------------------------------------------------------
(* What the callers see: the objects of the pools.                          *)

InPools(o) == \E d \in Cpu : In(Heads(poolPages[d]), combpage, objects, o)

Clear ==
  /\ \A o \in live : InPools(o)
  /\ \A o : InPools(o) => o \in Pair /\ o[1] < o[2]
  /\ \A o, u : InPools(o) /\ InPools(u) /\ o # u => ~ Overlap(o, u)
  /\ \A c \in Cpu : \A o, u : InPools(o) /\ Carries(c, u) => ~ Overlap(o, u)

\* The lists of the invariant are those of the model.
Seen(home, P) == /\ \A u : InPools(u) <=> \E d \in Cpu : In(P[d], combpage, objects, u)
                 /\ \A d \in Cpu : InHand(d) = At(home, Hand(d))

\* The invariant says so.
LEMMA IsSeen == ASSUME TypeInv, NEW home, NEW P, Inv(home, P) PROVE Seen(home, P)
<1>1. \A d \in Cpu : Heads(poolPages[d]) = P[d] /\ InHand(d) = At(home, Hand(d))
  BY Lists
<1>. QED BY <1>1 DEF Seen, InPools

\* And so in the next state.
LEMMA IsSeenNext == TypeInv' => \A home, P : Inv(home, P)' => Seen(home, P)'
<1>1. TypeInv => \A home, P : Inv(home, P) => Seen(home, P)
  BY IsSeen
<1>2. (TypeInv => \A home, P : Inv(home, P) => Seen(home, P))'
  BY <1>1, PTL
<1>. QED BY <1>2

\* Two objects of pools are apart.
LEMMA PoolsApart ==
  ASSUME TypeInv, NEW home, NEW P, P \in [Cpu -> Seq(Page)], ListInv(home, P), ObjInv(P),
         NEW c \in Cpu, NEW d \in Cpu, NEW o, NEW u, o # u,
         In(P[c], combpage, objects, o), In(P[d], combpage, objects, u)
  PROVE  ~ Overlap(o, u)
<1> SUFFICES ASSUME Overlap(o, u) PROVE FALSE
  OBVIOUS
<1>1. PICK i \in 1 .. Len(P[c]) :
        /\ Holds(combpage, objects, P[c][i], o)
        /\ o \in Pair /\ o[1] \in Nat /\ o[2] \in Nat
        /\ Start(P[c][i]) <= o[1] /\ o[1] < o[2] /\ o[2] <= End(TailOf(combpage, P[c][i]))
  BY InBlock
<1>2. PICK j \in 1 .. Len(P[d]) :
        /\ Holds(combpage, objects, P[d][j], u)
        /\ u \in Pair /\ u[1] \in Nat /\ u[2] \in Nat
        /\ Start(P[d][j]) <= u[1] /\ u[1] < u[2] /\ u[2] <= End(TailOf(combpage, P[d][j]))
  BY InBlock
<1>3. /\ P[c][i] \in Page /\ TailOf(combpage, P[c][i]) \in Page /\ PageOk(P[c][i], objects[P[c][i]])
      /\ P[d][j] \in Page /\ TailOf(combpage, P[d][j]) \in Page
  BY PoolBlock
<1>4. /\ Start(P[c][i]) \in Nat /\ End(TailOf(combpage, P[c][i])) \in Nat
      /\ Start(P[d][j]) \in Nat /\ End(TailOf(combpage, P[d][j])) \in Nat
  BY <1>3, Addresses
<1> DEFINE a == IF o[1] < u[1] THEN u[1] ELSE o[1]
<1>5. /\ a \in Nat
      /\ Start(P[c][i]) <= a /\ a < End(TailOf(combpage, P[c][i]))
      /\ Start(P[d][j]) <= a /\ a < End(TailOf(combpage, P[d][j]))
  BY <1>1, <1>2, <1>4 DEF Overlap
<1> HIDE DEF a
<1>6. c = d /\ i = j
  BY <1>5, OnePlace
<1>7. CASE combpage[P[c][i]] # 0
  BY <1>1, <1>2, <1>6, <1>7 DEF Holds
<1>8. CASE combpage[P[c][i]] = 0
  <2>1. PICK k \in 1 .. Len(objects[P[c][i]]) : o = objects[P[c][i]][k]
    BY <1>1, <1>8 DEF Holds
  <2>2. PICK l \in 1 .. Len(objects[P[c][i]]) : u = objects[P[c][i]][l]
    BY <1>2, <1>6, <1>8 DEF Holds
  <2>3. (k < l => o[2] + Header <= u[1]) /\ (l < k => u[2] + Header <= o[1])
    BY <1>3, <2>1, <2>2 DEF PageOk
  <2>4. k # l /\ k \in Nat /\ l \in Nat /\ Header \in Nat
    BY <2>1, <2>2, Sizes
  <2>. QED BY <1>1, <1>2, <2>3, <2>4 DEF Overlap
<1>. QED BY <1>7, <1>8

\* An object of a pool and one in the hands of a CPU are apart.
LEMMA CarriedApart ==
  ASSUME TypeInv, NEW home, NEW P, Inv(home, P),
         NEW c \in Cpu, NEW d \in Cpu, NEW o, NEW u,
         In(P[d], combpage, objects, o), Carries(c, u)
  PROVE  ~ Overlap(o, u)
<1> SUFFICES ASSUME Overlap(o, u) PROVE FALSE
  OBVIOUS
<1>1. P \in [Cpu -> Seq(Page)] /\ ListInv(home, P) /\ ObjInv(P)
  BY DEF Inv
<1>2. PICK i \in 1 .. Len(P[d]) :
        /\ o[1] \in Nat /\ o[2] \in Nat
        /\ Start(P[d][i]) <= o[1] /\ o[1] < o[2] /\ o[2] <= End(TailOf(combpage, P[d][i]))
  BY <1>1, InBlock
<1>3. PICK b, t \in Page : /\ b <= t /\ Start(b) <= u[1] /\ u[2] <= End(t)
                           /\ \A p \in b .. t : p \in InHand(c)
  BY DEF Carries
<1> DEFINE h == P[d][i]
           y == TailOf(combpage, P[d][i])
           a == IF o[1] < u[1] THEN u[1] ELSE o[1]
<1>4. /\ h \in Page /\ y \in Page /\ \A p \in BlockOf(combpage, h) : p \in Page /\ home[p] = Pool(d)
      /\ combpage \in Counts
  <2>1. combpage \in Counts
    BY DEF TypeInv
  <2>. QED BY <1>1, <2>1, PoolBlock
<1>5. h <= y /\ BlockOf(combpage, h) = h .. y
  BY <1>4, TailAfter DEF BlockOf
<1>6. u[1] \in Nat /\ u[2] \in Nat /\ u[1] < u[2]
  BY DEF Carries, Pair
<1>7. a \in Nat /\ Start(h) <= a /\ a < End(y) /\ Start(b) <= a /\ a < End(t)
  <2>1. Start(h) \in Nat /\ End(y) \in Nat /\ Start(b) \in Nat /\ End(t) \in Nat
    BY <1>3, <1>4, Addresses
  <2>. QED BY <1>2, <1>3, <1>6, <2>1 DEF Overlap
<1>8. InHand(c) = At(home, Hand(c))
  BY Lists
<1> HIDE DEF h, y, a
<1>9. PICK p \in Page : p \in h .. y /\ p \in b .. t
  <2>0. h \in Nat /\ y \in Nat /\ b \in Nat /\ t \in Nat
    BY <1>3, <1>4 DEF Page
  <2>1. /\ y < b => End(y) <= Start(b)
        /\ t < h => End(t) <= Start(h)
        /\ Start(h) \in Nat /\ End(y) \in Nat /\ Start(b) \in Nat /\ End(t) \in Nat
    BY <1>3, <1>4, Addresses
  <2>2. ~ (y < b) /\ ~ (t < h)
    BY <1>7, <2>1
  <2>3. CASE h <= b
    BY <1>3, <1>5, <2>0, <2>2, <2>3
  <2>4. CASE b <= h
    BY <1>3, <1>4, <1>5, <2>0, <2>2, <2>4
  <2>. QED BY <2>0, <2>3, <2>4
<1>10. home[p] = Pool(d) /\ home[p] = Hand(c)
  BY <1>3, <1>4, <1>5, <1>8, <1>9 DEF At
<1>. QED BY <1>10, Homes

\* Objects of pools do not overlap, nor do they overlap what a CPU carries.
LEMMA IsClear == IInv => Clear
<1> SUFFICES ASSUME IInv PROVE Clear
  OBVIOUS
<1>1. PICK home, P : Inv(home, P)
  BY DEF IInv
<1>2. TypeInv /\ P \in [Cpu -> Seq(Page)] /\ ListInv(home, P) /\ ObjInv(P) /\ LiveInv(P)
  BY <1>1 DEF IInv, Inv
<1>3. \A u : InPools(u) <=> \E d \in Cpu : In(P[d], combpage, objects, u)
  BY <1>1, <1>2, IsSeen DEF Seen
<1>4. \A o \in live : InPools(o)
  BY <1>2, <1>3 DEF LiveInv
<1>5. ASSUME NEW o, InPools(o) PROVE o \in Pair /\ o[1] < o[2]
  <2>1. PICK d \in Cpu : In(P[d], combpage, objects, o)
    BY <1>3, <1>5
  <2>. QED BY <1>2, <2>1, InBlock
<1>6. ASSUME NEW o, NEW u, InPools(o), InPools(u), o # u PROVE ~ Overlap(o, u)
  <2>1. PICK c \in Cpu : In(P[c], combpage, objects, o)
    BY <1>3, <1>6
  <2>2. PICK d \in Cpu : In(P[d], combpage, objects, u)
    BY <1>3, <1>6
  <2>. QED BY <1>2, <1>6, <2>1, <2>2, PoolsApart
<1>7. ASSUME NEW c \in Cpu, NEW o, NEW u, InPools(o), Carries(c, u) PROVE ~ Overlap(o, u)
  <2>1. PICK d \in Cpu : In(P[d], combpage, objects, o)
    BY <1>3, <1>7
  <2>. QED BY <1>1, <1>2, <1>7, <2>1, CarriedApart
<1>. QED BY <1>4, <1>5, <1>6, <1>7 DEF Clear

\* And so in the next state.
LEMMA IsClearNext == IInv' => Clear'
  BY IsClear, PTL

\* What a step means to the callers.
Keeps(N, G) ==
  /\ IInv'
  /\ \A u \in N : InPools(u)'
  /\ \A u : InPools(u) => u \notin N /\ (u \in G \/ InPools(u)')
  /\ \A d \in Cpu : pc[d] = "giveBack" /\ pc'[d] = "giveBack" => InHand(d)' = InHand(d)

\* The lemmas of the steps say so.
LEMMA AfterKeeps ==
  ASSUME TypeInv, NEW home, NEW P, Inv(home, P), NEW N, NEW G, After(home, P, N, G)
  PROVE  Keeps(N, G)
<1>1. PICK home2, P2 : Inv(home2, P2)' /\ Leaves(home, P, home2, P2, N, G)
  BY DEF After
<1>2. IInv' /\ TypeInv'
  BY AfterIs DEF After
<1>3. /\ \A u : InPools(u) <=> \E d \in Cpu : In(P[d], combpage, objects, u)
      /\ \A d \in Cpu : InHand(d) = At(home, Hand(d))
  BY IsSeen DEF Seen
<1>4. /\ \A u : InPools(u)' <=> \E d \in Cpu : In(P2[d], combpage', objects', u)
      /\ \A d \in Cpu : InHand(d)' = At(home2, Hand(d))
  <2>1. Seen(home2, P2)'
    BY <1>1, <1>2, IsSeenNext
  <2>. QED BY <2>1 DEF Seen, At
<1>5. \A u \in N : InPools(u)'
  BY <1>1, <1>4 DEF Leaves
<1>6. \A u : InPools(u) => u \notin N /\ (u \in G \/ InPools(u)')
  BY <1>1, <1>3, <1>4 DEF Leaves
<1>7. \A d \in Cpu : pc[d] = "giveBack" /\ pc'[d] = "giveBack" => InHand(d)' = InHand(d)
  BY <1>1, <1>3, <1>4 DEF Leaves
<1>. QED BY <1>2, <1>5, <1>6, <1>7 DEF Keeps

\* The other CPUs stay in their calls.
Undisturbed(c) == \A d \in Cpu \ {c} : pc'[d] = pc[d] /\ ptr'[d] = ptr[d]

\* kalloc takes an object from its pool, or goes to the server.
LEMMA CarveKeeps ==
  ASSUME IInv, NEW c \in Cpu, NEW bytes \in 1 .. MaxSize, Carve(c, RealSize(bytes))
  PROVE  /\ Undisturbed(c) /\ pc[c] = "idle"
         /\ \/ pc'[c] = "idle" /\ \E o : live' = live \cup {o} /\ Keeps({o}, {})
            \/ pc'[c] = "fetch" /\ live' = live /\ Keeps({}, {})
<1>1. TypeInv /\ SizeInv
  BY DEF IInv
<1>2. PICK home, P : Inv(home, P)
  BY DEF IInv
<1>3. PICK k \in 0 .. 24 : RealSize(bytes) = Power[k]
  BY RealSizes
<1>4. \/ pc'[c] = "idle" /\ \E o : live' = live \cup {o} /\ After(home, P, {o}, {})
      \/ pc'[c] = "fetch" /\ live' = live /\ After(home, P, {}, {})
  BY <1>1, <1>2, <1>3, CarveStep
<1>5. Undisturbed(c) /\ pc[c] = "idle"
  <2>1. pc \in [Cpu -> {"idle", "fetch", "link", "search", "giveBack", "lost"}]
    BY <1>1 DEF TypeInv
  <2>2. /\ ptr' = ptr /\ pc[c] = "idle"
        /\ pc' = pc \/ pc' = [pc EXCEPT ![c] = "fetch"]
    BY DEF Carve
  <2>. QED BY <2>1, <2>2 DEF Undisturbed
<1>. QED BY <1>1, <1>2, <1>4, <1>5, AfterKeeps

\* memserver_delivery: no object comes or goes.
LEMMA FetchKeeps ==
  ASSUME IInv, NEW c \in Cpu, Fetch(c)
  PROVE  Undisturbed(c) /\ pc[c] = "fetch" /\ pc'[c] \in {"idle", "link"} /\ live' = live /\ Keeps({}, {})
<1>1. TypeInv /\ SizeInv
  BY DEF IInv
<1>2. PICK home, P : Inv(home, P)
  BY DEF IInv
<1>3. Keeps({}, {})
  BY <1>1, <1>2, FetchStep, AfterKeeps
<1>4. /\ pc \in [Cpu -> {"idle", "fetch", "link", "search", "giveBack", "lost"}]
      /\ ptr \in [Cpu -> Address \cup Page]
  BY <1>1 DEF TypeInv
<1>5. /\ pc[c] = "fetch" /\ live' = live
      /\ pc' = [pc EXCEPT ![c] = "idle"] \/ pc' = [pc EXCEPT ![c] = "link"]
      /\ ptr' = ptr \/ \E b : ptr' = [ptr EXCEPT ![c] = b]
  BY DEF Fetch
<1>. QED BY <1>3, <1>4, <1>5 DEF Undisturbed

\* kalloc gets its object from the pages it fetched.
LEMMA LinkKeeps ==
  ASSUME IInv, NEW c \in Cpu, Link(c)
  PROVE  /\ Undisturbed(c) /\ pc[c] = "link" /\ pc'[c] = "idle"
         /\ \E o : live' = live \cup {o} /\ Keeps({o}, {})
<1>1. TypeInv /\ SizeInv
  BY DEF IInv
<1>2. PICK home, P : Inv(home, P)
  BY DEF IInv
<1>3. \E o : live' = live \cup {o} /\ Keeps({o}, {})
  BY <1>1, <1>2, LinkStep, AfterKeeps
<1>4. /\ pc \in [Cpu -> {"idle", "fetch", "link", "search", "giveBack", "lost"}]
      /\ ptr \in [Cpu -> Address \cup Page]
  BY <1>1 DEF TypeInv
<1>5. pc[c] = "link" /\ pc' = [pc EXCEPT ![c] = "idle"] /\ ptr' = [ptr EXCEPT ![c] = 0]
  BY DEF Link
<1>. QED BY <1>3, <1>4, <1>5 DEF Undisturbed

\* kfree begins: the object is nobody's, but still in a pool.
LEMMA KfreeKeeps ==
  ASSUME IInv, NEW c \in Cpu, NEW o, Kfree(c, o)
  PROVE  /\ Undisturbed(c) /\ pc[c] = "idle" /\ pc'[c] = "search" /\ ptr'[c] = o[1]
         /\ o \in live /\ live' = live \ {o} /\ Keeps({}, {})
<1>1. TypeInv /\ SizeInv
  BY DEF IInv
<1>2. PICK home, P : Inv(home, P)
  BY DEF IInv
<1>3. /\ pc[c] = "idle" /\ o \in live /\ live' = live \ {o}
      /\ ptr' = [ptr EXCEPT ![c] = o[1]] /\ pc' = [pc EXCEPT ![c] = "search"]
  BY DEF Kfree
<1>4. Keeps({}, {})
  BY <1>1, <1>2, <1>3, KfreeStep, AfterKeeps
<1>5. /\ pc \in [Cpu -> {"idle", "fetch", "link", "search", "giveBack", "lost"}]
      /\ ptr \in [Cpu -> Address \cup Page]
  BY <1>1 DEF TypeInv
<1>. QED BY <1>3, <1>4, <1>5 DEF Undisturbed

\* kfree looks for the object: it is the one that starts at ptr.
LEMMA SearchKeeps ==
  ASSUME IInv, NEW c \in Cpu, Search(c)
  PROVE  /\ Undisturbed(c) /\ pc[c] = "search" /\ live' = live
         /\ \E o : /\ InPools(o) /\ o[1] = ptr[c]
                   /\ \/ pc'[c] = "search" /\ ptr'[c] = ptr[c] /\ Keeps({}, {})
                      \/ pc'[c] = "giveBack" /\ Carries(c, o)' /\ Keeps({}, {o})
                      \/ pc'[c] = "idle" /\ Keeps({}, {o})
<1>1. TypeInv /\ SizeInv
  BY DEF IInv
<1>2. PICK home, P : Inv(home, P)
  BY DEF IInv
<1>3. PICK o : Releases(home, P, c, o)
  BY <1>1, <1>2, SearchStep
<1>4. InPools(o) /\ o[1] = ptr[c]
  BY <1>1, <1>2, <1>3, IsSeen DEF Seen, Releases
<1>5. \/ pc'[c] = "search" /\ ptr'[c] = ptr[c] /\ Keeps({}, {})
      \/ pc'[c] = "giveBack" /\ Carries(c, o)' /\ Keeps({}, {o})
      \/ pc'[c] = "idle" /\ Keeps({}, {o})
  BY <1>1, <1>2, <1>3, AfterKeeps DEF Releases
<1>6. /\ pc \in [Cpu -> {"idle", "fetch", "link", "search", "giveBack", "lost"}]
      /\ ptr \in [Cpu -> Address \cup Page]
  BY <1>1 DEF TypeInv
<1>7. /\ pc[c] = "search" /\ live' = live
      /\ \E x : pc' = [pc EXCEPT ![c] = x]
      /\ \E x : ptr' = [ptr EXCEPT ![c] = x]
  BY DEF Search
<1>. QED BY <1>4, <1>5, <1>6, <1>7 DEF Undisturbed

\* memserver_receive: the pages go back.
LEMMA GiveBackKeeps ==
  ASSUME IInv, NEW c \in Cpu, GiveBack(c)
  PROVE  /\ Undisturbed(c) /\ pc[c] = "giveBack" /\ pc'[c] = "idle" /\ live' = live
         /\ Keeps({}, {})
<1>1. TypeInv /\ SizeInv
  BY DEF IInv
<1>2. PICK home, P : Inv(home, P)
  BY DEF IInv
<1>3. Keeps({}, {})
  BY <1>1, <1>2, GiveBackStep, AfterKeeps
<1>4. /\ pc \in [Cpu -> {"idle", "fetch", "link", "search", "giveBack", "lost"}]
      /\ ptr \in [Cpu -> Address \cup Page]
  BY <1>1 DEF TypeInv
<1>5. /\ pc[c] = "giveBack" /\ live' = live
      /\ pc' = [pc EXCEPT ![c] = "idle"] /\ ptr' = [ptr EXCEPT ![c] = 0]
  BY DEF GiveBack
<1>. QED BY <1>3, <1>4, <1>5 DEF Undisturbed
------------------------------------------------------------------------------
(* The invariant of lab1.                                                   *)
Things == {<<>>} \cup (Address \X Address)
Lines == {Silent} \cup Line

Lab1Types == /\ test \in BOOLEAN
             /\ step \in [Cpu -> 1 .. Len(Script(test)) + 1]
             /\ kept \in [Cpu -> Things]
             /\ failed \in [Cpu -> BOOLEAN]
             /\ said \in [Cpu -> Lines]
             /\ known \subseteq Address \X Address
             /\ verdict \in {"none", "overlap"}
             /\ halted \in BOOLEAN

Busy(c) == pc[c] \in {"search", "giveBack"}
Has(c) == kept[c] # <<>> /\ Keeping(test, step[c])

\* A CPU is in the call of its script, and a line is printed after the call.
CallInv == \A c \in Cpu :
  /\ pc[c] \in {"fetch", "link"} => Now(c).op = "alloc"
  /\ Busy(c) => Now(c).op = "free" /\ kept[c] # <<>>
  /\ said[c] # Silent => test /\ pc[c] = "idle" /\ said[c].kind \in {"alloc", "free"}

\* Where the object is that a CPU keeps, or frees: nobody else has it.
Mine(c) == /\ pc[c] = "search" => ptr[c] = kept[c][1] /\ InPools(kept[c]) /\ kept[c] \notin live
           /\ pc[c] = "giveBack" => Carries(c, kept[c])
           /\ ~ Busy(c) => kept[c] \in live
HeldInv == \A c \in Cpu : Has(c) => /\ Mine(c)
                                    /\ \A d \in Cpu \ {c} : Has(d) => kept[d] # kept[c]

\* Nor does anybody have an object that is about to be printed.
SaidInv == \A c \in Cpu : said[c].kind = "alloc" =>
  /\ said[c].object \in live
  /\ \A d \in Cpu \ {c} : /\ Has(d) => kept[d] # said[c].object
                          /\ said[d].kind = "alloc" => said[d].object # said[c].object

\* The checker's list: its objects are apart, and each has one of three reasons to be in it.
TraceInv == test /\ verdict = "none" =>
  /\ known = (live \ Unsaid("alloc")) \cup Unsaid("free") \cup Freeing
  /\ Unsaid("free") \cap ((live \ Unsaid("alloc")) \cup Freeing) = {}
  /\ \A c, d \in Cpu : said[c].kind = "free" /\ said[d].kind = "free" /\ c # d =>
       said[c].object # said[d].object
  /\ \A u \in known : u[1] < u[2]
  /\ \A u, v \in known : u # v => ~ Overlap(u, v)

Lab1Inv == IInv /\ Lab1Types /\ CallInv /\ HeldInv /\ SaidInv /\ TraceInv

\* The step of the script that a CPU is at.
LEMMA ScriptStep ==
  ASSUME Lab1Types, NEW c \in Cpu, Now(c).op \in {"alloc", "free", "again"}
  PROVE  /\ step[c] + 1 \in 1 .. Len(Script(test)) + 1 /\ 1 \in 1 .. Len(Script(test)) + 1
         /\ Now(c).op = "alloc" => Now(c).keep \in BOOLEAN
         /\ Now(c).op = "free" => Keeping(test, step[c])
         /\ Keeping(test, step[c] + 1) =>
              /\ Now(c).op # "free"
              /\ (Now(c).op = "alloc" /\ Now(c).keep) \/ Keeping(test, step[c])
<1> DEFINE n == Len(Script(test))
           i == step[c]
<1>1. /\ test \in BOOLEAN /\ Script(test) \in Seq(Step) /\ n \in Nat
      /\ \A k \in 1 .. n : Script(test)[k] \in Step
      /\ \A k \in 1 .. n : Script(test)[k].op = "free" => Keeping(test, k)
      /\ i \in 1 .. n + 1
  BY ScriptAssumption DEF Lab1Types
<1>2. i \in 1 .. n /\ Now(c) = Script(test)[i]
  BY <1>1 DEF Now
<1>3. Now(c).op = "alloc" => Now(c).keep \in BOOLEAN
  BY <1>1, <1>2 DEF Step
<1>4. ASSUME Keeping(test, i + 1)
      PROVE  /\ Now(c).op # "free"
             /\ (Now(c).op = "alloc" /\ Now(c).keep) \/ Keeping(test, i)
  <2>1. PICK j \in 1 .. i : /\ Script(test)[j].op = "alloc" /\ Script(test)[j].keep
                            /\ \A k \in j + 1 .. i : Script(test)[k].op # "free"
    BY <1>1, <1>4 DEF Keeping
  <2>2. CASE j = i
    BY <1>2, <2>1, <2>2
  <2>3. CASE j # i
    <3>1. j \in 1 .. i - 1 /\ i \in j + 1 .. i /\ \A k \in j + 1 .. i - 1 : k \in j + 1 .. i
      BY <1>1, <2>1, <2>3
    <3>. QED BY <1>2, <2>1, <3>1 DEF Keeping
  <2>. QED BY <2>2, <2>3
<1>. QED BY <1>1, <1>2, <1>3, <1>4

\* Nothing happens in the manager.
LEMMA NothingKeeps ==
  ASSUME IInv, NEW c \in Cpu, UNCHANGED vars
  PROVE  Undisturbed(c) /\ pc' = pc /\ live' = live /\ Keeps({}, {})
<1>1. TypeInv /\ SizeInv
  BY DEF IInv
<1>2. PICK home, P : Inv(home, P)
  BY DEF IInv
<1>3. Keeps({}, {})
  BY <1>1, <1>2, NoStep, AfterKeeps
<1>4. pc' = pc /\ ptr' = ptr /\ live' = live
  BY DEF vars, callVars
<1>. QED BY <1>3, <1>4 DEF Undisturbed

\* The objects of Unsaid and Freeing, one by one.
Members == /\ \A kind, u : u \in Unsaid(kind) <=>
                \E d \in Cpu : said[d].kind = kind /\ said[d].object = u
           /\ \A u : u \in Freeing <=> \E d \in Cpu : Busy(d) /\ kept[d] = u

\* The invariant excludes a lost object.
LEMMA IsMembers == IInv => Members
<1>1. IInv => \A d \in Cpu : pc[d] # "lost"
  BY DEF IInv, Inv, LiveInv
<1>. QED BY <1>1 DEF Members, Unsaid, Freeing, Busy

\* And so in the next state.
LEMMA IsMembersNext == IInv' => Members'
  BY IsMembers, PTL

\* Where a line and a call of kfree are in the script.
LEMMA CallsAre ==
  ASSUME Lab1Types, CallInv, NEW c \in Cpu
  PROVE  /\ Now(c).op = "free" => Keeping(test, step[c])
         /\ Busy(c) => Has(c) /\ said[c] = Silent
         /\ pc[c] # "idle" => said[c] = Silent
<1>1. Now(c).op = "free" => Keeping(test, step[c])
  BY ScriptStep
<1>. QED BY <1>1 DEF CallInv, Has, Busy

------------------------------------------------------------------------------
(* What the steps of lab1 have in common.                                   *)

\* A CPU that does nothing has what it had.
LEMMA StillMine ==
  ASSUME IInv, HeldInv, NEW d \in Cpu, NEW N, NEW G, Keeps(N, G), live' \subseteq live \cup N,
         pc'[d] = pc[d], ptr'[d] = ptr[d], kept'[d] = kept[d], step'[d] = step[d], test' = test,
         Has(d) => kept[d] \notin G /\ (kept[d] \in live => kept[d] \in live')
  PROVE  /\ Has(d)' <=> Has(d)
         /\ Has(d) => Mine(d)' /\ kept[d] \notin N
<1>0. PICK o : o = kept[d]
  OBVIOUS
<1>1. /\ Clear /\ Clear' /\ pc'[d] = pc[d] /\ ptr'[d] = ptr[d] /\ kept'[d] = o
      /\ step'[d] = step[d] /\ test' = test
  BY <1>0, IsClear, IsClearNext DEF Keeps
<1>2. Has(d)' <=> Has(d)
  BY <1>0, <1>1 DEF Has, Keeping
<1>3. ASSUME Has(d) PROVE Mine(d)' /\ o \notin N
  <2>0. Mine(d) /\ o \notin G /\ (o \in live => o \in live')
    BY <1>0, <1>3 DEF HeldInv
  <2>1. CASE pc[d] = "search"
    <3>1. ptr[d] = o[1] /\ InPools(o) /\ o \notin live
      BY <1>0, <2>0, <2>1 DEF Mine
    <3>2. o \notin N /\ InPools(o)'
      BY <2>0, <3>1 DEF Keeps
    <3>3. o \notin live'
      BY <3>1, <3>2
    <3>. QED BY <1>1, <2>1, <3>1, <3>2, <3>3 DEF Mine, Busy, InPools
  <2>2. CASE pc[d] = "giveBack"
    <3>1. Carries(d, o) /\ InHand(d)' = InHand(d)
      BY <1>0, <1>1, <2>0, <2>2 DEF Mine, Keeps
    <3>2. Carries(d, o)' /\ o[1] < o[2]
      BY <3>1 DEF Carries
    <3>3. o \notin N
      <4>1. SUFFICES ASSUME o \in N PROVE FALSE
        OBVIOUS
      <4>2. InPools(o)'
        BY <4>1 DEF Keeps
      <4>3. ~ Overlap(o, o)
        BY <1>1, <3>2, <4>2 DEF Clear
      <4>. QED BY <3>2, <4>3 DEF Overlap
    <3>. QED BY <1>1, <2>2, <3>2, <3>3 DEF Mine, Busy, Carries
  <2>3. CASE ~ Busy(d)
    <3>1. o \in live /\ o \in live'
      BY <1>0, <2>0, <2>3 DEF Mine
    <3>2. o \notin N
      BY <1>1, <3>1 DEF Clear, Keeps
    <3>. QED BY <1>1, <2>3, <3>1, <3>2 DEF Mine, Busy
  <2>. QED BY <2>1, <2>2, <2>3 DEF Busy
<1>. QED BY <1>0, <1>2, <1>3

\* The other CPUs do nothing.
OthersStay(c) == /\ Undisturbed(c) /\ test' = test
                 /\ \A d \in Cpu \ {c} :
                      kept'[d] = kept[d] /\ step'[d] = step[d] /\ said'[d] = said[d]

\* They have what they had, and nothing that is new.
LEMMA OthersHold ==
  ASSUME IInv, HeldInv, NEW c \in Cpu, NEW N, NEW G, Keeps(N, G), OthersStay(c),
         live' \subseteq live \cup N,
         \A d \in Cpu \ {c} : Has(d) => kept[d] \notin G /\ (kept[d] \in live => kept[d] \in live')
  PROVE  \A d \in Cpu \ {c} : /\ Has(d)' <=> Has(d)
                              /\ Has(d) => Mine(d)' /\ kept[d] \notin N
<1> SUFFICES ASSUME NEW d \in Cpu \ {c} PROVE /\ Has(d)' <=> Has(d)
                                              /\ Has(d) => Mine(d)' /\ kept[d] \notin N
  OBVIOUS
<1>. QED BY StillMine DEF OthersStay, Undisturbed

\* The others' calls are the same.
LEMMA CallNext ==
  ASSUME CallInv, NEW c \in Cpu, OthersStay(c),
         /\ pc'[c] \in {"fetch", "link"} => Now(c)'.op = "alloc"
         /\ pc'[c] \in {"search", "giveBack"} => Now(c)'.op = "free" /\ kept'[c] # <<>>
         /\ said'[c] # Silent => test' /\ pc'[c] = "idle" /\ said'[c].kind \in {"alloc", "free"}
  PROVE  CallInv'
<1> SUFFICES ASSUME NEW d \in Cpu
             PROVE  /\ pc'[d] \in {"fetch", "link"} => Now(d)'.op = "alloc"
                    /\ pc'[d] \in {"search", "giveBack"} => Now(d)'.op = "free" /\ kept'[d] # <<>>
                    /\ said'[d] # Silent =>
                         test' /\ pc'[d] = "idle" /\ said'[d].kind \in {"alloc", "free"}
  BY DEF CallInv, Busy, Silent
<1>1. CASE d = c
  BY <1>1
<1>2. CASE d # c
  <2>1. /\ pc'[d] = pc[d] /\ kept'[d] = kept[d] /\ step'[d] = step[d] /\ said'[d] = said[d]
        /\ test' = test
    BY <1>2 DEF OthersStay, Undisturbed
  <2>2. Now(d)' = Now(d)
    BY <2>1 DEF Now
  <2>. QED BY <2>1, <2>2 DEF CallInv, Busy
<1>. QED BY <1>1, <1>2

\* An object is still in one place only, if it is so for cpu c.
LEMMA HeldNext ==
  ASSUME HeldInv, SaidInv, NEW c \in Cpu, OthersStay(c),
         \A d \in Cpu \ {c} : (Has(d)' <=> Has(d)) /\ (Has(d) => Mine(d)'),
         Has(c)' => Mine(c)' /\ \A d \in Cpu \ {c} : Has(d) => kept[d] # kept'[c],
         said'[c].kind = "alloc" =>
           /\ said'[c].object \in live'
           /\ \A d \in Cpu \ {c} :
                /\ Has(d) => kept[d] # said'[c].object
                /\ said[d].kind = "alloc" => said[d].object # said'[c].object,
         \A d \in Cpu \ {c} : said[d].kind = "alloc" =>
           said[d].object \in live' /\ (Has(c)' => kept'[c] # said[d].object)
  PROVE  HeldInv' /\ SaidInv'
<1>1. \A d \in Cpu \ {c} : kept'[d] = kept[d] /\ said'[d] = said[d]
  BY DEF OthersStay
<1>2. HeldInv'
  <2> SUFFICES ASSUME NEW d \in Cpu, Has(d)'
               PROVE  Mine(d)' /\ \A e \in Cpu \ {d} : Has(e)' => kept'[e] # kept'[d]
    BY DEF HeldInv
  <2>1. CASE d = c
    BY <1>1, <2>1
  <2>2. CASE d # c
    BY <1>1, <2>2 DEF HeldInv
  <2>. QED BY <2>1, <2>2
<1>3. SaidInv'
  <2> SUFFICES ASSUME NEW d \in Cpu, said'[d].kind = "alloc"
               PROVE  /\ said'[d].object \in live'
                      /\ \A e \in Cpu \ {d} :
                           /\ Has(e)' => kept'[e] # said'[d].object
                           /\ said'[e].kind = "alloc" => said'[e].object # said'[d].object
    BY DEF SaidInv
  <2>1. CASE d = c
    BY <1>1, <2>1
  <2>2. CASE d # c
    BY <1>1, <2>2 DEF SaidInv
  <2>. QED BY <2>1, <2>2
<1>. QED BY <1>2, <1>3

\* A call returns.
LEMMA ReturnedIs ==
  ASSUME Lab1Types, NEW c \in Cpu, Now(c).op \in {"alloc", "free"},
         NEW object \in Things, NEW line \in Lines, Returned(c, object, line)
  PROVE  /\ Lab1Types'
         /\ test' = test /\ known' = known /\ verdict' = verdict
         /\ \A d \in Cpu \ {c} : kept'[d] = kept[d] /\ step'[d] = step[d] /\ said'[d] = said[d]
         /\ said'[c] = IF test THEN line ELSE said[c]
         /\ Has(c)' => /\ Now(c).op = "alloc"
                       /\ kept'[c] = object \/ (Has(c) /\ kept'[c] = kept[c])
         /\ Has(c)' => kept'[c] # <<>>
<1>1. /\ step' = [step EXCEPT ![c] = @ + 1]
      /\ kept' = IF Now(c).op = "alloc" /\ Now(c).keep THEN [kept EXCEPT ![c] = object] ELSE kept
      /\ failed' = [failed EXCEPT ![c] = @ \/ (Now(c).op = "alloc" /\ object = <<>>)]
      /\ said' = IF test THEN [said EXCEPT ![c] = line] ELSE said
      /\ test' = test /\ known' = known /\ verdict' = verdict /\ halted' = halted
  BY DEF Returned
<1>2. /\ test \in BOOLEAN /\ step \in [Cpu -> 1 .. Len(Script(test)) + 1]
      /\ kept \in [Cpu -> Things] /\ failed \in [Cpu -> BOOLEAN] /\ said \in [Cpu -> Lines]
  BY DEF Lab1Types
<1>3. step[c] + 1 \in 1 .. Len(Script(test)) + 1
  BY ScriptStep
<1>4. step' \in [Cpu -> 1 .. Len(Script(test)) + 1]
  BY <1>1, <1>2, <1>3
<1>5. kept' \in [Cpu -> Things] /\ said' \in [Cpu -> Lines]
  BY <1>1, <1>2
<1>6. failed' \in [Cpu -> BOOLEAN]
  BY <1>1, <1>2
<1>7. Lab1Types'
  BY <1>1, <1>4, <1>5, <1>6 DEF Lab1Types, Things, Lines
<1>8. /\ \A d \in Cpu \ {c} : kept'[d] = kept[d] /\ step'[d] = step[d] /\ said'[d] = said[d]
      /\ said'[c] = IF test THEN line ELSE said[c]
      /\ step'[c] = step[c] + 1
      /\ kept'[c] = IF Now(c).op = "alloc" /\ Now(c).keep THEN object ELSE kept[c]
  BY <1>1, <1>2
<1>9. ASSUME Has(c)'
      PROVE  /\ Now(c).op = "alloc" /\ kept'[c] # <<>>
             /\ kept'[c] = object \/ (Has(c) /\ kept'[c] = kept[c])
  <2>1. kept'[c] # <<>> /\ Keeping(test, step[c] + 1)
    BY <1>1, <1>8, <1>9 DEF Has, Keeping
  <2>2. Now(c).op = "alloc" /\ (Now(c).keep \/ Keeping(test, step[c]))
    BY <2>1, ScriptStep
  <2>. QED BY <1>8, <2>1, <2>2 DEF Has
<1>. QED BY <1>1, <1>7, <1>8, <1>9

\* What the other CPUs say, and free.
Says(c, kind, u) == \E d \in Cpu \ {c} : said[d].kind = kind /\ said[d].object = u
Frees(c, u) == \E d \in Cpu \ {c} : Busy(d) /\ kept[d] = u

\* What cpu c adds to it, before the step and after.
LEMMA MembersNext ==
  ASSUME IInv, IInv', NEW c \in Cpu, OthersStay(c)
  PROVE  /\ \A kind, u : u \in Unsaid(kind) <=>
              (said[c].kind = kind /\ said[c].object = u) \/ Says(c, kind, u)
         /\ \A kind, u : u \in Unsaid(kind)' <=>
              (said'[c].kind = kind /\ said'[c].object = u) \/ Says(c, kind, u)
         /\ \A u : u \in Freeing <=> (Busy(c) /\ kept[c] = u) \/ Frees(c, u)
         /\ \A u : u \in Freeing' <=>
              (pc'[c] \in {"search", "giveBack"} /\ kept'[c] = u) \/ Frees(c, u)
<1>1. Members /\ Members'
  BY IsMembers, IsMembersNext
<1>2. \A d \in Cpu \ {c} : said'[d] = said[d] /\ kept'[d] = kept[d] /\ pc'[d] = pc[d]
  BY DEF OthersStay, Undisturbed
<1>3. \A kind, u : u \in Unsaid(kind) <=>
        (said[c].kind = kind /\ said[c].object = u) \/ Says(c, kind, u)
  BY <1>1 DEF Members, Says
<1>4. \A kind, u : u \in Unsaid(kind)' <=>
        (said'[c].kind = kind /\ said'[c].object = u) \/ Says(c, kind, u)
  BY <1>1, <1>2 DEF Members, Says
<1>5. \A u : u \in Freeing <=> (Busy(c) /\ kept[c] = u) \/ Frees(c, u)
  BY <1>1 DEF Members, Frees
<1>6. \A u : u \in Freeing' <=>
        (pc'[c] \in {"search", "giveBack"} /\ kept'[c] = u) \/ Frees(c, u)
  BY <1>1, <1>2 DEF Members, Frees, Busy
<1>. QED BY <1>3, <1>4, <1>5, <1>6

\* The checker's list stays as it is, and so does what it must be.
LEMMA TraceNext ==
  ASSUME TraceInv, test' = test, verdict' = verdict, known' = known,
         Lab1Types, test => 
           /\ \A u : u \in Unsaid("free")' <=> u \in Unsaid("free")
           /\ \A u : u \in ((live \ Unsaid("alloc")) \cup Freeing)'
                       <=> u \in (live \ Unsaid("alloc")) \cup Freeing
           /\ \A d \in Cpu : said'[d].kind = "free" => said'[d] = said[d]
  PROVE  TraceInv'
<1> SUFFICES ASSUME test, verdict = "none" PROVE TraceInv'
  BY DEF TraceInv, Lab1Types
<1>1. /\ Unsaid("free")' = Unsaid("free")
      /\ ((live \ Unsaid("alloc")) \cup Freeing)' = (live \ Unsaid("alloc")) \cup Freeing
  OBVIOUS
<1>. QED BY <1>1 DEF TraceInv

------------------------------------------------------------------------------
(* The steps of lab1.                                                       *)

\* Cpu c is not in kfree: it stays where it is, allocates a page, or gets NULL.
LEMMA StaysIdle ==
  ASSUME Lab1Inv, NEW c \in Cpu, Keeps({}, {}), OthersStay(c), live' = live,
         ~ Busy(c), pc'[c] \notin {"search", "giveBack"},
         Has(c)' => Has(c) /\ kept'[c] = kept[c],
         said'[c] = said[c], known' = known, verdict' = verdict
  PROVE  HeldInv' /\ SaidInv' /\ TraceInv'
<1>1. /\ IInv /\ IInv' /\ Lab1Types /\ CallInv /\ HeldInv /\ SaidInv /\ TraceInv
      /\ test' = test
  BY DEF Lab1Inv, Keeps, OthersStay
<1>2. \A d \in Cpu \ {c} : (Has(d)' <=> Has(d)) /\ (Has(d) => Mine(d)')
  BY <1>1, OthersHold
<1>3. Has(c)' => Mine(c)' /\ \A d \in Cpu \ {c} : Has(d) => kept[d] # kept'[c]
  BY <1>1 DEF HeldInv, Mine, Busy
<1>4. HeldInv' /\ SaidInv'
  BY <1>1, <1>2, <1>3, HeldNext DEF SaidInv
<1>5. TraceInv'
  <2>1. \A d \in Cpu : said'[d] = said[d]
    BY DEF OthersStay
  <2>2. /\ \A kind, u : u \in Unsaid(kind)' <=> u \in Unsaid(kind)
        /\ \A u : u \in Freeing' <=> u \in Freeing
    BY <1>1, <2>1, MembersNext
  <2>. QED BY <1>1, <2>1, <2>2, TraceNext
<1>. QED BY <1>4, <1>5

\* Cpu c gets an object.
LEMMA GetsObject ==
  ASSUME Lab1Inv, NEW c \in Cpu, NEW o, Keeps({o}, {}), Undisturbed(c), live' = live \cup {o},
         ~ Busy(c), pc'[c] = "idle", said[c] = Silent, Now(c).op = "alloc", Allocated(c)
  PROVE  Lab1Inv'
<1>1. /\ IInv /\ IInv' /\ Lab1Types /\ CallInv /\ HeldInv /\ SaidInv /\ TraceInv
      /\ Clear /\ Clear'
  BY IsClear, IsClearNext DEF Lab1Inv, Keeps
<1>2. o \notin live /\ o \in Address \X Address
  BY <1>1 DEF Clear, Keeps, IInv, TypeInv
<1>3. New = o
  BY <1>2 DEF New
<1> DEFINE line == [kind |-> "alloc", object |-> o]
<1>4. Returned(c, o, line) /\ o \in Things /\ line \in Lines
  BY <1>2, <1>3 DEF Allocated, Things, Lines, Line
<1> HIDE DEF line
<1>5. /\ Lab1Types' /\ test' = test /\ known' = known /\ verdict' = verdict
      /\ \A d \in Cpu \ {c} : kept'[d] = kept[d] /\ step'[d] = step[d] /\ said'[d] = said[d]
      /\ said'[c] = IF test THEN line ELSE said[c]
      /\ Has(c)' => kept'[c] = o \/ (Has(c) /\ kept'[c] = kept[c])
  BY <1>1, <1>4, ReturnedIs
<1>6. line.kind = "alloc" /\ line.object = o /\ Silent.kind = "none"
  BY DEF line, Silent
<1>7. OthersStay(c)
  BY <1>5 DEF OthersStay
<1>8. \A d \in Cpu \ {c} : (Has(d)' <=> Has(d)) /\ (Has(d) => Mine(d)' /\ kept[d] # o)
  BY <1>1, <1>7, OthersHold
<1>9. CallInv'
  BY <1>1, <1>5, <1>6, <1>7, CallNext
<1>10. HeldInv' /\ SaidInv'
  <2>1. Has(c)' => Mine(c)' /\ \A d \in Cpu \ {c} : Has(d) => kept[d] # kept'[c]
    BY <1>1, <1>5, <1>8 DEF HeldInv, Mine, Busy
  <2>2. said'[c].kind = "alloc" => said'[c].object = o
    BY <1>5, <1>6
  <2>3. \A d \in Cpu \ {c} : said[d].kind = "alloc" =>
          /\ said[d].object \in live' /\ said[d].object # o
          /\ Has(c)' => kept'[c] # said[d].object
    BY <1>1, <1>2, <1>5 DEF SaidInv
  <2>. QED BY <1>1, <1>7, <1>8, <2>1, <2>2, <2>3, HeldNext
<1>11. TraceInv'
  <2>1. /\ \A u : u \in Unsaid("free")' <=> u \in Unsaid("free")
        /\ test => \A u : u \in Unsaid("alloc")' <=> u = o \/ u \in Unsaid("alloc")
        /\ \A u : u \in Freeing' <=> u \in Freeing
    BY <1>1, <1>5, <1>6, <1>7, MembersNext
  <2>2. test => \A u : u \in ((live \ Unsaid("alloc")) \cup Freeing)'
                         <=> u \in (live \ Unsaid("alloc")) \cup Freeing
    BY <1>2, <2>1
  <2>3. test => \A d \in Cpu : said'[d].kind = "free" => said'[d] = said[d]
    BY <1>5, <1>6
  <2>. QED BY <1>1, <1>5, <2>1, <2>2, <2>3, TraceNext
<1>. QED BY <1>1, <1>5, <1>9, <1>10, <1>11 DEF Lab1Inv

\* kfree takes the object from its caller.
LEMMA BeginsFree ==
  ASSUME Lab1Inv, NEW c \in Cpu, Ready(c, "free"), kept[c] # <<>>, Kfree(c, kept[c]),
         UNCHANGED lab1Vars
  PROVE  Lab1Inv'
<1>1. /\ IInv /\ Lab1Types /\ CallInv /\ HeldInv /\ SaidInv /\ TraceInv /\ Clear
  BY IsClear DEF Lab1Inv
<1>2. /\ test' = test /\ step' = step /\ kept' = kept /\ failed' = failed /\ said' = said
      /\ known' = known /\ verdict' = verdict /\ halted' = halted
      /\ said[c] = Silent /\ Now(c).op = "free" /\ Silent.kind = "none"
  BY DEF lab1Vars, Ready, Silent
<1>3. PICK o : o = kept[c]
  OBVIOUS
<1>4. /\ Undisturbed(c) /\ pc[c] = "idle" /\ pc'[c] = "search" /\ ptr'[c] = o[1]
      /\ o \in live /\ live' = live \ {o} /\ Keeps({}, {})
  BY <1>1, <1>3, KfreeKeeps
<1>5. IInv' /\ OthersStay(c) /\ Has(c)
  BY <1>1, <1>2, <1>4, CallsAre DEF Keeps, OthersStay, Has
<1>6. \A d \in Cpu \ {c} : Has(d) => kept[d] # o
  BY <1>1, <1>3, <1>5 DEF HeldInv
<1>7. \A d \in Cpu \ {c} : (Has(d)' <=> Has(d)) /\ (Has(d) => Mine(d)')
  BY <1>1, <1>4, <1>5, <1>6, OthersHold
<1>8. Lab1Types'
  BY <1>1, <1>2 DEF Lab1Types
<1>9. CallInv'
  <2>1. Now(c)' = Now(c)
    BY <1>2 DEF Now
  <2>. QED BY <1>1, <1>2, <1>4, <1>5, <2>1, CallNext
<1>10. Mine(c)'
  <2>1. InPools(o)' /\ o \notin live'
    BY <1>1, <1>4 DEF Clear, Keeps
  <2>2. kept'[c] = o
    BY <1>2, <1>3
  <2>. QED BY <1>4, <2>1, <2>2 DEF Mine, Busy, InPools
<1>11. HeldInv' /\ SaidInv'
  <2>1. \A d \in Cpu \ {c} : said[d].kind = "alloc" => said[d].object \in live' /\ kept[c] # said[d].object
    BY <1>1, <1>3, <1>4, <1>5 DEF SaidInv
  <2>. QED BY <1>1, <1>2, <1>3, <1>5, <1>6, <1>7, <1>10, <2>1, HeldNext
<1>12. TraceInv'
  <2>1. /\ \A kind, u : u \in Unsaid(kind)' <=> u \in Unsaid(kind)
        /\ \A u : u \in Freeing' <=> u = o \/ u \in Freeing
        /\ o \notin Unsaid("alloc")
    <3>1. o \notin Unsaid("alloc")
      <4>1. \A d \in Cpu \ {c} : said[d].kind = "alloc" => said[d].object # o
        BY <1>1, <1>3, <1>5 DEF SaidInv
      <4>. QED BY <1>1, <1>2, <1>5, <4>1, MembersNext DEF Says
    <3>. QED BY <1>1, <1>2, <1>3, <1>4, <1>5, <3>1, MembersNext DEF Busy
  <2>2. \A u : u \in ((live \ Unsaid("alloc")) \cup Freeing)'
                 <=> u \in (live \ Unsaid("alloc")) \cup Freeing
    BY <1>4, <2>1
  <2>. QED BY <1>1, <1>2, <2>1, <2>2, TraceNext
<1>. QED BY <1>5, <1>8, <1>9, <1>11, <1>12 DEF Lab1Inv

\* kfree goes on to the next pool, or has the pages of the object in its hands.
LEMMA SearchesOn ==
  ASSUME Lab1Inv, NEW c \in Cpu, Search(c), pc'[c] # "idle", UNCHANGED lab1Vars
  PROVE  Lab1Inv'
<1>1. /\ IInv /\ Lab1Types /\ CallInv /\ HeldInv /\ SaidInv /\ TraceInv /\ Clear
  BY IsClear DEF Lab1Inv
<1>2. /\ test' = test /\ step' = step /\ kept' = kept /\ failed' = failed /\ said' = said
      /\ known' = known /\ verdict' = verdict /\ halted' = halted
  BY DEF lab1Vars
<1>3. /\ Undisturbed(c) /\ pc[c] = "search" /\ live' = live
      /\ \E o : /\ InPools(o) /\ o[1] = ptr[c]
                /\ \/ pc'[c] = "search" /\ ptr'[c] = ptr[c] /\ Keeps({}, {})
                   \/ pc'[c] = "giveBack" /\ Carries(c, o)' /\ Keeps({}, {o})
  BY <1>1, SearchKeeps
<1>4. Has(c) /\ said[c] = Silent /\ Busy(c) /\ Now(c).op = "free" /\ kept[c] # <<>>
  BY <1>1, <1>3, CallsAre DEF Busy, CallInv
<1>5. PICK o : o = kept[c]
  OBVIOUS
<1>6. ptr[c] = o[1] /\ InPools(o) /\ o \notin live /\ o[1] < o[2]
  BY <1>1, <1>3, <1>4, <1>5 DEF HeldInv, Mine, Clear
<1>7. \A u : InPools(u) /\ u[1] = ptr[c] => u = o
  BY <1>1, <1>6 DEF Clear, Overlap
<1>8. \/ pc'[c] = "search" /\ ptr'[c] = ptr[c] /\ Keeps({}, {})
      \/ pc'[c] = "giveBack" /\ Carries(c, o)' /\ Keeps({}, {o})
  BY <1>3, <1>7
<1>9. IInv' /\ OthersStay(c) /\ \A d \in Cpu \ {c} : Has(d) => kept[d] # o
  BY <1>1, <1>2, <1>3, <1>4, <1>5, <1>8 DEF Keeps, OthersStay, HeldInv
<1>10. \A d \in Cpu \ {c} : (Has(d)' <=> Has(d)) /\ (Has(d) => Mine(d)')
  <2>1. PICK G : Keeps({}, G) /\ G \subseteq {o}
    BY <1>8
  <2>2. \A d \in Cpu \ {c} : Has(d) => kept[d] \notin G
    BY <1>9, <2>1
  <2>. QED BY <1>1, <1>3, <1>9, <2>1, <2>2, OthersHold
<1>11. Lab1Types'
  BY <1>1, <1>2 DEF Lab1Types
<1>12. CallInv'
  <2>1. Now(c)' = Now(c)
    BY <1>2 DEF Now
  <2>. QED BY <1>1, <1>2, <1>4, <1>8, <1>9, <2>1, CallNext
<1>13. Mine(c)'
  <2>1. kept'[c] = o
    BY <1>2, <1>5
  <2>2. CASE pc'[c] = "search"
    <3>1. InPools(o)' /\ ptr'[c] = o[1] /\ o \notin live'
      BY <1>3, <1>6, <1>8, <2>2 DEF Keeps
    <3>. QED BY <2>1, <2>2, <3>1 DEF Mine, Busy, InPools
  <2>3. CASE pc'[c] = "giveBack"
    BY <1>8, <2>1, <2>3 DEF Mine, Busy, Carries
  <2>. QED BY <1>8, <2>2, <2>3
<1>14. HeldInv' /\ SaidInv'
  BY <1>1, <1>2, <1>3, <1>4, <1>5, <1>9, <1>10, <1>13, HeldNext DEF SaidInv, Silent
<1>15. TraceInv'
  <2>1. /\ \A kind, u : u \in Unsaid(kind)' <=> u \in Unsaid(kind)
        /\ \A u : u \in Freeing' <=> u \in Freeing
    BY <1>1, <1>2, <1>4, <1>8, <1>9, MembersNext
  <2>. QED BY <1>1, <1>2, <1>3, <2>1, TraceNext
<1>. QED BY <1>9, <1>11, <1>12, <1>14, <1>15 DEF Lab1Inv

\* kfree returns.
LEMMA EndsFree ==
  ASSUME Lab1Inv, NEW c \in Cpu, Busy(c), pc'[c] = "idle", live' = live, Undisturbed(c),
         NEW G, G \subseteq {kept[c]}, Keeps({}, G), Freed(c, kept[c])
  PROVE  Lab1Inv'
<1>1. /\ IInv /\ IInv' /\ Lab1Types /\ CallInv /\ HeldInv /\ SaidInv /\ TraceInv /\ Clear
  BY IsClear DEF Lab1Inv, Keeps
<1>2. Has(c) /\ said[c] = Silent /\ Now(c).op = "free" /\ kept[c] # <<>>
  BY <1>1, CallsAre DEF CallInv
<1>3. PICK o : o = kept[c]
  OBVIOUS
<1>4. o \in Address \X Address
  BY <1>1, <1>2, <1>3 DEF Lab1Types, Things
<1> DEFINE line == [kind |-> "free", object |-> o]
<1>5. Returned(c, <<>>, line) /\ <<>> \in Things /\ line \in Lines
  BY <1>3, <1>4 DEF Freed, Things, Lines, Line
<1>6. line.kind = "free" /\ line.object = o /\ Silent.kind = "none"
  BY DEF Silent
<1> HIDE DEF line
<1>7. /\ Lab1Types' /\ test' = test /\ known' = known /\ verdict' = verdict
      /\ \A d \in Cpu \ {c} : kept'[d] = kept[d] /\ step'[d] = step[d] /\ said'[d] = said[d]
      /\ said'[c] = IF test THEN line ELSE said[c]
      /\ ~ Has(c)'
  BY <1>1, <1>2, <1>5, ReturnedIs
<1>8. OthersStay(c)
  BY <1>7 DEF OthersStay
<1>9. o \notin live
  <2>1. Mine(c)
    BY <1>1, <1>2 DEF HeldInv
  <2>2. CASE pc[c] = "search"
    BY <1>3, <2>1, <2>2 DEF Mine
  <2>3. CASE pc[c] = "giveBack"
    <3>1. Carries(c, o) /\ o[1] < o[2]
      BY <1>3, <2>1, <2>3 DEF Mine, Carries
    <3>2. InPools(o) => ~ Overlap(o, o)
      BY <1>1, <3>1 DEF Clear
    <3>3. o[1] \in Nat /\ o[2] \in Nat
      BY <3>1 DEF Carries, Pair
    <3>. QED BY <1>1, <3>1, <3>2, <3>3 DEF Overlap, Clear
  <2>. QED BY <2>2, <2>3 DEF Busy
<1>10. \A d \in Cpu \ {c} : Has(d) => kept[d] # o
  BY <1>1, <1>2, <1>3 DEF HeldInv
<1>11. \A d \in Cpu \ {c} : (Has(d)' <=> Has(d)) /\ (Has(d) => Mine(d)')
  BY <1>1, <1>3, <1>8, <1>10, OthersHold
<1>12. CallInv'
  BY <1>1, <1>2, <1>6, <1>7, <1>8, CallNext
<1>13. HeldInv' /\ SaidInv'
  <2>1. said'[c].kind # "alloc"
    BY <1>2, <1>6, <1>7
  <2>. QED BY <1>1, <1>7, <1>8, <1>11, <2>1, HeldNext DEF SaidInv
<1>14. TraceInv'
  <2> SUFFICES ASSUME test, verdict = "none" PROVE TraceInv'
    BY <1>7 DEF TraceInv, Lab1Types
  <2>1. /\ known = (live \ Unsaid("alloc")) \cup Unsaid("free") \cup Freeing
        /\ Unsaid("free") \cap ((live \ Unsaid("alloc")) \cup Freeing) = {}
    BY <1>1 DEF TraceInv
  <2>2. ~ Frees(c, o)
    <3>1. \A d \in Cpu : Busy(d) => Has(d)
      BY <1>1, CallsAre
    <3>. QED BY <1>10, <3>1 DEF Frees
  <2>3. /\ \A u : u \in Unsaid("alloc")' <=> u \in Unsaid("alloc")
        /\ \A u : u \in Unsaid("free")' <=> u = o \/ u \in Unsaid("free")
        /\ \A u : u \in Freeing' <=> u \in Freeing /\ u # o
        /\ o \in Freeing
    BY <1>1, <1>2, <1>3, <1>6, <1>7, <1>8, <2>2, MembersNext
  <2>4. /\ (live \ Unsaid("alloc"))' = live \ Unsaid("alloc")
        /\ Unsaid("free")' = Unsaid("free") \cup {o}
        /\ Freeing' = Freeing \ {o}
    BY <2>3
  <2>5. /\ known' = ((live \ Unsaid("alloc")) \cup Unsaid("free") \cup Freeing)'
        /\ (Unsaid("free") \cap ((live \ Unsaid("alloc")) \cup Freeing))' = {}
    BY <1>7, <1>9, <2>1, <2>3, <2>4
  <2>6. \A d, e \in Cpu : said'[d].kind = "free" /\ said'[e].kind = "free" /\ d # e =>
          said'[d].object # said'[e].object
    <3>1. o \notin Unsaid("free")
      BY <2>1, <2>3
    <3>2. \A d \in Cpu \ {c} : said[d].kind = "free" => said[d].object # o
      BY <1>1, <1>8, <3>1, MembersNext DEF Says
    <3>. QED BY <1>1, <1>6, <1>7, <3>2 DEF TraceInv
  <2>. QED BY <1>1, <1>7, <2>5, <2>6 DEF TraceInv
<1>. QED BY <1>1, <1>7, <1>12, <1>13, <1>14 DEF Lab1Inv

\* A call returns NULL, or has nothing to free.
LEMMA EndsEmpty ==
  ASSUME Lab1Inv, NEW c \in Cpu, ~ Busy(c), pc'[c] = "idle", live' = live, Undisturbed(c),
         Keeps({}, {}), Now(c).op \in {"alloc", "free"}, said[c] = Silent, NoObject(c)
  PROVE  Lab1Inv'
<1>1. /\ IInv /\ IInv' /\ Lab1Types /\ CallInv
  BY DEF Lab1Inv, Keeps
<1>2. /\ Lab1Types' /\ test' = test /\ known' = known /\ verdict' = verdict
      /\ \A d \in Cpu \ {c} : kept'[d] = kept[d] /\ step'[d] = step[d] /\ said'[d] = said[d]
      /\ said'[c] = Silent
      /\ Has(c)' => Has(c) /\ kept'[c] = kept[c]
  <2>1. Returned(c, <<>>, Silent) /\ <<>> \in Things /\ Silent \in Lines
    BY DEF NoObject, Things, Lines
  <2>. QED BY <1>1, <2>1, ReturnedIs
<1>3. OthersStay(c)
  BY <1>2 DEF OthersStay
<1>4. CallInv'
  BY <1>1, <1>2, <1>3, CallNext
<1>5. HeldInv' /\ SaidInv' /\ TraceInv'
  BY <1>2, <1>3, StaysIdle
<1>. QED BY <1>1, <1>2, <1>4, <1>5 DEF Lab1Inv

\* A CPU in kalloc gets further, or os_run goes round its loop.
LEMMA StaysInCall ==
  ASSUME Lab1Inv, NEW c \in Cpu, ~ Busy(c), pc'[c] \in {"idle", "fetch", "link"}, live' = live,
         Undisturbed(c), Keeps({}, {}), pc'[c] \in {"fetch", "link"} => Now(c).op = "alloc",
         UNCHANGED <<test, kept, failed, said, known, verdict>>, halted' \in BOOLEAN,
         said[c] = Silent,
         \/ step' = step
         \/ pc'[c] = "idle" /\ Now(c).op = "again" /\ step' = [step EXCEPT ![c] = 1]
  PROVE  Lab1Inv'
<1>1. /\ IInv /\ IInv' /\ Lab1Types /\ CallInv
  BY DEF Lab1Inv, Keeps
<1>2. OthersStay(c)
  BY <1>1 DEF OthersStay, Lab1Types
<1>3. Lab1Types'
  <2>1. step' \in [Cpu -> 1 .. Len(Script(test)) + 1]
    <3>1. CASE step' = step
      BY <1>1, <3>1 DEF Lab1Types
    <3>2. CASE Now(c).op = "again" /\ step' = [step EXCEPT ![c] = 1]
      <4>1. 1 \in 1 .. Len(Script(test)) + 1
        BY <1>1, <3>2, ScriptStep
      <4>. QED BY <1>1, <3>2, <4>1 DEF Lab1Types
    <3>. QED BY <3>1, <3>2
  <2>. QED BY <1>1, <2>1 DEF Lab1Types
<1>4. CallInv'
  <2>1. step' = step => Now(c)' = Now(c)
    BY DEF Now
  <2>. QED BY <1>1, <1>2, <2>1, CallNext
<1>5. Has(c)' => Has(c) /\ kept'[c] = kept[c]
  <2>1. CASE step' = step
    BY <2>1 DEF Has, Keeping
  <2>2. CASE step' = [step EXCEPT ![c] = 1]
    <3>1. step'[c] = 1
      BY <1>1, <2>2 DEF Lab1Types
    <3>2. ~ Keeping(test, 1)
      BY DEF Keeping
    <3>. QED BY <3>1, <3>2 DEF Has, Keeping
  <2>. QED BY <2>1, <2>2
<1>6. HeldInv' /\ SaidInv' /\ TraceInv'
  BY <1>2, <1>5, StaysIdle
<1>. QED BY <1>1, <1>3, <1>4, <1>6 DEF Lab1Inv

\* The checker reads a line.
LEMMA Lab1Printf ==
  ASSUME Lab1Inv, NEW c \in Cpu, Printf(c)
  PROVE  Lab1Inv'
<1>1. /\ IInv /\ Lab1Types /\ CallInv /\ HeldInv /\ SaidInv /\ TraceInv /\ Clear
  BY IsClear DEF Lab1Inv
<1>2. /\ said[c] # Silent /\ said' = [said EXCEPT ![c] = Silent]
      /\ test' = test /\ step' = step /\ kept' = kept /\ failed' = failed /\ halted' = halted
      /\ Undisturbed(c) /\ pc' = pc /\ live' = live /\ Keeps({}, {})
  BY <1>1, NothingKeeps DEF Printf
<1>3. PICK o : o = said[c].object
  OBVIOUS
<1>4. /\ test /\ pc[c] = "idle" /\ said[c].kind \in {"alloc", "free"}
      /\ said \in [Cpu -> Lines] /\ o \in Address \X Address /\ Silent.kind = "none"
  BY <1>1, <1>2, <1>3 DEF CallInv, Lab1Types, Lines, Line, Silent
<1>5. \A d \in Cpu : said'[d] = IF d = c THEN Silent ELSE said[d]
  BY <1>2, <1>4
<1>6. IInv' /\ OthersStay(c)
  BY <1>2, <1>5 DEF Keeps, OthersStay
<1>7. CallInv'
  <2>1. Now(c)' = Now(c)
    BY <1>2 DEF Now
  <2>. QED BY <1>1, <1>2, <1>4, <1>5, <1>6, <2>1, CallNext
<1>8. HeldInv' /\ SaidInv'
  <2>1. \A d \in Cpu \ {c} : (Has(d)' <=> Has(d)) /\ (Has(d) => Mine(d)')
    BY <1>1, <1>2, <1>6, OthersHold
  <2>2. Has(c)' => Mine(c)' /\ \A d \in Cpu \ {c} : Has(d) => kept[d] # kept'[c]
    <3>1. Has(c)' => Has(c)
      BY <1>2 DEF Has, Keeping
    <3>. QED BY <1>1, <1>2, <1>4, <3>1 DEF HeldInv, Mine, Busy
  <2>3. \A d \in Cpu \ {c} : said[d].kind = "alloc" =>
          said[d].object \in live' /\ (Has(c)' => kept'[c] # said[d].object)
    BY <1>1, <1>2 DEF SaidInv, Has, Keeping
  <2>. QED BY <1>1, <1>4, <1>5, <1>6, <2>1, <2>2, <2>3, HeldNext
<1>9. /\ \A kind, u : u \in Unsaid(kind) <=> (said[c].kind = kind /\ o = u) \/ Says(c, kind, u)
      /\ \A kind \in {"alloc", "free"} : \A u : u \in Unsaid(kind)' <=> Says(c, kind, u)
      /\ \A u : u \in Freeing' <=> u \in Freeing
  BY <1>1, <1>2, <1>3, <1>4, <1>5, <1>6, MembersNext DEF Busy
<1>10. CASE verdict = "none" /\ said[c].kind = "alloc"
  <2>1. o \in live /\ o[1] < o[2] /\ o[1] % (o[2] - o[1]) = 0
    <3>1. o \in live
      BY <1>1, <1>3, <1>10 DEF SaidInv
    <3>. QED BY <1>1, <3>1, IsObjectsApart DEF ObjectsApart, Clear
  <2>2. InsertNode(o) = IF \E u \in known : Overlap(o, u) THEN "overlap" ELSE "none"
    BY <2>1 DEF InsertNode
  <2>3. /\ verdict' = InsertNode(o)
        /\ known' = IF InsertNode(o) = "none" THEN known \cup {o} ELSE known
    BY <1>3, <1>10 DEF Printf
  <2>4. Lab1Types'
    BY <1>1, <1>2, <1>4, <2>2, <2>3 DEF Lab1Types, Lines
  <2>5. TraceInv'
    <3> SUFFICES ASSUME verdict' = "none" PROVE TraceInv'
      BY DEF TraceInv
    <3>1. known' = known \cup {o} /\ \A u \in known : ~ Overlap(o, u)
      BY <2>2, <2>3
    <3>2. /\ known = (live \ Unsaid("alloc")) \cup Unsaid("free") \cup Freeing
          /\ Unsaid("free") \cap ((live \ Unsaid("alloc")) \cup Freeing) = {}
          /\ \A u \in known : u[1] < u[2]
          /\ \A u, v \in known : u # v => ~ Overlap(u, v)
      BY <1>1, <1>4, <1>10 DEF TraceInv
    <3>3. o \notin known
      BY <1>4, <2>1, <3>1 DEF Overlap
    <3>4. ~ Says(c, "alloc", o)
      BY <1>1, <1>3, <1>10 DEF SaidInv, Says
    <3>5. /\ Unsaid("free")' = Unsaid("free") /\ Freeing' = Freeing
          /\ Unsaid("alloc")' = Unsaid("alloc") \ {o}
      BY <1>9, <1>10, <3>4
    <3>6. /\ known' = ((live \ Unsaid("alloc")) \cup Unsaid("free") \cup Freeing)'
          /\ (Unsaid("free") \cap ((live \ Unsaid("alloc")) \cup Freeing))' = {}
      BY <1>2, <2>1, <3>1, <3>2, <3>3, <3>5
    <3>7. /\ \A u \in known' : u[1] < u[2]
          /\ \A u, v \in known' : u # v => ~ Overlap(u, v)
      BY <2>1, <3>1, <3>2 DEF Overlap
    <3>8. \A d, e \in Cpu : said'[d].kind = "free" /\ said'[e].kind = "free" /\ d # e =>
            said'[d].object # said'[e].object
      BY <1>1, <1>4, <1>5, <1>10 DEF TraceInv
    <3>. QED BY <3>6, <3>7, <3>8 DEF TraceInv, Overlap
  <2>. QED BY <1>6, <1>7, <1>8, <2>4, <2>5 DEF Lab1Inv
<1>11. CASE verdict = "none" /\ said[c].kind = "free"
  <2>1. /\ known = (live \ Unsaid("alloc")) \cup Unsaid("free") \cup Freeing
        /\ Unsaid("free") \cap ((live \ Unsaid("alloc")) \cup Freeing) = {}
        /\ \A u \in known : u[1] < u[2]
        /\ \A u, v \in known : u # v => ~ Overlap(u, v)
        /\ \A d, e \in Cpu : said[d].kind = "free" /\ said[e].kind = "free" /\ d # e =>
             said[d].object # said[e].object
    BY <1>1, <1>4, <1>11 DEF TraceInv
  <2>2. o \in Unsaid("free") /\ o \in known
    BY <1>9, <1>11, <2>1
  <2>3. DeleteNode(o) = "none"
    BY <2>2 DEF DeleteNode
  <2>4. verdict' = "none" /\ known' = {u \in known : u[1] # o[1]}
    BY <1>3, <1>11, <2>3 DEF Printf
  <2>5. known' = known \ {o}
    <3>1. \A u \in known : u[1] = o[1] => u = o
      BY <2>1, <2>2 DEF Overlap
    <3>. QED BY <2>4, <3>1
  <2>6. Lab1Types'
    BY <1>1, <1>2, <1>4, <2>4 DEF Lab1Types, Lines
  <2>7. TraceInv'
    <3>1. ~ Says(c, "free", o)
      BY <1>3, <1>11, <2>1 DEF Says
    <3>2. /\ Unsaid("free")' = Unsaid("free") \ {o} /\ Freeing' = Freeing
          /\ Unsaid("alloc")' = Unsaid("alloc")
      BY <1>9, <1>11, <3>1
    <3>3. /\ known' = ((live \ Unsaid("alloc")) \cup Unsaid("free") \cup Freeing)'
          /\ (Unsaid("free") \cap ((live \ Unsaid("alloc")) \cup Freeing))' = {}
      BY <1>2, <2>1, <2>2, <2>5, <3>2
    <3>4. \A d, e \in Cpu : said'[d].kind = "free" /\ said'[e].kind = "free" /\ d # e =>
            said'[d].object # said'[e].object
      BY <1>4, <1>5, <2>1
    <3>. QED BY <2>1, <2>5, <3>3, <3>4 DEF TraceInv, Overlap
  <2>. QED BY <1>6, <1>7, <1>8, <2>6, <2>7 DEF Lab1Inv
<1>12. CASE verdict # "none"
  <2>1. verdict' = verdict /\ known' = known
    BY <1>12 DEF Printf
  <2>2. Lab1Types'
    BY <1>1, <1>2, <1>4, <2>1 DEF Lab1Types, Lines
  <2>3. TraceInv'
    BY <1>12, <2>1 DEF TraceInv
  <2>. QED BY <1>6, <1>7, <1>8, <2>2, <2>3 DEF Lab1Inv
<1>. QED BY <1>4, <1>10, <1>11, <1>12

\* kalloc, up to the server.
LEMMA Lab1Alloc ==
  ASSUME Lab1Inv, NEW c \in Cpu, Alloc(c)
  PROVE  Lab1Inv'
<1>1. IInv /\ said[c] = Silent /\ Now(c).op = "alloc" /\ Lab1Types
  BY DEF Lab1Inv, Alloc, Ready
<1>2. PICK bytes \in Now(c).sizes :
        IF bytes \in 1 .. MaxSize
        THEN /\ Carve(c, RealSize(bytes))
             /\ IF pc'[c] = "idle" THEN Allocated(c) ELSE UNCHANGED lab1Vars
        ELSE pc[c] = "idle" /\ NoObject(c) /\ UNCHANGED vars
  BY DEF Alloc
<1>3. CASE bytes \in 1 .. MaxSize
  <2>1. /\ Undisturbed(c) /\ pc[c] = "idle"
        /\ \/ pc'[c] = "idle" /\ \E o : live' = live \cup {o} /\ Keeps({o}, {})
           \/ pc'[c] = "fetch" /\ live' = live /\ Keeps({}, {})
    BY <1>1, <1>2, <1>3, CarveKeeps
  <2>2. CASE pc'[c] = "idle"
    BY <1>1, <1>2, <1>3, <2>1, <2>2, GetsObject DEF Busy
  <2>3. CASE pc'[c] = "fetch"
    <3>1. UNCHANGED lab1Vars
      BY <1>2, <1>3, <2>3
    <3>2. /\ UNCHANGED <<test, kept, failed, said, known, verdict>> /\ step' = step
          /\ halted' \in BOOLEAN
      BY <1>1, <3>1 DEF lab1Vars, Lab1Types
    <3>. QED BY <1>1, <2>1, <2>3, <3>2, StaysInCall DEF Busy
  <2>. QED BY <2>1, <2>2, <2>3
<1>4. CASE bytes \notin 1 .. MaxSize
  <2>1. pc[c] = "idle" /\ NoObject(c) /\ UNCHANGED vars
    BY <1>2, <1>4
  <2>2. Undisturbed(c) /\ pc' = pc /\ live' = live /\ Keeps({}, {})
    BY <1>1, <2>1, NothingKeeps
  <2>. QED BY <1>1, <2>1, <2>2, EndsEmpty DEF Busy
<1>. QED BY <1>3, <1>4

\* kalloc, when the server has answered.
LEMMA Lab1Deliver ==
  ASSUME Lab1Inv, NEW c \in Cpu, Deliver1(c)
  PROVE  Lab1Inv'
<1>1. IInv /\ Lab1Types /\ CallInv /\ Fetch(c)
  BY DEF Lab1Inv, Deliver1
<1>2. /\ Undisturbed(c) /\ pc[c] = "fetch" /\ pc'[c] \in {"idle", "link"} /\ live' = live
      /\ Keeps({}, {})
  BY <1>1, FetchKeeps
<1>3. said[c] = Silent /\ Now(c).op = "alloc" /\ ~ Busy(c)
  BY <1>1, <1>2 DEF CallInv, Busy
<1>4. CASE pc'[c] = "idle" /\ NoObject(c)
  BY <1>2, <1>3, <1>4, EndsEmpty
<1>5. CASE halted' = TRUE /\ UNCHANGED <<test, step, kept, failed, said, known, verdict>>
  BY <1>2, <1>3, <1>5, StaysInCall
<1>6. CASE UNCHANGED lab1Vars
  <2>1. /\ UNCHANGED <<test, kept, failed, said, known, verdict>> /\ step' = step
        /\ halted' \in BOOLEAN
    BY <1>1, <1>6 DEF lab1Vars, Lab1Types
  <2>. QED BY <1>2, <1>3, <2>1, StaysInCall
<1>. QED BY <1>4, <1>5, <1>6 DEF Deliver1

\* kalloc, with the pages of the server.
LEMMA Lab1Give ==
  ASSUME Lab1Inv, NEW c \in Cpu, Give(c)
  PROVE  Lab1Inv'
<1>1. IInv /\ CallInv /\ Link(c) /\ Allocated(c)
  BY DEF Lab1Inv, Give
<1>2. /\ Undisturbed(c) /\ pc[c] = "link" /\ pc'[c] = "idle"
      /\ \E o : live' = live \cup {o} /\ Keeps({o}, {})
  BY <1>1, LinkKeeps
<1>3. said[c] = Silent /\ Now(c).op = "alloc" /\ ~ Busy(c)
  BY <1>1, <1>2 DEF CallInv, Busy
<1>. QED BY <1>1, <1>2, <1>3, GetsObject

\* kfree, or p is NULL.
LEMMA Lab1Free ==
  ASSUME Lab1Inv, NEW c \in Cpu, Free1(c)
  PROVE  Lab1Inv'
<1>1. IInv /\ Ready(c, "free") /\ said[c] = Silent /\ Now(c).op = "free"
  BY DEF Lab1Inv, Free1, Ready
<1>2. CASE kept[c] = <<>>
  <2>1. pc[c] = "idle" /\ NoObject(c) /\ UNCHANGED vars
    BY <1>2 DEF Free1
  <2>2. Undisturbed(c) /\ pc' = pc /\ live' = live /\ Keeps({}, {})
    BY <1>1, <2>1, NothingKeeps
  <2>. QED BY <1>1, <2>1, <2>2, EndsEmpty DEF Busy
<1>3. CASE kept[c] # <<>>
  <2>1. Kfree(c, kept[c]) /\ UNCHANGED lab1Vars
    BY <1>3 DEF Free1
  <2>. QED BY <1>1, <1>3, <2>1, BeginsFree
<1>. QED BY <1>2, <1>3

\* kfree looks for its object.
LEMMA Lab1Receive ==
  ASSUME Lab1Inv, NEW c \in Cpu, Receive(c)
  PROVE  Lab1Inv'
<1>1. /\ IInv /\ Lab1Types /\ CallInv /\ HeldInv /\ Clear /\ Search(c)
      /\ IF pc'[c] = "idle" THEN Freed(c, kept[c]) ELSE UNCHANGED lab1Vars
  BY IsClear DEF Lab1Inv, Receive
<1>2. CASE pc'[c] # "idle"
  BY <1>1, <1>2, SearchesOn
<1>3. CASE pc'[c] = "idle"
  <2>1. /\ Undisturbed(c) /\ pc[c] = "search" /\ live' = live
        /\ \E o : InPools(o) /\ o[1] = ptr[c] /\ Keeps({}, {o})
    BY <1>1, <1>3, SearchKeeps
  <2>2. Has(c) /\ Busy(c)
    BY <1>1, <2>1, CallsAre DEF Busy
  <2>3. PICK o : o = kept[c]
    OBVIOUS
  <2>4. ptr[c] = o[1] /\ InPools(o) /\ o[1] < o[2]
    BY <1>1, <2>1, <2>2, <2>3 DEF HeldInv, Mine, Clear
  <2>5. \A u : InPools(u) /\ u[1] = ptr[c] => u = o
    BY <1>1, <2>4 DEF Clear, Overlap
  <2>6. Keeps({}, {o}) /\ {o} \subseteq {kept[c]}
    BY <2>1, <2>3, <2>5
  <2>. QED BY <1>1, <1>3, <2>1, <2>2, <2>6, EndsFree
<1>. QED BY <1>2, <1>3

\* kfree gives pages back.
LEMMA Lab1TakeBack ==
  ASSUME Lab1Inv, NEW c \in Cpu, TakeBack(c)
  PROVE  Lab1Inv'
<1>1. IInv /\ GiveBack(c) /\ Freed(c, kept[c])
  BY DEF Lab1Inv, TakeBack
<1>2. /\ Undisturbed(c) /\ pc[c] = "giveBack" /\ pc'[c] = "idle" /\ live' = live
      /\ Keeps({}, {})
  BY <1>1, GiveBackKeeps
<1>3. {} \subseteq {kept[c]} /\ Busy(c)
  BY <1>2 DEF Busy
<1>. QED BY <1>1, <1>2, <1>3, EndsFree

\* The end of the loop of os_run.
LEMMA Lab1Again ==
  ASSUME Lab1Inv, NEW c \in Cpu, Again(c)
  PROVE  Lab1Inv'
<1>1. /\ IInv /\ Lab1Types /\ said[c] = Silent /\ Now(c).op = "again" /\ pc[c] = "idle"
      /\ step' = [step EXCEPT ![c] = 1] /\ halted' = failed[c] /\ UNCHANGED vars
      /\ UNCHANGED <<test, kept, failed, said, known, verdict>>
  BY DEF Lab1Inv, Again, Ready
<1>2. Undisturbed(c) /\ pc' = pc /\ live' = live /\ Keeps({}, {})
  BY <1>1, NothingKeeps
<1>3. halted' \in BOOLEAN
  BY <1>1 DEF Lab1Types
<1>. QED BY <1>1, <1>2, <1>3, StaysInCall DEF Busy

\* Nothing happens.
LEMMA Lab1Stutters == ASSUME Lab1Inv, UNCHANGED allVars PROVE Lab1Inv'
<1>1. /\ IInv /\ Lab1Types /\ CallInv /\ HeldInv /\ SaidInv /\ TraceInv
      /\ UNCHANGED vars /\ UNCHANGED lab1Vars
  BY DEF Lab1Inv, allVars
<1>2. /\ test' = test /\ step' = step /\ kept' = kept /\ failed' = failed /\ said' = said
      /\ known' = known /\ verdict' = verdict /\ halted' = halted
  BY <1>1 DEF lab1Vars
<1>3. PICK c : c \in Cpu
  BY CountAssumption DEF Cpu
<1>4. Undisturbed(c) /\ pc' = pc /\ live' = live /\ Keeps({}, {})
  BY <1>1, <1>3, NothingKeeps
<1>5. IInv' /\ OthersStay(c)
  BY <1>2, <1>4 DEF Keeps, OthersStay
<1>6. Lab1Types'
  BY <1>1, <1>2 DEF Lab1Types
<1>7. CallInv'
  <2>1. Now(c)' = Now(c)
    BY <1>2 DEF Now
  <2>2. /\ pc'[c] \in {"fetch", "link"} => Now(c)'.op = "alloc"
        /\ pc'[c] \in {"search", "giveBack"} => Now(c)'.op = "free" /\ kept'[c] # <<>>
        /\ said'[c] # Silent => test' /\ pc'[c] = "idle" /\ said'[c].kind \in {"alloc", "free"}
    BY <1>1, <1>2, <1>3, <1>4, <2>1 DEF CallInv, Busy
  <2>. QED BY <1>1, <1>3, <1>5, <2>2, CallNext
<1>8. HeldInv' /\ SaidInv'
  <2>1. \A d \in Cpu : (Has(d)' <=> Has(d)) /\ (Has(d) => Mine(d)')
    <3>1. ptr' = ptr
      BY <1>1 DEF vars, callVars
    <3>. QED BY <1>1, <1>2, <1>4, <3>1, StillMine
  <2>. QED BY <1>1, <1>2, <1>4, <2>1 DEF HeldInv, SaidInv
<1>9. TraceInv'
  <2>1. /\ \A kind, u : u \in Unsaid(kind)' <=> u \in Unsaid(kind)
        /\ \A u : u \in Freeing' <=> u \in Freeing
    BY <1>1, <1>2, <1>3, <1>4, <1>5, MembersNext DEF Busy
  <2>. QED BY <1>1, <1>2, <1>4, <2>1, TraceNext
<1>. QED BY <1>5, <1>6, <1>7, <1>8, <1>9 DEF Lab1Inv

\* The first state.
LEMMA Lab1Initial == Lab1Init => Lab1Inv
<1> SUFFICES ASSUME Lab1Init PROVE Lab1Inv
  OBVIOUS
<1>1. IInv /\ live = {} /\ pc = [c \in Cpu |-> "idle"]
  BY Initial DEF Lab1Init, Init
<1>2. /\ test \in BOOLEAN /\ step = [c \in Cpu |-> 1] /\ kept = [c \in Cpu |-> <<>>]
      /\ failed = [c \in Cpu |-> FALSE] /\ said = [c \in Cpu |-> Silent]
      /\ known = {} /\ verdict = "none" /\ halted = FALSE /\ Silent.kind = "none"
  BY DEF Lab1Init, Silent
<1>3. 1 \in 1 .. Len(Script(test)) + 1
  <2>1. Len(Script(test)) \in Nat
    BY <1>2, ScriptAssumption
  <2>. QED BY <2>1
<1>4. Lab1Types
  BY <1>2, <1>3 DEF Lab1Types, Things, Lines
<1>5. CallInv /\ HeldInv /\ SaidInv
  BY <1>1, <1>2 DEF CallInv, HeldInv, SaidInv, Busy, Has
<1>6. TraceInv
  <2>1. Unsaid("free") = {} /\ Freeing = {}
    BY <1>1, <1>2, IsMembers DEF Members, Busy
  <2>. QED BY <1>1, <1>2, <2>1 DEF TraceInv
<1>. QED BY <1>1, <1>4, <1>5, <1>6 DEF Lab1Inv

\* The invariant of lab1 implies what the run checks.
LEMMA IsLab1Safe == ASSUME Lab1Inv PROVE Lab1Safe
<1>1. /\ IInv /\ Lab1Types /\ CallInv /\ HeldInv /\ SaidInv /\ TraceInv
      /\ Members /\ Clear
  BY IsMembers, IsClear DEF Lab1Inv
<1>2. Lab1TypeOK
  BY <1>1 DEF Lab1Types, Lab1TypeOK, Things, Lines
<1>3. TraceKnown
  BY <1>1 DEF Lab1Types, TraceInv, TraceKnown
<1>4. FalseAlarm
  <2> SUFFICES ASSUME NEW c \in Cpu, verdict = "none", said[c].kind = "alloc",
                      NEW u \in known, Overlap(said[c].object, u)
               PROVE  u \in Unsaid("free")
    BY DEF FalseAlarm
  <2>1. PICK o : o = said[c].object
    OBVIOUS
  <2>2. test /\ o \in live /\ InPools(o) /\ o \in Unsaid("alloc") /\ Overlap(o, u)
    BY <1>1, <2>1 DEF CallInv, SaidInv, Clear, Members, Silent
  <2>3. known = (live \ Unsaid("alloc")) \cup Unsaid("free") \cup Freeing
    BY <1>1, <2>2 DEF TraceInv
  <2>4. u \notin live \ Unsaid("alloc")
    BY <1>1, <2>2 DEF Clear
  <2>5. u \notin Freeing
    <3> SUFFICES ASSUME NEW d \in Cpu, Busy(d), kept[d] = u PROVE FALSE
      BY <1>1 DEF Members
    <3>1. Mine(d)
      BY <1>1, CallsAre DEF HeldInv
    <3>2. CASE pc[d] = "search"
      BY <1>1, <2>2, <3>1, <3>2 DEF Mine, Clear
    <3>3. CASE pc[d] = "giveBack"
      BY <1>1, <2>2, <3>1, <3>3 DEF Mine, Clear
    <3>. QED BY <3>2, <3>3 DEF Busy
  <2>. QED BY <2>3, <2>4, <2>5
<1>. QED BY <1>2, <1>3, <1>4 DEF Lab1Safe

------------------------------------------------------------------------------
(* The theorems of lab1.                                                    *)

\* It holds in every state, whatever the script.
LEMMA Lab1Invariant == Lab1Spec => []Lab1Inv
<1>1. Lab1Inv /\ [Lab1Next]_allVars => Lab1Inv'
  <2> SUFFICES ASSUME Lab1Inv, [Lab1Next]_allVars PROVE Lab1Inv'
    OBVIOUS
  <2>1. CASE UNCHANGED allVars
    BY <2>1, Lab1Stutters
  <2>2. ASSUME NEW c \in Cpu, \/ Alloc(c) \/ Deliver1(c) \/ Give(c) \/ Free1(c) \/ Receive(c)
                              \/ TakeBack(c) \/ Again(c) \/ Printf(c)
        PROVE  Lab1Inv'
    BY <2>2, Lab1Alloc, Lab1Deliver, Lab1Give, Lab1Free, Lab1Receive, Lab1TakeBack,
       Lab1Again, Lab1Printf
  <2>. QED BY <2>1, <2>2 DEF Lab1Next
<1>. QED BY <1>1, Lab1Initial, PTL DEF Lab1Spec

\* The checker of testforlab1 complains neither of alignment nor of a free, and of an
\* overlap only where an object has been freed by a CPU that has yet to say so; its
\* list is what the CPUs of os_run have, but for the lines that are still to come.
THEOREM TraceSound == Lab1Spec => []Lab1Safe
<1>1. Lab1Inv => Lab1Safe
  BY IsLab1Safe
<1>. QED BY <1>1, Lab1Invariant, PTL

\* What holds of the manager under any callers holds under os_run, whatever sizes
\* its script asks for and although the machine may halt in the middle of a call.
THEOREM Lab1Memory ==
  Lab1Spec => [](/\ TypeOK /\ ObjectsApart /\ OwnedOnce
                 /\ ServerCoalesced /\ PoolPagesUsed /\ FreeFinds)
<1>1. Lab1Inv => /\ TypeOK /\ ObjectsApart /\ OwnedOnce
                 /\ ServerCoalesced /\ PoolPagesUsed /\ FreeFinds
  BY IsTypeOK, IsObjectsApart, IsOwnedOnce, IsServerCoalesced, IsPoolPagesUsed DEF Lab1Inv
<1>. QED BY <1>1, Lab1Invariant, PTL
==============================================================================
