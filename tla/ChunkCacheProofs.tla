-------------------------- MODULE ChunkCacheProofs --------------------------
(***************************************************************************)
(* Proofs about the chunk cache (module ChunkCache), for all paths,        *)
(* offsets, sizes and times. Sums over the list and the rounds of the      *)
(* eviction loop are recursive functions; that they exist, and what they   *)
(* compute, is shown by induction with sets of numbers (NatSet).           *)
(***************************************************************************)
EXTENDS ChunkCache, FiniteSetTheorems, SequenceTheorems, TLAPS

\* What is known between two calls: the type, the bytes of the nodes against
\* logLen, and one node for a chunk.
Inv == TypeOK /\ LogLenCoversList /\ NoDoubleEntry

-----------------------------------------------------------------------------
(***************************************************************************)
(* Induction, with a set in the place of the predicate: mapping each       *)
(* number of the set below n to the next would otherwise be an injection   *)
(* of a finite set into itself that misses 0.                              *)
(***************************************************************************)
LEMMA NatSet ==
    ASSUME NEW S \in SUBSET Nat, 0 \in S, \A n \in S : n + 1 \in S
    PROVE  S = Nat
<1> SUFFICES ASSUME NEW n \in Nat, n \notin S PROVE FALSE
  OBVIOUS
<1> DEFINE A == S \cap (0 .. n)
           f == [x \in A |-> x + 1]
<1>1. IsFiniteSet(A)
  <2>1. IsFiniteSet(0 .. n)
    BY FS_Interval
  <2>2. A \in SUBSET (0 .. n)
    OBVIOUS
  <2> QED
    BY <2>1, <2>2, FS_Subset
<1>2. \A x \in A : x + 1 \in A
  <2> SUFFICES ASSUME NEW x \in A PROVE x + 1 \in A
    OBVIOUS
  <2>1. x \in S /\ x \in Nat /\ x <= n /\ x + 1 \in S
    OBVIOUS
  <2>2. x # n
    BY <2>1
  <2> QED
    BY <2>1, <2>2
<1>3. f \in Injection(A, A)
  <2>1. f \in [A -> A]
    BY <1>2
  <2>2. \A x, y \in A : f[x] = f[y] => x = y
    OBVIOUS
  <2> QED
    BY <2>1, <2>2 DEF Injection, IsInjective
<1>4. f \in Surjection(A, A)
  BY <1>1, <1>3, FS_Injection
<1>5. 0 \in A
  OBVIOUS
<1>6. PICK x \in A : f[x] = 0
  BY <1>4, <1>5 DEF Surjection
<1> QED
  BY <1>6

-----------------------------------------------------------------------------
(***************************************************************************)
(* Sums.                                                                   *)
(***************************************************************************)
\* The partial sums of w
IsSum(s, w) ==
    /\ s \in [0 .. Len(w) -> Int] /\ s[0] = 0
    /\ \A n \in 1 .. Len(w) : s[n] = s[n - 1] + w[n]

\* The recursive function of Total exists and is what it says.
LEMMA TotalSums ==
    ASSUME NEW w \in Seq(Int)
    PROVE  \E s : IsSum(s, w) /\ Total(w) = s[Len(w)]
<1> DEFINE N == Len(w)
           Sums(s, n) == s = [m \in 0 .. n |-> IF m = 0 THEN 0 ELSE s[m - 1] + w[m]]
           S == {n \in Nat : n <= N => \E s \in [0 .. n -> Int] : Sums(s, n)}
<1>1. N \in Nat /\ \A n \in 1 .. N : w[n] \in Int
  OBVIOUS
<1>2. 0 \in S
  <2> DEFINE s == [m \in 0 .. 0 |-> 0]
  <2>1. s \in [0 .. 0 -> Int] /\ Sums(s, 0)
    OBVIOUS
  <2> QED
    BY <2>1
<1>3. ASSUME NEW n \in S PROVE n + 1 \in S
  <2> HIDE DEF Sums
  <2> SUFFICES ASSUME n + 1 <= N
               PROVE \E s \in [0 .. n + 1 -> Int] : Sums(s, n + 1)
    OBVIOUS
  <2> USE DEF Sums
  <2>1. n \in Nat /\ n <= N
    BY <1>1
  <2>2. PICK s \in [0 .. n -> Int] : Sums(s, n)
    BY <2>1
  <2> DEFINE t == [m \in 0 .. n + 1 |-> IF m <= n THEN s[m] ELSE s[n] + w[n + 1]]
  <2>3. n \in 0 .. n /\ s[n] \in Int /\ w[n + 1] \in Int
    BY <1>1, <2>1
  <2>4. t \in [0 .. n + 1 -> Int]
    BY <2>1, <2>3
  <2>5. ASSUME NEW m \in 0 .. n + 1
        PROVE  t[m] = IF m = 0 THEN 0 ELSE t[m - 1] + w[m]
    <3>1. CASE m = 0
      <4>1. s[0] = 0 /\ 0 \in 0 .. n + 1
        BY <2>1, <2>2
      <4> QED
        BY <2>1, <3>1, <4>1
    <3>2. CASE m \in 1 .. n
      <4>1. t[m] = s[m] /\ t[m - 1] = s[m - 1] /\ m \in 0 .. n /\ m # 0
        BY <2>1, <3>2
      <4>2. s[m] = s[m - 1] + w[m]
        BY <2>2, <4>1
      <4> QED
        BY <4>1, <4>2
    <3>3. CASE m = n + 1
      BY <2>1, <3>3
    <3> QED
      BY <2>1, <3>1, <3>2, <3>3
  <2>6. Sums(t, n + 1)
    BY <2>4, <2>5
  <2> HIDE DEF Sums, t
  <2> QED
    BY <2>4, <2>6
<1>4. N \in S
  <2> HIDE DEF S
  <2> QED
    BY <1>1, <1>2, <1>3, NatSet DEF S
<1>5. PICK r : Sums(r, N)
  BY <1>1, <1>4
<1> DEFINE s == CHOOSE sum : Sums(sum, N)
<1>6. Sums(s, N)
  BY <1>5
<1>7. Total(w) = s[N]
  BY DEF Total
<1> HIDE DEF s
<1>8. s[0] = 0 /\ \A n \in 1 .. N : s[n] = s[n - 1] + w[n]
  BY <1>1, <1>6
<1> DEFINE T == {n \in Nat : n <= N => s[n] \in Int}
<1>9. T = Nat
  <2>1. 0 \in T
    BY <1>8
  <2>2. ASSUME NEW n \in T PROVE n + 1 \in T
    <3> SUFFICES ASSUME n + 1 <= N PROVE s[n + 1] \in Int
      OBVIOUS
    <3>1. s[n] \in Int /\ n + 1 \in 1 .. N /\ w[n + 1] \in Int
      BY <1>1
    <3>2. s[n + 1] = s[(n + 1) - 1] + w[n + 1]
      BY <1>8, <3>1
    <3> QED
      BY <3>1, <3>2
  <2> HIDE DEF T
  <2> QED
    BY <2>1, <2>2, NatSet DEF T
<1>10. s \in [0 .. N -> Int]
  <2>1. \A m \in 0 .. N : s[m] \in Int
    BY <1>1, <1>9
  <2>2. s = [m \in 0 .. N |-> s[m]]
    BY <1>6
  <2> QED
    BY <2>1, <2>2
<1> QED
  BY <1>7, <1>8, <1>10 DEF IsSum

LEMMA SumStep ==
    ASSUME NEW w \in Seq(Int), NEW s, IsSum(s, w), NEW n \in Nat, n + 1 <= Len(w)
    PROVE  /\ s[n + 1] = s[n] + w[n + 1]
           /\ s[n] \in Int /\ w[n + 1] \in Int /\ s[n + 1] \in Int
<1>1. /\ n \in 0 .. Len(w) /\ n + 1 \in 1 .. Len(w) /\ n + 1 \in 0 .. Len(w)
      /\ (n + 1) - 1 = n
  OBVIOUS
<1>2. w[n + 1] \in Int
  BY <1>1, ElementOfSeq
<1>3. s \in [0 .. Len(w) -> Int] /\ s[n + 1] = s[(n + 1) - 1] + w[n + 1]
  BY <1>1 DEF IsSum
<1>4. s[n] \in Int /\ s[n + 1] \in Int
  BY <1>1, <1>3
<1> QED
  BY <1>1, <1>2, <1>3, <1>4

LEMMA SumLeq ==
    ASSUME NEW x \in Int, NEW y \in Int, NEW z \in Int, x + y <= z,
           NEW p \in Int, NEW q \in Int, NEW r \in Int, p + q <= r
    PROVE  (x + p) + (y + q) <= z + r
OBVIOUS

\* The parts of the numbers of a sequence, summed, are part of its sum.
LEMMA TotalSplit ==
    ASSUME NEW w \in Seq(Int), NEW u \in Seq(Int), NEW v \in Seq(Int),
           Len(u) = Len(w), Len(v) = Len(w),
           \A n \in 1 .. Len(w) : u[n] + v[n] <= w[n]
    PROVE  Total(u) + Total(v) <= Total(w)
<1> DEFINE N == Len(w)
<1>1. PICK s : IsSum(s, w) /\ Total(w) = s[N]
  BY TotalSums
<1>2. PICK a : IsSum(a, u) /\ Total(u) = a[N]
  BY TotalSums
<1>3. PICK b : IsSum(b, v) /\ Total(v) = b[N]
  BY TotalSums
<1> DEFINE S == {n \in Nat : n <= N => a[n] + b[n] <= s[n]}
<1>4. N \in Nat
  OBVIOUS
<1>5. 0 \in S
  BY <1>1, <1>2, <1>3 DEF IsSum
<1>6. ASSUME NEW n \in S PROVE n + 1 \in S
  <2> SUFFICES ASSUME n + 1 <= N PROVE a[n + 1] + b[n + 1] <= s[n + 1]
    OBVIOUS
  <2>1. n \in Nat /\ n + 1 <= Len(u) /\ n + 1 <= Len(v) /\ n + 1 <= Len(w)
        /\ a[n] + b[n] <= s[n] /\ u[n + 1] + v[n + 1] <= w[n + 1]
    BY <1>4
  <2>2. /\ s[n + 1] = s[n] + w[n + 1] /\ s[n] \in Int /\ w[n + 1] \in Int
    BY <1>1, <2>1, SumStep
  <2>3. a[n + 1] = a[n] + u[n + 1] /\ a[n] \in Int /\ u[n + 1] \in Int
    BY <1>2, <2>1, SumStep
  <2>4. b[n + 1] = b[n] + v[n + 1] /\ b[n] \in Int /\ v[n + 1] \in Int
    BY <1>3, <2>1, SumStep
  <2>5. (a[n] + u[n + 1]) + (b[n] + v[n + 1]) <= s[n] + w[n + 1]
    BY <2>1, <2>2, <2>3, <2>4, SumLeq
  <2> QED
    BY <2>2, <2>3, <2>4, <2>5
<1>7. N \in S
  <2> HIDE DEF S
  <2> QED
    BY <1>4, <1>5, <1>6, NatSet DEF S
<1> QED
  BY <1>1, <1>2, <1>3, <1>4, <1>7

LEMMA TotalType ==
    ASSUME NEW w \in Seq(Int) PROVE Total(w) \in Int
BY TotalSums DEF IsSum

LEMMA TotalNonneg ==
    ASSUME NEW w \in Seq(Nat) PROVE Total(w) \in Nat
<1> DEFINE N == Len(w)
<1>1. w \in Seq(Int) /\ N \in Nat /\ \A n \in 1 .. N : w[n] \in Nat
  BY SeqMonotonic
<1>2. PICK s : IsSum(s, w) /\ Total(w) = s[N]
  BY <1>1, TotalSums
<1> DEFINE S == {n \in Nat : n <= N => s[n] >= 0}
<1>3. 0 \in S
  BY <1>2 DEF IsSum
<1>4. ASSUME NEW n \in S PROVE n + 1 \in S
  <2> SUFFICES ASSUME n + 1 <= N PROVE s[n + 1] >= 0
    OBVIOUS
  <2>1. n \in Nat /\ n \in 0 .. N /\ n + 1 \in 1 .. N /\ (n + 1) - 1 = n /\ s[n] >= 0
    BY <1>1
  <2>2. s[n + 1] = s[n] + w[n + 1] /\ s[n] \in Int /\ w[n + 1] \in Nat
    BY <1>1, <1>2, <2>1 DEF IsSum
  <2> QED
    BY <2>1, <2>2
<1>5. N \in S
  <2> HIDE DEF S
  <2> QED
    BY <1>1, <1>3, <1>4, NatSet DEF S
<1> QED
  BY <1>1, <1>2, <1>5 DEF IsSum

\* Sums that begin alike go on alike as long as the numbers do.
LEMMA SumsAgree ==
    ASSUME NEW u \in Seq(Int), NEW v \in Seq(Int), NEW a, IsSum(a, u), NEW b, IsSum(b, v),
           NEW m \in Nat, m <= Len(u), m <= Len(v),
           \A n \in 1 .. m : u[n] = v[n]
    PROVE  a[m] = b[m]
<1> DEFINE S == {n \in Nat : n <= m => a[n] = b[n]}
<1>1. 0 \in S
  BY DEF IsSum
<1>2. ASSUME NEW n \in S PROVE n + 1 \in S
  <2> SUFFICES ASSUME n + 1 <= m PROVE a[n + 1] = b[n + 1]
    OBVIOUS
  <2>1. /\ n \in Nat /\ n + 1 \in 1 .. m /\ (n + 1) - 1 = n /\ a[n] = b[n]
        /\ n + 1 \in 1 .. Len(u) /\ n + 1 \in 1 .. Len(v)
    OBVIOUS
  <2> QED
    BY <2>1 DEF IsSum
<1> HIDE DEF S
<1>3. m \in S
  BY <1>1, <1>2, NatSet DEF S
<1> QED
  BY <1>3 DEF S

LEMMA TotalAppend ==
    ASSUME NEW w \in Seq(Int), NEW x \in Int
    PROVE  Total(Append(w, x)) = Total(w) + x
<1> DEFINE v == Append(w, x)
           N == Len(w)
<1>1. v \in Seq(Int) /\ Len(v) = N + 1 /\ N \in Nat /\ v[N + 1] = x
      /\ \A n \in 1 .. N : v[n] = w[n]
  OBVIOUS
<1>2. PICK a : IsSum(a, w) /\ Total(w) = a[N]
  BY TotalSums
<1>3. PICK b : IsSum(b, v) /\ Total(v) = b[N + 1]
  BY <1>1, TotalSums
<1>4. a[N] = b[N]
  <2>1. N <= Len(w) /\ N <= Len(v) /\ \A n \in 1 .. N : w[n] = v[n]
    BY <1>1
  <2> HIDE DEF N, v
  <2> QED
    BY <1>1, <1>2, <1>3, <2>1, SumsAgree
<1>5. b[N + 1] = b[N] + x
  <2>1. N + 1 \in 1 .. Len(v) /\ (N + 1) - 1 = N
    BY <1>1
  <2> QED
    BY <1>1, <1>3, <2>1 DEF IsSum
<1> QED
  BY <1>2, <1>3, <1>4, <1>5

LEMMA TotalEmpty == Total(<<>>) = 0
<1>1. PICK s : IsSum(s, <<>>) /\ Total(<<>>) = s[Len(<<>>)]
  BY TotalSums, EmptySeq
<1> QED
  BY <1>1, EmptySeq DEF IsSum

\* A sequence without one of its elements.
LEMMA RemoveAtFacts ==
    ASSUME NEW T, NEW l \in Seq(T), NEW i \in 1 .. Len(l)
    PROVE  /\ RemoveAt(l, i) \in Seq(T) /\ Len(RemoveAt(l, i)) = Len(l) - 1
           /\ \A k \in 1 .. Len(l) - 1 :
                 RemoveAt(l, i)[k] = IF k < i THEN l[k] ELSE l[k + 1]
<1> DEFINE a == SubSeq(l, 1, i - 1)
           b == SubSeq(l, i + 1, Len(l))
<1>1. Len(l) \in Nat /\ i \in Nat /\ i >= 1 /\ i <= Len(l)
  OBVIOUS
<1>2. a \in Seq(T) /\ Len(a) = i - 1 /\ \A k \in 1 .. i - 1 : a[k] = l[k]
  <2>1. \A k \in 1 .. i - 1 : l[k] \in T
    BY <1>1
  <2>2. /\ a \in Seq(T)
        /\ Len(a) = IF 1 <= i - 1 THEN (i - 1) - 1 + 1 ELSE 0
        /\ \A k \in 1 .. (i - 1) - 1 + 1 : a[k] = l[1 + k - 1]
    BY <1>1, <2>1, SubSeqProperties
  <2> QED
    BY <1>1, <2>2
<1>3. b \in Seq(T) /\ Len(b) = Len(l) - i /\ \A k \in 1 .. Len(l) - i : b[k] = l[i + k]
  <2>1. \A k \in i + 1 .. Len(l) : l[k] \in T
    BY <1>1
  <2>2. /\ b \in Seq(T)
        /\ Len(b) = IF i + 1 <= Len(l) THEN Len(l) - (i + 1) + 1 ELSE 0
        /\ \A k \in 1 .. Len(l) - (i + 1) + 1 : b[k] = l[(i + 1) + k - 1]
    BY <1>1, <2>1, SubSeqProperties
  <2>3. \A k \in 1 .. Len(l) - i : b[k] = l[i + k]
    <3> SUFFICES ASSUME NEW k \in 1 .. Len(l) - i PROVE b[k] = l[i + k]
      OBVIOUS
    <3>1. k \in 1 .. Len(l) - (i + 1) + 1 /\ (i + 1) + k - 1 = i + k
      BY <1>1
    <3> QED
      BY <2>2, <3>1
  <2> QED
    BY <1>1, <2>2, <2>3
<1>4. RemoveAt(l, i) = a \o b
  BY DEF RemoveAt
<1> HIDE DEF a, b
<1>5. /\ a \o b \in Seq(T) /\ Len(a \o b) = Len(a) + Len(b)
      /\ \A k \in 1 .. Len(a) + Len(b) :
            (a \o b)[k] = IF k <= Len(a) THEN a[k] ELSE b[k - Len(a)]
  BY <1>2, <1>3, ConcatProperties
<1>6. ASSUME NEW k \in 1 .. Len(l) - 1
      PROVE  (a \o b)[k] = IF k < i THEN l[k] ELSE l[k + 1]
  <2>1. CASE k < i
    BY <1>1, <1>2, <1>3, <1>5, <2>1
  <2>2. CASE ~(k < i)
    <3>1. k \in 1 .. Len(a) + Len(b) /\ ~(k <= Len(a)) /\ k - Len(a) \in 1 .. Len(l) - i
          /\ i + (k - Len(a)) = k + 1
      BY <1>1, <1>2, <1>3, <2>2
    <3>2. (a \o b)[k] = b[k - Len(a)] /\ b[k - Len(a)] = l[i + (k - Len(a))]
      BY <1>3, <1>5, <3>1
    <3> QED
      BY <2>2, <3>1, <3>2
  <2> QED
    BY <2>1, <2>2
<1> QED
  BY <1>1, <1>2, <1>3, <1>4, <1>5, <1>6

LEMMA TotalRemoveAt ==
    ASSUME NEW w \in Seq(Int), NEW i \in 1 .. Len(w)
    PROVE  Total(RemoveAt(w, i)) = Total(w) - w[i]
<1> DEFINE v == RemoveAt(w, i)
           N == Len(w)
<1>1. /\ v \in Seq(Int) /\ Len(v) = N - 1 /\ N \in Nat /\ i \in Nat /\ i >= 1 /\ i <= N
      /\ \A k \in 1 .. N - 1 : v[k] = IF k < i THEN w[k] ELSE w[k + 1]
      /\ \A k \in 1 .. N : w[k] \in Int
  BY RemoveAtFacts
<1> HIDE DEF v
<1>2. PICK a : IsSum(a, w) /\ Total(w) = a[N]
  BY TotalSums
<1>3. PICK b : IsSum(b, v) /\ Total(v) = b[N - 1]
  BY <1>1, TotalSums
<1>4. b[i - 1] = a[i - 1]
  <2>1. /\ i - 1 \in Nat /\ i - 1 <= Len(w) /\ i - 1 <= Len(v)
    BY <1>1
  <2>2. ASSUME NEW n \in 1 .. i - 1 PROVE v[n] = w[n]
    <3>1. n \in 1 .. N - 1 /\ n < i
      BY <1>1
    <3> QED
      BY <1>1, <3>1
  <2> DEFINE m == i - 1
  <2>3. m \in Nat /\ m <= Len(w) /\ m <= Len(v) /\ \A n \in 1 .. m : w[n] = v[n]
    BY <2>1, <2>2
  <2> HIDE DEF m
  <2>4. a[m] = b[m]
    <3>1. v \in Seq(Int) /\ IsSum(a, w) /\ IsSum(b, v)
      BY <1>1, <1>2, <1>3
    <3> QED
      BY <2>3, <3>1, SumsAgree
  <2> QED
    BY <2>4 DEF m
<1> DEFINE S == {n \in Nat : n >= i - 1 /\ n <= N - 1 => b[n] = a[n + 1] - w[i]}
<1>5. ASSUME NEW n \in Nat, n = i - 1 PROVE b[n] = a[n + 1] - w[i]
  <2>1. n + 1 = i /\ n + 1 \in 1 .. N /\ (n + 1) - 1 = n /\ n \in 0 .. N
    BY <1>1, <1>5
  <2>2. a[n + 1] = a[n] + w[n + 1] /\ a[n] \in Int /\ w[n + 1] \in Int
    BY <1>1, <1>2, <2>1 DEF IsSum
  <2> QED
    BY <1>4, <1>5, <2>1, <2>2
<1>6. 0 \in S
  BY <1>1, <1>5
<1>7. ASSUME NEW n \in S PROVE n + 1 \in S
  <2> SUFFICES ASSUME n + 1 >= i - 1, n + 1 <= N - 1
               PROVE  b[n + 1] = a[(n + 1) + 1] - w[i]
    OBVIOUS
  <2>1. CASE n + 1 = i - 1
    <3>1. n + 1 \in Nat
      OBVIOUS
    <3> QED
      BY <1>5, <2>1, <3>1
  <2>2. CASE n + 1 # i - 1
    <3>1. /\ n \in Nat /\ n >= i - 1 /\ n <= N - 1 /\ n + 1 \in 1 .. N - 1 /\ ~(n + 1 < i)
          /\ (n + 1) - 1 = n /\ (n + 1) + 1 \in 1 .. N /\ ((n + 1) + 1) - 1 = n + 1
          /\ n + 1 \in 0 .. N
      BY <1>1, <2>2
    <3>2. b[n] = a[n + 1] - w[i]
      BY <3>1
    <3>3. b[n + 1] = b[n] + v[n + 1] /\ v[n + 1] = w[(n + 1) + 1]
      BY <1>1, <1>3, <3>1 DEF IsSum
    <3>4. a[(n + 1) + 1] = a[n + 1] + w[(n + 1) + 1]
      BY <1>2, <3>1 DEF IsSum
    <3>5. a[n + 1] \in Int /\ w[(n + 1) + 1] \in Int /\ w[i] \in Int
      BY <1>1, <1>2, <3>1 DEF IsSum
    <3> QED
      BY <3>2, <3>3, <3>4, <3>5
  <2> QED
    BY <2>1, <2>2
<1>8. N - 1 \in S
  <2>1. N - 1 \in Nat
    BY <1>1
  <2> HIDE DEF S
  <2>2. S = Nat
    BY <1>6, <1>7, NatSet DEF S
  <2> QED
    BY <2>1, <2>2
<1>9. b[N - 1] = a[(N - 1) + 1] - w[i] /\ (N - 1) + 1 = N
  BY <1>1, <1>8
<1> QED
  BY <1>2, <1>3, <1>9 DEF v

-----------------------------------------------------------------------------
(***************************************************************************)
(* Nodes and what they weigh.                                              *)
(***************************************************************************)
LEMMA LeastNumber ==
    ASSUME NEW A \in SUBSET Nat, A # {}
    PROVE  \E m \in A : \A x \in A : m <= x
<1> SUFFICES ASSUME \A m \in A : \E x \in A : x < m PROVE FALSE
  OBVIOUS
<1> DEFINE S == {n \in Nat : \A x \in A : n <= x}
<1>1. 0 \in S
  OBVIOUS
<1>2. ASSUME NEW n \in S PROVE n + 1 \in S
  <2> SUFFICES ASSUME NEW x \in A PROVE n + 1 <= x
    OBVIOUS
  <2>1. PICK y \in A : y < x
    OBVIOUS
  <2>2. n \in Nat /\ x \in Nat /\ y \in Nat /\ n <= y
    OBVIOUS
  <2> QED
    BY <2>1, <2>2
<1>3. S = Nat
  <2> HIDE DEF S
  <2> QED
    BY <1>1, <1>2, NatSet DEF S
<1>4. PICK m : m \in A
  OBVIOUS
<1>5. m \in Nat /\ m + 1 \in Nat
  BY <1>4
<1>6. m + 1 <= m
  BY <1>3, <1>4, <1>5
<1> QED
  BY <1>5, <1>6

\* A list that is not empty has a least recently used node.
LEMMA LeastFacts ==
    ASSUME NEW l \in Seq(Node), l # <<>>
    PROVE  /\ Least(l) \in 1 .. Len(l)
           /\ \A j \in 1 .. Len(l) :
                 \/ l[Least(l)].lastUse < l[j].lastUse
                 \/ l[Least(l)].lastUse = l[j].lastUse /\ Least(l) <= j
<1>1. /\ Len(l) \in Nat /\ Len(l) >= 1 /\ DOMAIN l = 1 .. Len(l)
      /\ \A j \in 1 .. Len(l) : l[j].lastUse \in Nat
  <2>1. \A j \in 1 .. Len(l) : l[j] \in Node
    OBVIOUS
  <2> QED
    BY <2>1, EmptySeq, CacheAssumption DEF Node
<1> DEFINE A == {l[j].lastUse : j \in 1 .. Len(l)}
<1>2. PICK m \in A : \A x \in A : m <= x
  <2>1. 1 \in 1 .. Len(l)
    BY <1>1
  <2>2. A \in SUBSET Nat /\ l[1].lastUse \in A
    BY <1>1, <2>1
  <2> HIDE DEF A
  <2> QED
    BY <2>2, LeastNumber
<1> DEFINE B == {j \in 1 .. Len(l) : l[j].lastUse = m}
<1>3. PICK i \in B : \A j \in B : i <= j
  <2>1. B # {} /\ B \in SUBSET Nat
    BY <1>2
  <2> QED
    BY <2>1, LeastNumber
<1>4. \A j \in DOMAIN l : \/ l[i].lastUse < l[j].lastUse
                          \/ l[i].lastUse = l[j].lastUse /\ i <= j
  <2> SUFFICES ASSUME NEW j \in 1 .. Len(l), ~(m < l[j].lastUse)
               PROVE  m = l[j].lastUse /\ i <= j
    BY <1>1, <1>3
  <2>1. m <= l[j].lastUse /\ m \in Nat /\ l[j].lastUse \in Nat
    BY <1>1, <1>2
  <2>2. m = l[j].lastUse
    BY <2>1
  <2> QED
    BY <1>3, <2>2
<1>5. \E k \in DOMAIN l : \A j \in DOMAIN l : \/ l[k].lastUse < l[j].lastUse
                                              \/ l[k].lastUse = l[j].lastUse /\ k <= j
  BY <1>1, <1>3, <1>4
<1>6. /\ Least(l) \in DOMAIN l
      /\ \A j \in DOMAIN l : \/ l[Least(l)].lastUse < l[j].lastUse
                             \/ l[Least(l)].lastUse = l[j].lastUse /\ Least(l) <= j
  BY <1>5 DEF Least
<1> QED
  BY <1>1, <1>6

Weight(n) == IF n.freed THEN 0 ELSE Bytes(n)

LEMMA WeightFacts ==
    ASSUME NEW n \in Node
    PROVE  Weight(n) \in Nat /\ Bytes(n) \in Nat
BY CacheAssumption DEF Node, Weight, Bytes

LEMMA WeightsFacts ==
    ASSUME NEW l \in Seq(Node)
    PROVE  /\ Weights(l) \in Seq(Nat) /\ Weights(l) \in Seq(Int)
           /\ Len(Weights(l)) = Len(l)
           /\ \A i \in 1 .. Len(l) : Weights(l)[i] = Weight(l[i])
<1>1. Len(l) \in Nat /\ DOMAIN l = 1 .. Len(l) /\ \A i \in 1 .. Len(l) : l[i] \in Node
  OBVIOUS
<1>2. \A i \in 1 .. Len(l) : Weight(l[i]) \in Nat
  BY <1>1, WeightFacts
<1>3. Weights(l) = [i \in 1 .. Len(l) |-> Weight(l[i])]
  BY <1>1 DEF Weights, Weight
<1>4. Weights(l) \in Seq(Nat) /\ Len(Weights(l)) = Len(l)
  BY <1>1, <1>2, <1>3
<1> QED
  BY <1>3, <1>4, SeqMonotonic

LEMMA WeightsAppend ==
    ASSUME NEW l \in Seq(Node), NEW n \in Node
    PROVE  Total(Weights(Append(l, n))) = Total(Weights(l)) + Weight(n)
<1>1. /\ Append(l, n) \in Seq(Node) /\ Len(Append(l, n)) = Len(l) + 1
      /\ Append(l, n)[Len(l) + 1] = n
      /\ \A i \in 1 .. Len(l) : Append(l, n)[i] = l[i]
  OBVIOUS
<1>2. Weight(n) \in Int /\ Weights(l) \in Seq(Int) /\ Len(Weights(l)) = Len(l) /\ Len(l) \in Nat
  BY WeightFacts, WeightsFacts
<1>3. Weights(Append(l, n)) = Append(Weights(l), Weight(n))
  <2> DEFINE u == Weights(Append(l, n))
             v == Append(Weights(l), Weight(n))
  <2>1. /\ u \in Seq(Int) /\ Len(u) = Len(l) + 1
        /\ \A i \in 1 .. Len(l) + 1 : u[i] = Weight(Append(l, n)[i])
    BY <1>1, WeightsFacts
  <2>2. /\ v \in Seq(Int) /\ Len(v) = Len(l) + 1 /\ v[Len(l) + 1] = Weight(n)
        /\ \A i \in 1 .. Len(l) : v[i] = Weights(l)[i]
    BY <1>2
  <2>3. \A i \in 1 .. Len(l) + 1 : u[i] = v[i]
    <3> SUFFICES ASSUME NEW i \in 1 .. Len(l) + 1 PROVE u[i] = v[i]
      OBVIOUS
    <3> HIDE DEF u, v
    <3>1. CASE i = Len(l) + 1
      BY <1>1, <2>1, <2>2, <3>1
    <3>2. CASE i # Len(l) + 1
      <4>1. i \in 1 .. Len(l)
        BY <1>2, <3>2
      <4> QED
        BY <1>1, <2>1, <2>2, <4>1, WeightsFacts
    <3> QED
      BY <3>1, <3>2
  <2> HIDE DEF u, v
  <2>4. u = v
    BY <2>1, <2>2, <2>3, SeqEqual
  <2> QED
    BY <2>4 DEF u, v
<1> QED
  BY <1>2, <1>3, TotalAppend

LEMMA WeightsRemoveAt ==
    ASSUME NEW l \in Seq(Node), NEW i \in 1 .. Len(l)
    PROVE  Total(Weights(RemoveAt(l, i))) = Total(Weights(l)) - Weight(l[i])
<1> DEFINE r == RemoveAt(l, i)
           w == Weights(l)
           u == Weights(r)
           v == RemoveAt(w, i)
<1>1. /\ r \in Seq(Node) /\ Len(r) = Len(l) - 1
      /\ \A k \in 1 .. Len(l) - 1 : r[k] = IF k < i THEN l[k] ELSE l[k + 1]
  BY RemoveAtFacts
<1>2. w \in Seq(Int) /\ Len(w) = Len(l) /\ \A k \in 1 .. Len(l) : w[k] = Weight(l[k])
  BY WeightsFacts
<1>3. u \in Seq(Int) /\ Len(u) = Len(l) - 1 /\ \A k \in 1 .. Len(l) - 1 : u[k] = Weight(r[k])
  BY <1>1, WeightsFacts
<1> HIDE DEF r, w
<1>4. /\ v \in Seq(Int) /\ Len(v) = Len(l) - 1
      /\ \A k \in 1 .. Len(l) - 1 : v[k] = IF k < i THEN w[k] ELSE w[k + 1]
  BY <1>2, RemoveAtFacts
<1> HIDE DEF u, v
<1>5. ASSUME NEW k \in 1 .. Len(l) - 1 PROVE u[k] = v[k]
  <2>1. k \in 1 .. Len(l) /\ k + 1 \in 1 .. Len(l)
    BY <1>1
  <2> QED
    BY <1>1, <1>2, <1>3, <1>4, <2>1
<1>6. u = v
  BY <1>3, <1>4, <1>5, SeqEqual
<1>7. Total(v) = Total(w) - w[i]
  BY <1>2, TotalRemoveAt DEF v
<1> QED
  BY <1>2, <1>6, <1>7 DEF u, w, r

-----------------------------------------------------------------------------
(***************************************************************************)
(* The eviction loop.                                                      *)
(***************************************************************************)
State == [list : Seq(Node), log : Nat, crashed : BOOLEAN]

Start == [list |-> list, log |-> logLen, crashed |-> FALSE]

\* What a round keeps: nodes of the list, none twice, none freed, log no less
\* than what they hold; and of nodes in the order they came in, the last.
Kept(c) ==
    /\ c \in State
    /\ c.log <= logLen /\ Total(Weights(c.list)) <= c.log
    /\ \A k \in DOMAIN c.list :
          ~c.list[k].freed /\ \E i \in DOMAIN list : c.list[k] = list[i]
    /\ \A j, k \in DOMAIN c.list :
          j # k => ~SameKey(c.list[j], c.list[k].name, c.list[k].offset)
    /\ InOrder(list) =>
          InOrder(c.list) /\ (c.list # <<>> => Last(c.list) = Last(list))

LEMMA StartKept ==
    ASSUME Inv, \A i \in DOMAIN list : ~list[i].freed
    PROVE  Kept(Start)
BY DEF Inv, TypeOK, LogLenCoversList, NoDoubleEntry, Live, State, Start, Kept

\* The list without one of its nodes.
LEMMA WithoutOne ==
    ASSUME NEW l \in Seq(Node), NEW i \in 1 .. Len(l)
    PROVE  /\ RemoveAt(l, i) \in Seq(Node)
           /\ DOMAIN RemoveAt(l, i) = 1 .. Len(l) - 1
           /\ \A k \in 1 .. Len(l) - 1 :
                 \E j \in 1 .. Len(l) : j # i /\ RemoveAt(l, i)[k] = l[j]
           /\ \A j \in 1 .. Len(l) : j # i =>
                 \E k \in 1 .. Len(l) - 1 : RemoveAt(l, i)[k] = l[j]
           /\ \A j, k \in 1 .. Len(l) - 1 : j # k =>
                 \E x, y \in 1 .. Len(l) :
                    x # y /\ RemoveAt(l, i)[j] = l[x] /\ RemoveAt(l, i)[k] = l[y]
<1> DEFINE r == RemoveAt(l, i)
           At(k) == IF k < i THEN k ELSE k + 1
<1>1. /\ r \in Seq(Node) /\ Len(r) = Len(l) - 1
      /\ \A k \in 1 .. Len(l) - 1 : r[k] = IF k < i THEN l[k] ELSE l[k + 1]
      /\ Len(l) \in Nat /\ i \in Nat /\ i >= 1 /\ i <= Len(l)
  BY RemoveAtFacts
<1> HIDE DEF r
<1>2. DOMAIN r = 1 .. Len(l) - 1
  BY <1>1
<1>3. ASSUME NEW k \in 1 .. Len(l) - 1
      PROVE  At(k) \in 1 .. Len(l) /\ At(k) # i /\ r[k] = l[At(k)]
  BY <1>1
<1>4. ASSUME NEW j \in 1 .. Len(l), j # i
      PROVE  \E k \in 1 .. Len(l) - 1 : r[k] = l[j]
  <2>1. CASE j < i
    <3>1. j \in 1 .. Len(l) - 1 /\ r[j] = l[j]
      BY <1>1, <2>1
    <3> QED
      BY <3>1
  <2>2. CASE ~(j < i)
    <3>1. j - 1 \in 1 .. Len(l) - 1 /\ ~(j - 1 < i) /\ (j - 1) + 1 = j
      BY <1>1, <1>4, <2>2
    <3>2. r[j - 1] = l[j]
      BY <1>1, <3>1
    <3> QED
      BY <3>1, <3>2
  <2> QED
    BY <2>1, <2>2
<1>5. ASSUME NEW j \in 1 .. Len(l) - 1, NEW k \in 1 .. Len(l) - 1, j # k
      PROVE  At(j) # At(k)
  BY <1>1, <1>5
<1> HIDE DEF At
<1>6. ASSUME NEW j \in 1 .. Len(l) - 1, NEW k \in 1 .. Len(l) - 1, j # k
      PROVE  \E x, y \in 1 .. Len(l) : x # y /\ r[j] = l[x] /\ r[k] = l[y]
  BY <1>3, <1>5, <1>6
<1>7. \A k \in 1 .. Len(l) - 1 : \E j \in 1 .. Len(l) : j # i /\ r[k] = l[j]
  BY <1>3
<1> QED
  BY <1>1, <1>2, <1>4, <1>6, <1>7 DEF r

\* No subtraction from log wraps round.
LEMMA NoWrap ==
    ASSUME NEW x \in Nat, NEW y \in Nat, y <= x, x <= logLen, TypeOK
    PROVE  (x - y) % SizeMod = x - y /\ x - y \in Nat /\ x - y <= logLen
<1>1. logLen \in Nat /\ logLen < SizeMod /\ SizeMod \in Nat
  BY CacheAssumption DEF TypeOK
<1>2. x - y \in 0 .. SizeMod - 1
  BY <1>1
<1> QED
  BY <1>1, <1>2

\* Of nodes in the order they came in the first goes.
LEMMA FirstGoes ==
    ASSUME NEW l \in Seq(Node), l # <<>>, InOrder(l)
    PROVE  /\ Least(l) = 1
           /\ InOrder(RemoveAt(l, 1))
           /\ RemoveAt(l, 1) # <<>> => Last(RemoveAt(l, 1)) = Last(l)
<1> DEFINE r == RemoveAt(l, 1)
           i == Least(l)
<1>1. /\ Len(l) \in Nat /\ Len(l) >= 1 /\ 1 \in 1 .. Len(l) /\ DOMAIN l = 1 .. Len(l)
      /\ \A j \in 1 .. Len(l) : l[j].lastUse \in Nat
  <2>1. \A j \in 1 .. Len(l) : l[j] \in Node
    OBVIOUS
  <2> QED
    BY <2>1, EmptySeq, CacheAssumption DEF Node
<1>2. \A j, k \in 1 .. Len(l) : j <= k => l[j].lastUse <= l[k].lastUse
  BY <1>1 DEF InOrder
<1>3. i \in 1 .. Len(l) /\ (l[i].lastUse < l[1].lastUse \/ i <= 1)
  BY <1>1, LeastFacts
<1>4. /\ r \in Seq(Node) /\ Len(r) = Len(l) - 1 /\ DOMAIN r = 1 .. Len(l) - 1
      /\ \A k \in 1 .. Len(l) - 1 : r[k] = l[k + 1]
  <2>1. /\ r \in Seq(Node) /\ Len(r) = Len(l) - 1
        /\ \A k \in 1 .. Len(l) - 1 : r[k] = IF k < 1 THEN l[k] ELSE l[k + 1]
    BY <1>1, RemoveAtFacts
  <2> HIDE DEF r
  <2> QED
    BY <1>1, <2>1
<1> HIDE DEF r, i
<1>5. i = 1
  <2>1. l[1].lastUse <= l[i].lastUse /\ l[1].lastUse \in Nat /\ l[i].lastUse \in Nat
    BY <1>1, <1>2, <1>3
  <2> QED
    BY <1>1, <1>3, <2>1
<1>6. InOrder(r)
  <2> SUFFICES ASSUME NEW j \in 1 .. Len(l) - 1, NEW k \in 1 .. Len(l) - 1, j <= k
               PROVE  r[j].lastUse <= r[k].lastUse
    BY <1>4 DEF InOrder
  <2>1. j + 1 \in 1 .. Len(l) /\ k + 1 \in 1 .. Len(l) /\ j + 1 <= k + 1
    BY <1>1
  <2> QED
    BY <1>2, <1>4, <2>1
<1>7. ASSUME r # <<>> PROVE Last(r) = Last(l)
  <2>1. Len(r) >= 1
    BY <1>4, <1>7, EmptySeq
  <2>2. Len(l) - 1 \in 1 .. Len(l) - 1 /\ (Len(l) - 1) + 1 = Len(l)
    BY <1>1, <1>4, <2>1
  <2>3. r[Len(l) - 1] = l[Len(l)]
    BY <1>4, <2>2
  <2> QED
    BY <1>4, <2>3 DEF Last
<1> QED
  BY <1>5, <1>6, <1>7 DEF r, i

\* deleteLRUNode takes the bytes of the node that goes, and of nodes in the
\* order they came in the first.
LEMMA DeleteKept ==
    ASSUME TypeOK, NEW c, Kept(c), c.list # <<>>
    PROVE  Kept(DeleteLRUNode(c))
<1> DEFINE l == c.list
           i == Least(l)
           r == RemoveAt(l, i)
           log == (c.log - Bytes(l[i])) % SizeMod
           d == [list |-> r, log |-> log, crashed |-> c.crashed]
<1>1. /\ l \in Seq(Node) /\ c.log \in Nat /\ c.crashed \in BOOLEAN
      /\ c = [list |-> l, log |-> c.log, crashed |-> c.crashed]
  BY DEF Kept, State
<1>2. i \in 1 .. Len(l)
  BY <1>1, LeastFacts
<1>3. DeleteLRUNode(c) = d
  <2>1. DeleteLRUNode(c) = [c EXCEPT !.list = RemoveAt(@, i),
                                     !.log = (@ - Bytes(c.list[i])) % SizeMod]
    BY DEF DeleteLRUNode
  <2> HIDE DEF i
  <2> QED
    BY <1>1, <2>1
<1>4. d.list = r /\ d.log = log /\ d.crashed = c.crashed
  OBVIOUS
<1> HIDE DEF i, r, log
<1>5. /\ r \in Seq(Node) /\ DOMAIN r = 1 .. Len(l) - 1
      /\ \A k \in 1 .. Len(l) - 1 : \E j \in 1 .. Len(l) : j # i /\ r[k] = l[j]
      /\ \A j \in 1 .. Len(l) : j # i => \E k \in 1 .. Len(l) - 1 : r[k] = l[j]
      /\ \A j, k \in 1 .. Len(l) - 1 : j # k =>
            \E x, y \in 1 .. Len(l) : x # y /\ r[j] = l[x] /\ r[k] = l[y]
  BY <1>1, <1>2, WithoutOne DEF r
<1>6. log \in Nat /\ log <= logLen /\ Total(Weights(r)) <= log
  <2>1. Total(Weights(r)) = Total(Weights(l)) - Weight(l[i])
    BY <1>1, <1>2, WeightsRemoveAt DEF r
  <2>2. Weight(l[i]) = Bytes(l[i]) /\ Bytes(l[i]) \in Nat
    BY <1>1, <1>2, WeightFacts DEF Kept, Weight
  <2>3. Total(Weights(r)) \in Nat /\ Total(Weights(l)) \in Nat
    BY <1>1, <1>5, WeightsFacts, TotalNonneg
  <2>4. Total(Weights(l)) <= c.log /\ c.log <= logLen
    BY DEF Kept
  <2>5. Bytes(l[i]) <= c.log
    BY <1>1, <2>1, <2>2, <2>3, <2>4
  <2>6. log = c.log - Bytes(l[i]) /\ log \in Nat /\ log <= logLen
    BY <1>1, <2>2, <2>4, <2>5, NoWrap DEF log
  <2> QED
    BY <1>1, <2>1, <2>2, <2>3, <2>4, <2>6
<1>7. ASSUME NEW k \in DOMAIN r
      PROVE  ~r[k].freed /\ \E j \in DOMAIN list : r[k] = list[j]
  <2>1. PICK j \in 1 .. Len(l) : r[k] = l[j]
    BY <1>5
  <2>2. j \in DOMAIN l
    BY <1>1
  <2> QED
    BY <2>1, <2>2 DEF Kept
<1>8. ASSUME NEW j \in DOMAIN r, NEW k \in DOMAIN r, j # k
      PROVE  ~SameKey(r[j], r[k].name, r[k].offset)
  <2>1. \A a, b \in 1 .. Len(l) - 1 : a # b =>
           \E x, y \in 1 .. Len(l) : x # y /\ r[a] = l[x] /\ r[b] = l[y]
    BY <1>5
  <2>2. j \in 1 .. Len(l) - 1 /\ k \in 1 .. Len(l) - 1 /\ j # k
    BY <1>5, <1>8
  <2> HIDE DEF l
  <2>3. \E x, y \in 1 .. Len(l) : x # y /\ r[j] = l[x] /\ r[k] = l[y]
    BY ONLY <2>1, <2>2
  <2>4. PICK x, y \in 1 .. Len(l) : x # y /\ r[j] = l[x] /\ r[k] = l[y]
    BY ONLY <2>3
  <2> QED
    BY <1>1, <2>4 DEF Kept, l
<1>9. ASSUME InOrder(list)
      PROVE  InOrder(r) /\ (r # <<>> => Last(r) = Last(list))
  <2>1. InOrder(l) /\ Last(l) = Last(list)
    BY <1>9 DEF Kept
  <2>2. /\ i = 1 /\ InOrder(RemoveAt(l, 1))
        /\ RemoveAt(l, 1) # <<>> => Last(RemoveAt(l, 1)) = Last(l)
    BY <1>1, <2>1, FirstGoes DEF i
  <2> QED
    BY <2>1, <2>2 DEF r
<1>10. d \in State
  BY <1>1, <1>5, <1>6 DEF State
<1> HIDE DEF d
<1> QED
  BY <1>3, <1>4, <1>6, <1>7, <1>8, <1>9, <1>10 DEF Kept

LEMMA RoundKept ==
    ASSUME TypeOK, NEW c, Kept(c), NEW size
    PROVE  Kept(Round(c, size))
<1>1. CASE Round(c, size) = c
  BY <1>1
<1>2. CASE Round(c, size) = DeleteLRUNode(c) /\ c.list # <<>>
  BY <1>2, DeleteKept
<1>3. CASE Round(c, size) = DeleteLRUNode(c) /\ c.list = <<>>
  <2> DEFINE d == [c EXCEPT !.crashed = TRUE]
  <2>1. Round(c, size) = d
    BY <1>3 DEF DeleteLRUNode
  <2>2. d \in State /\ d.list = c.list /\ d.log = c.log
    BY DEF Kept, State
  <2> QED
    BY <2>1, <2>2 DEF Kept
<1> QED
  BY <1>1, <1>2, <1>3 DEF Round

\* The loop exists as a recursive function, and keeps what a round keeps.
LEMMA MakeRoomKept ==
    ASSUME Inv, \A i \in DOMAIN list : ~list[i].freed, NEW size
    PROVE  Kept(MakeRoom(size))
<1> DEFINE N == Len(list) + 1
           Runs(f, n) == f = [m \in 0 .. n |-> IF m = 0 THEN Start ELSE Round(f[m - 1], size)]
           S == {n \in Nat : \E f : Runs(f, n)}
<1>1. N \in Nat /\ TypeOK
  BY DEF Inv, TypeOK
<1>2. 0 \in S
  <2> DEFINE f == [m \in 0 .. 0 |-> Start]
  <2>1. Runs(f, 0)
    OBVIOUS
  <2> QED
    BY <2>1
<1>3. ASSUME NEW n \in S PROVE n + 1 \in S
  <2>1. n \in Nat /\ n + 1 \in Nat
    OBVIOUS
  <2>2. PICK f : Runs(f, n)
    OBVIOUS
  <2> DEFINE g == [m \in 0 .. n + 1 |-> IF m <= n THEN f[m] ELSE Round(f[n], size)]
  <2>3. ASSUME NEW m \in 0 .. n + 1
        PROVE  g[m] = IF m = 0 THEN Start ELSE Round(g[m - 1], size)
    <3>1. CASE m = 0
      <4>1. 0 <= n /\ 0 \in 0 .. n /\ 0 \in 0 .. n + 1
        BY <2>1
      <4>2. f[0] = Start
        BY <2>2, <4>1
      <4> QED
        BY <3>1, <4>1, <4>2
    <3>2. CASE m \in 1 .. n
      <4>1. m \in 0 .. n /\ m # 0 /\ m <= n /\ m - 1 \in 0 .. n + 1 /\ m - 1 <= n
        BY <2>1, <3>2
      <4>2. f[m] = Round(f[m - 1], size)
        BY <2>2, <4>1
      <4> QED
        BY <4>1, <4>2
    <3>3. CASE m = n + 1
      <4>1. ~(m <= n) /\ m # 0 /\ m - 1 = n /\ n <= n /\ n \in 0 .. n + 1
        BY <2>1, <3>3
      <4> QED
        BY <4>1
    <3> QED
      BY <2>1, <3>1, <3>2, <3>3
  <2>4. Runs(g, n + 1)
    BY <2>3
  <2> HIDE DEF Runs, g
  <2> QED
    BY <2>1, <2>4
<1>4. \E f : Runs(f, N)
  <2> HIDE DEF S, Runs
  <2>1. S = Nat
    <3>1. S \in SUBSET Nat
      BY DEF S
    <3> QED
      BY <1>2, <1>3, <3>1, NatSet
  <2> QED
    BY <1>1, <2>1 DEF S
<1> DEFINE after == CHOOSE f : Runs(f, N)
<1>5. Runs(after, N)
  BY <1>4
<1>6. MakeRoom(size) = after[N]
  BY DEF MakeRoom, Start
<1> HIDE DEF after
<1>7. after[0] = Start /\ \A n \in 1 .. N : after[n] = Round(after[n - 1], size)
  BY <1>1, <1>5
<1> HIDE DEF Runs, N
<1> DEFINE T == {n \in Nat : n <= N => Kept(after[n])}
<1>8. T = Nat
  <2>1. 0 \in T
    BY <1>7, StartKept
  <2>2. ASSUME NEW n \in T PROVE n + 1 \in T
    <3> SUFFICES ASSUME n + 1 <= N PROVE Kept(after[n + 1])
      OBVIOUS
    <3>1. n \in Nat /\ n <= N /\ n + 1 \in 1 .. N /\ (n + 1) - 1 = n
      BY <1>1
    <3>2. Kept(after[n]) /\ after[n + 1] = Round(after[n], size)
      BY <1>7, <3>1
    <3> QED
      BY <1>1, <3>2, RoundKept
  <2> HIDE DEF T
  <2>3. T \in SUBSET Nat
    BY DEF T
  <2> QED
    BY <2>1, <2>2, <2>3, NatSet
<1> QED
  BY <1>1, <1>6, <1>8

-----------------------------------------------------------------------------
(***************************************************************************)
(* The calls.                                                              *)
(***************************************************************************)
\* A chunk is cut only where the room was not computed to be less than nothing.
LEMMA RoomFacts ==
    ASSUME NEW log \in Nat, log <= MaxLogLen, NEW size \in Sizes
    PROVE  /\ size \in 1 .. MaxLen
           /\ size > Room(log) => /\ Room(log) = MaxLen - log - (NodeBytes + NameBytes)
                                  /\ Room(log) \in 0 .. MaxLen
<1> DEFINE d == MaxLen - log - (NodeBytes + NameBytes)
<1>1. /\ size \in 1 .. MaxLen /\ MaxLen \in Nat /\ NodeBytes \in Nat /\ NameBytes \in Nat
      /\ MaxLogLen \in Nat /\ SizeMod \in Nat /\ SizeMod > 0
      /\ SizeMod > 2 * (MaxLogLen + MaxLen + NodeBytes + NameBytes)
  BY CacheAssumption
<1>2. d \in Int /\ d <= MaxLen /\ d < SizeMod /\ d + SizeMod > MaxLen
  BY <1>1
<1>3. Room(log) = d % SizeMod
  BY DEF Room
<1> HIDE DEF d
<1>4. CASE d >= 0
  <2>1. d % SizeMod = d
    BY <1>1, <1>2, <1>4
  <2> QED
    BY <1>1, <1>2, <1>3, <1>4, <2>1 DEF d
<1>5. CASE d < 0
  <2>1. d % SizeMod = d + SizeMod
    BY <1>1, <1>2, <1>5
  <2> QED
    BY <1>1, <1>2, <1>3, <2>1
<1> QED
  BY <1>2, <1>4, <1>5

\* What the new node leaves: a list of what was there and of the chunk read.
LEMMA AppendNodeInv ==
    ASSUME NEW l \in Seq(Node), NEW log \in Nat, NEW p \in Path, NEW size \in Sizes,
           NEW o \in Offsets, NEW linked \in BOOLEAN,
           TypeOK, log <= MaxLogLen, Total(Weights(l)) <= log,
           \A k \in DOMAIN l : ~SameKey(l[k], p, o) /\ ~l[k].freed,
           \A j, k \in DOMAIN l : j # k => ~SameKey(l[j], l[k].name, l[k].offset),
           AppendNode(l, log, p, size, o, linked)
    PROVE  /\ list' \in Seq(Node)
           /\ logLen' \in 0 .. MaxLogLen + NodeBytes + NameBytes + MaxLen
           /\ LogLenCoversList' /\ NoDoubleEntry'
<1>1. /\ NodeBytes \in Nat /\ NameBytes \in Nat /\ MaxLen \in Nat /\ MaxLogLen \in Nat
      /\ MaxLen <= MaxLogLen /\ clock \in 0 .. MaxClock
      /\ size \in 1 .. MaxLen /\ Total(Weights(l)) \in Nat
  BY CacheAssumption, RoomFacts, WeightsFacts, TotalNonneg DEF TypeOK
<1>2. CASE size > Room(log)
  <2> DEFINE n == NewNode(p, Room(log), o)
  <2>1. Room(log) = MaxLen - log - (NodeBytes + NameBytes) /\ Room(log) \in 0 .. MaxLen
    BY <1>2, RoomFacts
  <2>2. n \in Node /\ n.freed = FALSE /\ n.size = Room(log) /\ SameKey(n, p, o)
    BY <1>1, <2>1 DEF NewNode, Node, SameKey
  <2>3. list' = <<n>> /\ logLen' = MaxLen
    BY <1>2 DEF AppendNode
  <2> HIDE DEF n
  <2>4. Weight(n) = MaxLen - log
    BY <1>1, <2>1, <2>2 DEF Weight, Bytes
  <2>5. list' = Append(<<>>, n) /\ <<>> \in Seq(Node)
    BY <2>2, <2>3
  <2>6. Total(Weights(list')) = Total(Weights(<<>>)) + Weight(n)
    BY <2>2, <2>5, WeightsAppend
  <2>7. Weights(<<>>) = <<>>
    BY DEF Weights
  <2>8. Total(Weights(list')) <= logLen'
    BY <1>1, <2>3, <2>4, <2>6, <2>7, TotalEmpty
  <2>9. DOMAIN list' = {1} /\ list'[1] = n
    BY <2>3
  <2>10. NoDoubleEntry'
    BY <2>9 DEF NoDoubleEntry, Live
  <2> QED
    BY <1>1, <2>2, <2>3, <2>5, <2>8, <2>9, <2>10 DEF LogLenCoversList
<1>3. CASE ~(size > Room(log)) /\ ~linked
  <2>1. list' = l /\ logLen' = log + NodeBytes + NameBytes + size
    BY <1>3 DEF AppendNode
  <2>2. LogLenCoversList'
    BY <1>1, <2>1 DEF LogLenCoversList
  <2> QED
    BY <1>1, <2>1, <2>2 DEF NoDoubleEntry, Live
<1>4. CASE ~(size > Room(log)) /\ linked
  <2> DEFINE n == NewNode(p, size, o)
  <2>1. n \in Node /\ n.freed = FALSE /\ n.size = size /\ SameKey(n, p, o)
    BY <1>1 DEF NewNode, Node, SameKey
  <2>2. list' = Append(l, n) /\ logLen' = log + NodeBytes + NameBytes + size
    BY <1>4 DEF AppendNode
  <2> HIDE DEF n
  <2>3. Weight(n) = NodeBytes + NameBytes + size
    BY <2>1 DEF Weight, Bytes
  <2>4. LogLenCoversList'
    <3>1. Total(Weights(list')) = Total(Weights(l)) + Weight(n)
      BY <2>1, <2>2, WeightsAppend
    <3> QED
      BY <1>1, <2>2, <2>3, <3>1 DEF LogLenCoversList
  <2>5. /\ list' \in Seq(Node) /\ DOMAIN list' = 1 .. Len(l) + 1 /\ Len(l) \in Nat
        /\ list'[Len(l) + 1] = n /\ \A k \in 1 .. Len(l) : list'[k] = l[k]
        /\ DOMAIN l = 1 .. Len(l)
    BY <2>1, <2>2
  <2>6. NoDoubleEntry'
    <3> SUFFICES ASSUME NEW j \in DOMAIN list', NEW k \in DOMAIN list', j # k
                 PROVE  ~SameKey(list'[j], list'[k].name, list'[k].offset)
      BY DEF NoDoubleEntry, Live
    <3>1. CASE j = Len(l) + 1
      <4>1. k \in DOMAIN l /\ list'[k] = l[k] /\ list'[j] = n
        BY <2>5, <3>1
      <4> QED
        BY <2>1, <4>1 DEF SameKey
    <3>2. CASE k = Len(l) + 1
      <4>1. j \in DOMAIN l /\ list'[j] = l[j] /\ list'[k] = n
        BY <2>5, <3>2
      <4> QED
        BY <2>1, <4>1 DEF SameKey
    <3>3. CASE j # Len(l) + 1 /\ k # Len(l) + 1
      BY <2>5, <3>3
    <3> QED
      BY <3>1, <3>2, <3>3
  <2>7. logLen' \in 0 .. MaxLogLen + NodeBytes + NameBytes + MaxLen
    BY <1>1, <2>2
  <2> QED
    BY <2>4, <2>5, <2>6, <2>7
<1> QED
  BY <1>2, <1>3, <1>4

\* A node of the list holds the chunk of p at o, or was made for it.
Holds(l, p, o) == \E i \in DOMAIN l : Covers(l[i], p, o) \/ SameKey(l[i], p, o)

\* What a read that misses does: it makes room and appends.
Appends(p, o, size) ==
    /\ \A i \in DOMAIN list : ~list[i].freed /\ ~SameKey(list[i], p, o)
    /\ status' = status
    /\ \E c \in State, linked \in BOOLEAN :
          /\ Kept(c) /\ AppendNode(c.list, c.log, p, size, o, linked)
          /\ linked \/ c.list = <<>> \/ Last(c.list) # Last(list)

\* A search that finds a node finds one that covers the offset.
LEMMA HitCovers ==
    ASSUME NEW p \in Path, NEW o \in Offsets, CheckInCache(p, o) # 0, TypeOK
    PROVE  Holds(list, p, o)
<1> DEFINE I == {i \in 1 .. Len(list) : Covers(list[i], p, o)}
           hit == CheckInCache(p, o)
<1>1. hit = IF I # {} THEN Min(I) ELSE 0
  BY DEF CheckInCache, SelectInSeq
<1>2. Len(list) \in Nat /\ DOMAIN list = 1 .. Len(list)
  BY DEF TypeOK
<1>3. I # {}
  BY <1>1
<1>4. PICK i \in 1 .. Len(list) : Covers(list[i], p, o)
  BY <1>3
<1> QED
  BY <1>2, <1>4 DEF Holds

LEMMA ReadCases ==
    ASSUME Inv, NEW p \in Path, NEW o \in Offsets, NEW size \in Sizes, Read(p, o, size)
    PROVE  /\ clock' = clock /\ status = "ok" /\ logLen <= MaxLogLen
           /\ \/ /\ UNCHANGED <<list, logLen>>
                 /\ status' \in {"ok", "useAfterFree", "nullPointer"}
                 /\ status' = "ok" => Holds(list, p, o)
              \/ Appends(p, o, size)
<1>1. clock' = clock /\ status = "ok" /\ logLen <= MaxLogLen
  BY DEF Read
<1> DEFINE hit == CheckInCache(p, o)
<1>2. CASE \E i \in Walked(hit) : list[i].freed
  BY <1>1, <1>2 DEF Read
<1>3. CASE hit # 0 /\ ~\E i \in Walked(hit) : list[i].freed
  <2>1. UNCHANGED <<list, logLen, status>>
    BY <1>3 DEF Read
  <2>2. Holds(list, p, o)
    BY <1>3, HitCovers DEF Inv
  <2> HIDE DEF hit
  <2> QED
    BY <1>1, <2>1, <2>2
<1>4. CASE hit = 0 /\ ~\E i \in Walked(hit) : list[i].freed
  <2>1. AddInCache(p, size, o) /\ \A i \in DOMAIN list : ~list[i].freed
    BY <1>4 DEF Read, Walked
  <2> HIDE DEF hit
  <2>2. CASE list = <<>>
    <3>1. /\ AppendNode(list, logLen, p, size, o, TRUE) /\ status' = status
          /\ Start.list = list /\ Start.log = logLen
      BY <2>1, <2>2 DEF AddInCache, Start
    <3>2. Kept(Start) /\ Start \in State
      BY <2>1, StartKept DEF Kept
    <3>3. \A i \in DOMAIN list : ~SameKey(list[i], p, o)
      BY <2>2
    <3> HIDE DEF Start
    <3> QED
      BY <1>1, <2>1, <3>1, <3>2, <3>3 DEF Appends
  <2>3. CASE list # <<>> /\ \E i \in DOMAIN list : SameKey(list[i], p, o)
    BY <1>1, <2>1, <2>3 DEF AddInCache, Holds
  <2>4. CASE list # <<>> /\ ~\E i \in DOMAIN list : SameKey(list[i], p, o)
    <3> DEFINE c == MakeRoom(size)
               linked == c.list # <<>> /\ Last(c.list) = Last(list)
    <3>1. /\ c.crashed => status' = "nullPointer" /\ UNCHANGED <<list, logLen>>
          /\ ~c.crashed => AppendNode(c.list, c.log, p, size, o, linked) /\ status' = status
      BY <2>1, <2>4 DEF AddInCache
    <3>2. Kept(c) /\ c \in State
      BY <2>1, MakeRoomKept DEF Kept
    <3> HIDE DEF c
    <3>3. linked \in BOOLEAN /\ (linked \/ c.list = <<>> \/ Last(c.list) # Last(list))
      OBVIOUS
    <3> HIDE DEF linked
    <3> QED
      BY <1>1, <2>1, <2>4, <3>1, <3>2, <3>3 DEF Appends
  <2> QED
    BY <2>2, <2>3, <2>4
<1> QED
  BY <1>2, <1>3, <1>4

\* The three properties only read list and logLen.
LEMMA Unread ==
    ASSUME Inv, UNCHANGED <<list, logLen>>,
           clock' \in 0 .. MaxClock, status' \in {"ok", "useAfterFree", "nullPointer"}
    PROVE  Inv'
BY DEF Inv, TypeOK, LogLenCoversList, NoDoubleEntry, Live

LEMMA ReadInv ==
    ASSUME Inv, NEW p \in Path, NEW o \in Offsets, NEW size \in Sizes, Read(p, o, size)
    PROVE  Inv'
<1>1. /\ clock' = clock /\ status = "ok" /\ logLen <= MaxLogLen
      /\ \/ UNCHANGED <<list, logLen>> /\ status' \in {"ok", "useAfterFree", "nullPointer"}
         \/ Appends(p, o, size)
  BY ReadCases
<1>2. clock' \in 0 .. MaxClock /\ TypeOK
  BY <1>1 DEF Inv, TypeOK
<1>3. CASE UNCHANGED <<list, logLen>> /\ status' \in {"ok", "useAfterFree", "nullPointer"}
  BY <1>2, <1>3, Unread
<1>4. CASE Appends(p, o, size)
  <2>1. PICK c \in State, linked \in BOOLEAN :
             Kept(c) /\ AppendNode(c.list, c.log, p, size, o, linked)
    BY <1>4 DEF Appends
  <2>2. c.list \in Seq(Node) /\ c.log \in Nat /\ c.log <= logLen /\ logLen \in Nat
        /\ Total(Weights(c.list)) <= c.log
    BY <1>2, <2>1 DEF Kept, State, TypeOK
  <2>3. c.log <= MaxLogLen
    BY <1>1, <2>2, CacheAssumption
  <2>4. \A k \in DOMAIN c.list : ~SameKey(c.list[k], p, o) /\ ~c.list[k].freed
    BY <1>4, <2>1 DEF Kept, Appends
  <2>5. \A j, k \in DOMAIN c.list :
           j # k => ~SameKey(c.list[j], c.list[k].name, c.list[k].offset)
    BY <2>1 DEF Kept
  <2>6. /\ list' \in Seq(Node)
        /\ logLen' \in 0 .. MaxLogLen + NodeBytes + NameBytes + MaxLen
        /\ LogLenCoversList' /\ NoDoubleEntry'
    BY <1>2, <2>1, <2>2, <2>3, <2>4, <2>5, AppendNodeInv
  <2>7. status' \in {"ok", "useAfterFree", "nullPointer"}
    BY <1>4, <1>2 DEF Appends, TypeOK
  <2> QED
    BY <1>2, <2>6, <2>7 DEF Inv, TypeOK
<1> QED
  BY <1>1, <1>3, <1>4

\* An unlink marks the nodes of the path and takes the first of them out.
LEMMA DeletePathFacts ==
    ASSUME TypeOK, NEW p \in Path, DeletePath(p), status' = "ok"
    PROVE  /\ status = "ok" /\ \A i \in DOMAIN list : ~list[i].freed
           /\ logLen' = logLen - Total(Taken(p))
           /\ Marked(p) \in Seq(Node) /\ Len(Marked(p)) = Len(list)
           /\ \A i \in 1 .. Len(list) :
                 /\ Marked(p)[i].freed = (list[i].name = p)
                 /\ Marked(p)[i].name = list[i].name
                 /\ Marked(p)[i].offset = list[i].offset
                 /\ Marked(p)[i].size = list[i].size
           /\ \/ list' = list /\ \A i \in 1 .. Len(list) : list[i].name # p
              \/ \E f \in 1 .. Len(list) : list[f].name = p /\ list' = RemoveAt(Marked(p), f)
<1> DEFINE first == SelectInSeq(list, LAMBDA n : n.name = p)
           M == Marked(p)
<1>1. /\ status = "ok" /\ \A i \in DOMAIN list : ~list[i].freed
      /\ logLen' = logLen - Total(Taken(p))
      /\ list' = IF first = 0 THEN list ELSE RemoveAt(M, first)
  BY DEF DeletePath
<1>2. list \in Seq(Node) /\ Len(list) \in Nat /\ DOMAIN list = 1 .. Len(list)
      /\ \A i \in 1 .. Len(list) : list[i] \in Node
  BY DEF TypeOK
<1>3. ASSUME NEW i \in 1 .. Len(list)
      PROVE  /\ M[i] \in Node /\ M[i].freed = (list[i].name = p) /\ M[i].name = list[i].name
             /\ M[i].offset = list[i].offset /\ M[i].size = list[i].size
  <2>1. M[i] = [list[i] EXCEPT !.freed = list[i].name = p]
    BY <1>2 DEF Marked
  <2>2. list[i] \in Node
    BY <1>2
  <2> QED
    BY <2>1, <2>2 DEF Node
<1>4. M = [i \in 1 .. Len(list) |-> M[i]]
  BY <1>2 DEF Marked
<1> HIDE DEF M
<1>5. M \in Seq(Node) /\ Len(M) = Len(list)
  BY <1>2, <1>3, <1>4
<1>6. \/ first = 0 /\ \A i \in 1 .. Len(list) : list[i].name # p
      \/ first \in 1 .. Len(list) /\ list[first].name = p
  <2> DEFINE I == {i \in 1 .. Len(list) : list[i].name = p}
  <2>1. first = IF I # {} THEN Min(I) ELSE 0
    BY DEF SelectInSeq
  <2>2. CASE I = {}
    BY <2>1, <2>2
  <2>3. CASE I # {}
    <3>1. I \in SUBSET Nat
      BY <1>2
    <3> HIDE DEF I
    <3>2. \E x \in I : \A y \in I : x =< y
      BY <2>3, <3>1, LeastNumber
    <3>3. first \in I
      BY <2>1, <2>3, <3>2 DEF Min
    <3> QED
      BY <3>3 DEF I
  <2> QED
    BY <2>2, <2>3
<1> HIDE DEF first
<1>7. \/ list' = list /\ \A i \in 1 .. Len(list) : list[i].name # p
      \/ \E f \in 1 .. Len(list) : list[f].name = p /\ list' = RemoveAt(M, f)
  BY <1>1, <1>6
<1> QED
  BY <1>1, <1>3, <1>5, <1>7 DEF M

LEMMA DeletePathInv ==
    ASSUME Inv, NEW p \in Path, DeletePath(p)
    PROVE  Inv'
<1>1. TypeOK /\ clock' = clock /\ clock' \in 0 .. MaxClock
  BY DEF Inv, TypeOK, DeletePath
<1>2. CASE status' # "ok"
  <2>1. status' = "useAfterFree" /\ UNCHANGED <<list, logLen>>
    BY <1>2 DEF DeletePath
  <2> QED
    BY <1>1, <2>1, Unread
<1>3. CASE status' = "ok"
  <2> DEFINE M == Marked(p)
             T == Taken(p)
             N == Len(list)
  <2>1. /\ \A i \in 1 .. N : ~list[i].freed
        /\ logLen' = logLen - Total(T)
        /\ M \in Seq(Node) /\ Len(M) = N
        /\ \A i \in 1 .. N : M[i].freed = (list[i].name = p) /\ M[i].name = list[i].name
                             /\ M[i].offset = list[i].offset /\ M[i].size = list[i].size
        /\ \/ list' = list /\ \A i \in 1 .. N : list[i].name # p
           \/ \E f \in 1 .. N : list[f].name = p /\ list' = RemoveAt(M, f)
    <3>1. DOMAIN list = 1 .. N
      BY <1>1 DEF TypeOK
    <3> QED
      BY <1>1, <1>3, <3>1, DeletePathFacts
  <2>2. /\ list \in Seq(Node) /\ N \in Nat /\ logLen \in Nat
        /\ \A i \in 1 .. N : list[i] \in Node /\ list[i].size \in Nat
        /\ NameBytes \in Nat /\ NodeBytes \in Nat
        /\ Total(Weights(list)) <= logLen
    <3>1. \A i \in 1 .. N : list[i] \in Node
      BY <1>1 DEF TypeOK
    <3> QED
      BY <1>1, <3>1, CacheAssumption DEF TypeOK, Inv, LogLenCoversList, Node
  <2>3. T \in Seq(Nat) /\ Len(T) = N
        /\ \A i \in 1 .. N : T[i] = IF list[i].name = p THEN NameBytes + list[i].size ELSE 0
    <3>1. T = [i \in 1 .. N |-> IF list[i].name = p THEN NameBytes + list[i].size ELSE 0]
      BY <2>2 DEF Taken
    <3>2. \A i \in 1 .. N : (IF list[i].name = p THEN NameBytes + list[i].size ELSE 0) \in Nat
      BY <2>2
    <3> HIDE DEF T, N
    <3> QED
      BY <2>2, <3>1, <3>2
  <2> HIDE DEF M, T, N
  <2>4. /\ Weights(list) \in Seq(Int) /\ Len(Weights(list)) = N
        /\ \A i \in 1 .. N : Weights(list)[i] = Weight(list[i])
        /\ Weights(M) \in Seq(Int) /\ Weights(M) \in Seq(Nat) /\ Len(Weights(M)) = N
        /\ \A i \in 1 .. N : Weights(M)[i] = Weight(M[i])
    BY <2>1, <2>2, WeightsFacts DEF N
  <2>5. Total(T) + Total(Weights(M)) <= Total(Weights(list))
    <3>1. ASSUME NEW i \in 1 .. N PROVE T[i] + Weights(M)[i] <= Weights(list)[i]
      <4>1. /\ Weight(list[i]) = NodeBytes + NameBytes + list[i].size
            /\ Weight(M[i]) = IF list[i].name = p THEN 0
                              ELSE NodeBytes + NameBytes + list[i].size
        BY <2>1 DEF Weight, Bytes
      <4>2. T[i] + Weight(M[i]) <= Weight(list[i])
        <5>1. list[i].size \in Nat /\ T[i] = IF list[i].name = p THEN NameBytes + list[i].size ELSE 0
          BY <2>2, <2>3
        <5>2. CASE list[i].name = p
          BY <2>2, <4>1, <5>1, <5>2
        <5>3. CASE list[i].name # p
          BY <2>2, <4>1, <5>1, <5>3
        <5> QED
          BY <5>2, <5>3
      <4> QED
        BY <2>4, <4>2
    <3>2. T \in Seq(Int)
      BY <2>3, SeqMonotonic
    <3> QED
      BY <2>3, <2>4, <3>1, <3>2, TotalSplit
  <2>6. /\ Total(T) \in Nat /\ Total(Weights(M)) \in Nat /\ Total(Weights(list)) \in Nat
    BY <2>2, <2>3, <2>4, TotalNonneg, WeightsFacts
  <2>7. logLen' \in 0 .. logLen /\ Total(Weights(M)) <= logLen'
    BY <2>1, <2>2, <2>5, <2>6
  <2>8. logLen' \in 0 .. MaxLogLen + NodeBytes + NameBytes + MaxLen
    BY <1>1, <2>2, <2>7, CacheAssumption DEF TypeOK
  <2>9. CASE list' = list /\ \A i \in 1 .. N : list[i].name # p
    <3>1. \A i \in 1 .. N : Weights(list)[i] = Weights(M)[i]
      BY <2>1, <2>4, <2>9 DEF Weight, Bytes
    <3>2. Weights(list) = Weights(M)
      BY <2>4, <3>1, SeqEqual
    <3>3. LogLenCoversList'
      BY <2>7, <2>9, <3>2 DEF LogLenCoversList
    <3>4. NoDoubleEntry'
      BY <2>9 DEF Inv, NoDoubleEntry, Live
    <3> QED
      BY <1>1, <1>3, <2>2, <2>8, <2>9, <3>3, <3>4 DEF Inv, TypeOK
  <2>10. CASE \E f \in 1 .. N : list[f].name = p /\ list' = RemoveAt(M, f)
    <3>1. PICK f \in 1 .. N : list[f].name = p /\ list' = RemoveAt(M, f)
      BY <2>10
    <3>2. /\ list' \in Seq(Node) /\ DOMAIN list' = 1 .. N - 1
          /\ \A j, k \in 1 .. N - 1 : j # k =>
                \E x, y \in 1 .. N : x # y /\ list'[j] = M[x] /\ list'[k] = M[y]
      <4>1. M \in Seq(Node) /\ f \in 1 .. Len(M) /\ Len(M) = N
        BY <2>1
      <4>2. /\ RemoveAt(M, f) \in Seq(Node) /\ DOMAIN RemoveAt(M, f) = 1 .. Len(M) - 1
            /\ \A j, k \in 1 .. Len(M) - 1 : j # k =>
                  \E x, y \in 1 .. Len(M) :
                     x # y /\ RemoveAt(M, f)[j] = M[x] /\ RemoveAt(M, f)[k] = M[y]
        BY <4>1, WithoutOne
      <4> QED
        BY <3>1, <4>1, <4>2
    <3>3. Total(Weights(list')) = Total(Weights(M)) - Weight(M[f])
      BY <2>1, <3>1, WeightsRemoveAt
    <3>4. Weight(M[f]) = 0
      BY <2>1, <3>1 DEF Weight
    <3>5. LogLenCoversList'
      BY <2>6, <2>7, <3>3, <3>4 DEF LogLenCoversList
    <3>6. NoDoubleEntry'
      <4> SUFFICES ASSUME NEW j \in DOMAIN list', NEW k \in DOMAIN list', j # k,
                          ~list'[j].freed, ~list'[k].freed
                   PROVE  ~SameKey(list'[j], list'[k].name, list'[k].offset)
        BY DEF NoDoubleEntry, Live
      <4>1. PICK x \in 1 .. N, y \in 1 .. N :
                 x # y /\ list'[j] = M[x] /\ list'[k] = M[y]
        BY <3>2
      <4>2. x \in Live /\ y \in Live
        BY <2>1, <2>2 DEF Live, N
      <4>3. ~SameKey(list[x], list[y].name, list[y].offset)
        BY <4>1, <4>2 DEF Inv, NoDoubleEntry
      <4> QED
        BY <2>1, <4>1, <4>3 DEF SameKey
    <3> QED
      BY <1>1, <1>3, <2>8, <3>2, <3>5, <3>6 DEF Inv, TypeOK
  <2> QED
    BY <2>1, <2>9, <2>10
<1> QED
  BY <1>2, <1>3

-----------------------------------------------------------------------------
(***************************************************************************)
(* The theorems.                                                           *)
(***************************************************************************)
LEMMA InitInv == Init => Inv
<1> SUFFICES ASSUME Init PROVE Inv
  OBVIOUS
<1>1. list = <<>> /\ logLen = 0 /\ clock = 0 /\ status = "ok"
  BY DEF Init
<1>2. TypeOK
  <2>1. MaxLogLen \in Nat /\ NodeBytes \in Nat /\ NameBytes \in Nat /\ MaxLen \in Nat
        /\ MaxClock \in Nat
    BY CacheAssumption
  <2>2. 0 \in 0 .. MaxLogLen + NodeBytes + NameBytes + MaxLen /\ 0 \in 0 .. MaxClock
    BY <2>1
  <2> QED
    BY <1>1, <2>2 DEF TypeOK
<1>3. Weights(list) = <<>>
  BY <1>1 DEF Weights
<1>4. LogLenCoversList
  BY <1>1, <1>3, TotalEmpty DEF LogLenCoversList
<1>5. NoDoubleEntry
  BY <1>1 DEF NoDoubleEntry, Live
<1> QED
  BY <1>2, <1>4, <1>5 DEF Inv

LEMMA NextInv == Inv /\ [Next]_vars => Inv'
<1> SUFFICES ASSUME Inv, [Next]_vars PROVE Inv'
  OBVIOUS
<1>1. ASSUME NEW p \in Path, NEW o \in Offsets, NEW size \in Sizes, Read(p, o, size)
      PROVE  Inv'
  BY <1>1, ReadInv
<1>2. ASSUME NEW p \in Path, DeletePath(p) PROVE Inv'
  BY <1>2, DeletePathInv
<1>3. ASSUME NEW t \in 0 .. MaxClock, SetClock(t) PROVE Inv'
  <2>1. UNCHANGED <<list, logLen, status>> /\ clock' \in 0 .. MaxClock
    BY <1>3 DEF SetClock
  <2> QED
    BY <2>1, Unread DEF Inv, TypeOK
<1>4. CASE UNCHANGED vars
  BY <1>4, Unread DEF vars, Inv, TypeOK
<1> QED
  BY <1>1, <1>2, <1>3, <1>4 DEF Next

\* The inductive invariant.
THEOREM Invariance == Spec => []Inv
BY InitInv, NextInv, PTL DEF Spec

\* Type correctness: logLen passes maxLen by no more than a header and a chunk
\* beyond the bound of the model, and never wraps round.
THEOREM TypeCorrect == Spec => []TypeOK
<1>1. Inv => TypeOK
  BY DEF Inv
<1> QED
  BY <1>1, Invariance, PTL

\* The list never holds more than logLen says: the subtractions of deleteLRUNode
\* and deletePath do not wrap round, for any sizes, offsets and times.
THEOREM CountCovers == Spec => []LogLenCoversList
<1>1. Inv => LogLenCoversList
  BY DEF Inv
<1> QED
  BY <1>1, Invariance, PTL

\* addInCache never makes a second node for a chunk, whatever was evicted or
\* unlinked before.
THEOREM NoDoubles == Spec => []NoDoubleEntry
<1>1. Inv => NoDoubleEntry
  BY DEF Inv
<1> QED
  BY <1>1, Invariance, PTL

\* As long as the nodes are in the order they came in, a read leaves the chunk
\* it brought in the list, however many it evicts, unless every node had to go.
THEOREM KeepsWhatIsRead == Spec => ReadIsKept
<1>1. ASSUME Inv, NEW p \in Path, NEW o \in Offsets, NEW size \in Sizes, Read(p, o, size),
             InOrder(list), status' = "ok", list' # <<>>
      PROVE  Holds(list', p, o)
  <2>1. \/ list' = list /\ Holds(list, p, o)
        \/ Appends(p, o, size)
    BY <1>1, ReadCases
  <2>2. CASE list' = list /\ Holds(list, p, o)
    BY <2>2
  <2>3. CASE Appends(p, o, size)
    <3>1. PICK c \in State, linked \in BOOLEAN :
               /\ Kept(c) /\ AppendNode(c.list, c.log, p, size, o, linked)
               /\ linked \/ c.list = <<>> \/ Last(c.list) # Last(list)
      BY <2>3 DEF Appends
    <3>2. c.list = <<>> \/ linked
      BY <1>1, <3>1 DEF Kept
    <3>3. c.list \in Seq(Node)
      BY <3>1 DEF State
    <3> DEFINE l == c.list
               n == NewNode(p, size, o)
               cut == NewNode(p, Room(c.log), o)
    <3>4. list' = <<cut>> \/ list' = Append(l, n) \/ (list' = l /\ ~linked)
      BY <3>1 DEF AppendNode
    <3>5. SameKey(n, p, o) /\ SameKey(cut, p, o)
      BY DEF NewNode, SameKey
    <3> HIDE DEF l, n, cut
    <3>6. CASE list' = <<cut>>
      <4>1. 1 \in DOMAIN list' /\ list'[1] = cut
        BY <3>6
      <4> QED
        BY <3>5, <4>1 DEF Holds
    <3>7. CASE list' = Append(l, n)
      <4>1. l \in Seq(Node) /\ Len(l) \in Nat
        BY <3>3 DEF l
      <4>2. Len(l) + 1 \in DOMAIN list' /\ list'[Len(l) + 1] = n
        BY <3>7, <4>1
      <4> QED
        BY <3>5, <4>2 DEF Holds
    <3>8. ~(list' = l /\ ~linked)
      BY <1>1, <3>2 DEF l
    <3> QED
      BY <3>4, <3>6, <3>7, <3>8
  <2> QED
    BY <2>1, <2>2, <2>3
<1> DEFINE Kept1 == \A p \in Path, o \in Offsets, size \in Sizes :
              Read(p, o, size) /\ InOrder(list) /\ status' = "ok" /\ list' # <<>> =>
                  \E i \in DOMAIN list' :
                     Covers(list'[i], p, o) \/ SameKey(list'[i], p, o)
<1>2. Inv => Kept1
  BY <1>1 DEF Holds
<1>3. Inv => [Kept1]_vars
  BY <1>2
<1> QED
  BY <1>3, Invariance, PTL DEF ReadIsKept

\* deletePath forgets a file that has at most one chunk in the cache: no node
\* of it stays, and no freed one.
THEOREM Forgets == Spec => UnlinkForgets
<1> DEFINE Forgotten == \A p \in Path :
              DeletePath(p) /\ status' = "ok" /\ Cardinality(NodesOf(p)) <= 1 =>
                  \A i \in DOMAIN list' : list'[i].name # p /\ ~list'[i].freed
<1>1. Inv => Forgotten
  <2> SUFFICES ASSUME Inv, NEW p \in Path, DeletePath(p), status' = "ok",
                      Cardinality(NodesOf(p)) <= 1, NEW i \in DOMAIN list'
               PROVE  list'[i].name # p /\ ~list'[i].freed
    OBVIOUS
  <2> DEFINE M == Marked(p)
  <2>1. TypeOK /\ list \in Seq(Node) /\ DOMAIN list = 1 .. Len(list) /\ Len(list) \in Nat
    BY DEF Inv, TypeOK
  <2>2. /\ \A j \in DOMAIN list : ~list[j].freed
        /\ M \in Seq(Node) /\ Len(M) = Len(list)
        /\ \A j \in 1 .. Len(list) : M[j].freed = (list[j].name = p) /\ M[j].name = list[j].name
        /\ \/ list' = list /\ \A j \in 1 .. Len(list) : list[j].name # p
           \/ \E f \in 1 .. Len(list) : list[f].name = p /\ list' = RemoveAt(M, f)
    BY <2>1, DeletePathFacts
  <2> HIDE DEF M
  <2>3. CASE list' = list /\ \A j \in 1 .. Len(list) : list[j].name # p
    BY <2>1, <2>2, <2>3
  <2>4. ASSUME NEW f \in 1 .. Len(list), list[f].name = p, list' = RemoveAt(M, f)
        PROVE  list'[i].name # p /\ ~list'[i].freed
    <3>1. /\ DOMAIN list' = 1 .. Len(M) - 1
          /\ \A k \in 1 .. Len(M) - 1 : \E j \in 1 .. Len(M) : j # f /\ list'[k] = M[j]
      <4>1. f \in 1 .. Len(M)
        BY <2>2
      <4>2. /\ DOMAIN RemoveAt(M, f) = 1 .. Len(M) - 1
            /\ \A k \in 1 .. Len(M) - 1 :
                  \E j \in 1 .. Len(M) : j # f /\ RemoveAt(M, f)[k] = M[j]
        BY <2>2, <4>1, WithoutOne
      <4> QED
        BY <2>4, <4>2
    <3>2. PICK j \in 1 .. Len(list) : j # f /\ list'[i] = M[j]
      BY <2>2, <3>1
    <3>3. list[j].name # p
      <4> SUFFICES ASSUME list[j].name = p PROVE FALSE
        OBVIOUS
      <4>1. IsFiniteSet(1 .. Len(list))
        BY <2>1, FS_Interval
      <4>2. NodesOf(p) \in SUBSET (1 .. Len(list)) /\ {f, j} \in SUBSET NodesOf(p)
        BY <2>1, <2>4 DEF NodesOf
      <4>3. IsFiniteSet(NodesOf(p))
        BY <4>1, <4>2, FS_Subset
      <4>4. IsFiniteSet({f, j}) /\ Cardinality({f, j}) = 2
        <5>1. {f, j} = {f} \cup {j} /\ j \notin {f}
          BY <3>2
        <5>2. IsFiniteSet({f}) /\ Cardinality({f}) = 1
          BY FS_Singleton
        <5>3. /\ IsFiniteSet({f} \cup {j})
              /\ Cardinality({f} \cup {j}) = Cardinality({f}) + 1
          BY <5>1, <5>2, FS_AddElement
        <5>4. {f} \cup {j} = {f, j} /\ 1 + 1 = 2
          OBVIOUS
        <5> QED
          BY <5>2, <5>3, <5>4
      <4>5. Cardinality({f, j}) <= Cardinality(NodesOf(p)) /\ Cardinality(NodesOf(p)) \in Nat
        BY <4>2, <4>3, FS_Subset, FS_CardinalityType
      <4> QED
        BY <4>4, <4>5
    <3> QED
      BY <2>2, <3>2, <3>3
  <2> QED
    BY <2>2, <2>3, <2>4
<1>2. Inv => [Forgotten]_vars
  BY <1>1
<1> QED
  BY <1>2, Invariance, PTL DEF UnlinkForgets
=============================================================================
