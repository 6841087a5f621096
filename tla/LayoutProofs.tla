--------------------------- MODULE LayoutProofs ---------------------------
(***************************************************************************)
(* Flat layouts of tensors.  The system of every list of unknowns and      *)
(* every jacobian: what is gathered is where it belongs, comes back as it  *)
(* was, and the matrix does to the columns what the jacobian does to the   *)
(* tensors.  STATEV of every set of history properties: a history that can *)
(* be stored comes back, in every process.  The arrays of a host: a call   *)
(* that returns has read and written the tensors they stand for.           *)
(***************************************************************************)
EXTENDS UnknownLayout, StateArrays, WellFoundedInduction, SequenceTheorems, FiniteSetTheorems, TLAPS

-----------------------------------------------------------------------------
(***************************************************************************)
(* Functions defined by recursion on their index.                          *)
(***************************************************************************)
LEMMA UpTo ==
  ASSUME NEW n \in Nat, NEW T, 0 \in T, \A i \in 0 .. n - 1 : i \in T => i + 1 \in T
  PROVE  \A i \in 0 .. n : i \in T
<1> DEFINE Bad == {i \in 0 .. n : i \notin T}
<1>1. SUFFICES ASSUME Bad # {} PROVE FALSE
  OBVIOUS
<1>2. Bad \subseteq Nat
  OBVIOUS
<1>3. PICK m \in Bad : \A y \in Bad : ~(<<y, m>> \in OpToRel(<, Nat))
  BY <1>1, <1>2, NatLessThanWellFounded, WFMin
<1>4. m # 0 /\ m \in 0 .. n /\ m \notin T
  OBVIOUS
<1>5. m - 1 \in 0 .. n - 1
  BY <1>4
<1>6. m - 1 \notin Bad
  <2>1. <<m - 1, m>> \in OpToRel(<, Nat)
    BY <1>4, <1>5 DEF OpToRel
  <2> QED
    BY <1>3, <2>1
<1> QED
  BY <1>4, <1>5, <1>6

Recursive(f, n, z, G) == f[0] = z /\ \A i \in 1 .. n : f[i] = G[<<i, f[i - 1]>>]

LEMMA RecursiveFunction ==
  ASSUME NEW n \in Nat, NEW S, NEW z \in S, NEW G \in [(1 .. n) \X S -> S]
  PROVE  \E f \in [0 .. n -> S] : Recursive(f, n, z, G)
<1> DEFINE Is(f, m) == f[0] = z /\ \A i \in 1 .. m : f[i] = G[<<i, f[i - 1]>>]
           T == {m \in 0 .. n : \E f \in [0 .. m -> S] : Is(f, m)}
<1>1. \E f \in [0 .. 0 -> S] : Is(f, 0)
  <2> DEFINE f == [i \in 0 .. 0 |-> z]
  <2>1. f \in [0 .. 0 -> S] /\ Is(f, 0)
    OBVIOUS
  <2> QED
    BY <2>1
<1>2. ASSUME NEW m \in 0 .. n - 1, NEW f \in [0 .. m -> S], Is(f, m)
      PROVE  \E h \in [0 .. m + 1 -> S] : Is(h, m + 1)
  <2> DEFINE h == [i \in 0 .. m + 1 |-> IF i = m + 1 THEN G[<<m + 1, f[m]>>] ELSE f[i]]
  <2>1. m \in Nat /\ m + 1 \in 1 .. n /\ f[m] \in S /\ 0 \in 0 .. m
    OBVIOUS
  <2>2. h \in [0 .. m + 1 -> S]
    BY <2>1
  <2>3. h[0] = z
    BY <1>2, <2>1
  <2>4. ASSUME NEW i \in 1 .. m + 1 PROVE h[i] = G[<<i, h[i - 1]>>]
    <3>1. CASE i = m + 1
      <4>1. h[i] = G[<<m + 1, f[m]>>] /\ h[i - 1] = f[m]
        BY <2>1, <3>1
      <4> QED
        BY <3>1, <4>1
    <3>2. CASE i \in 1 .. m
      <4>1. h[i] = f[i] /\ h[i - 1] = f[i - 1]
        BY <2>1, <3>2
      <4> QED
        BY <1>2, <3>2, <4>1
    <3> QED
      BY <2>1, <3>1, <3>2
  <2> HIDE DEF h
  <2> QED
    BY <2>2, <2>3, <2>4
<1> HIDE DEF Is
<1> HIDE DEF T
<1>3. 0 \in T /\ \A m \in 0 .. n - 1 : m \in T => m + 1 \in T
  BY <1>1, <1>2 DEF T
<1>4. n \in T
  BY <1>3, UpTo
<1> QED
  BY <1>4 DEF T, Is, Recursive


-----------------------------------------------------------------------------
(***************************************************************************)
(* Positions in a buffer: n = a * m + b with b below m.                    *)
(***************************************************************************)
LEMMA Division ==
  ASSUME NEW m \in Nat \ {0}, NEW a \in Int, NEW b \in 0 .. m - 1
  PROVE  (a * m + b) \div m = a /\ (a * m + b) % m = b
<1> DEFINE x == a * m + b  q == x \div m  r == x % m
<1>1. x \in Int /\ q \in Int /\ r \in 0 .. m - 1 /\ x = m * q + r
  OBVIOUS
<1> HIDE DEF q, r
<1>2. m * (q - a) = b - r
  BY <1>1
<1>3. q = a
  <2>1. CASE q - a >= 1
    <3>1. m * (q - a) >= m
      BY <1>1, <2>1
    <3> QED
      BY <1>1, <1>2, <3>1
  <2>2. CASE q - a <= -1
    <3>1. m * (q - a) <= -m
      BY <1>1, <2>2
    <3> QED
      BY <1>1, <1>2, <3>1
  <2> QED
    BY <1>1, <2>1, <2>2
<1>4. r = b
  BY <1>1, <1>2, <1>3
<1> QED
  BY <1>3, <1>4 DEF q, r

LEMMA Remainder ==
  ASSUME NEW m \in Nat \ {0}, NEW n \in Nat, NEW x \in 0 .. n * m - 1
  PROVE  /\ x \div m \in 0 .. n - 1 /\ x % m \in 0 .. m - 1
         /\ x = (x \div m) * m + (x % m)
<1> DEFINE q == x \div m  r == x % m
<1>1. x \in Int /\ q \in Int /\ r \in 0 .. m - 1 /\ x = m * q + r
  OBVIOUS
<1> HIDE DEF q, r
<1>2. q >= 0
  <2>1. CASE q <= -1
    <3>1. m * q <= -m
      BY <1>1, <2>1
    <3> QED
      BY <1>1, <3>1
  <2> QED
    BY <1>1, <2>1
<1>3. q <= n - 1
  <2>1. CASE q >= n
    <3>1. m * q >= m * n
      BY <1>1, <2>1
    <3> QED
      BY <1>1, <3>1
  <2> QED
    BY <1>1, <2>1
<1>4. x = q * m + r
  BY <1>1
<1>5. q \in 0 .. n - 1 /\ r \in 0 .. m - 1 /\ x = q * m + r
  BY <1>1, <1>2, <1>3, <1>4
<1> QED
  BY <1>5 DEF q, r

\* A position of a buffer of n columns of m.
LEMMA Position ==
  ASSUME NEW m \in Nat \ {0}, NEW n \in Nat, NEW a \in 0 .. n - 1, NEW b \in 0 .. m - 1
  PROVE  a * m + b \in 0 .. n * m - 1
<1>1. a * m >= 0 /\ (n - 1 - a) * m >= 0
  OBVIOUS
<1>2. (n - 1 - a) * m = n * m - m - a * m
  OBVIOUS
<1> QED
  BY <1>1, <1>2

-----------------------------------------------------------------------------
(***************************************************************************)
(* Numbers p + q * sqrt(2), and sums of them.                              *)
(***************************************************************************)
Numbers == Int \X Int

LEMMA NumberFacts ==
  ASSUME NEW u \in Numbers, NEW v \in Numbers
  PROVE  /\ Plus(u, v) \in Numbers /\ Times(u, v) \in Numbers
         /\ Number(0) \in Numbers /\ Plus(u, Number(0)) = u /\ Plus(Number(0), u) = u
<1>1. u[1] \in Int /\ u[2] \in Int /\ v[1] \in Int /\ v[2] \in Int /\ u = <<u[1], u[2]>>
  BY DEF Numbers
<1>2. u[1] * v[1] \in Int /\ u[2] * v[2] \in Int /\ u[1] * v[2] \in Int /\ u[2] * v[1] \in Int
  BY <1>1
<1>3. 2 * u[2] * v[2] \in Int
  BY <1>1
<1>4. Plus(u, v) \in Numbers /\ Times(u, v) \in Numbers
  BY <1>1, <1>2, <1>3 DEF Plus, Times, Numbers
<1>5. Number(0) \in Numbers /\ Plus(u, Number(0)) = <<u[1], u[2]>> /\ Plus(Number(0), u) = <<u[1], u[2]>>
  BY <1>1 DEF Plus, Number, Numbers
<1> QED
  BY <1>1, <1>4, <1>5

\* sum has the partial sums of f.
PartialSums(sum, f, n) ==
  sum[0] = Number(0) /\ (\A k \in 1 .. n : sum[k] = Plus(sum[k - 1], f[k - 1])) /\ SumOf(f, n) = sum[n]

LEMMA SumOfDef ==
  ASSUME NEW n \in Nat, NEW f \in [0 .. n - 1 -> Numbers]
  PROVE  \E sum \in [0 .. n -> Numbers] : PartialSums(sum, f, n)
<1> DEFINE sum[k \in 0 .. n] == IF k = 0 THEN Number(0) ELSE Plus(sum[k - 1], f[k - 1])
           G == [p \in (1 .. n) \X Numbers |-> Plus(p[2], f[p[1] - 1])]
<1>1. G \in [(1 .. n) \X Numbers -> Numbers]
  <2>1. ASSUME NEW p \in (1 .. n) \X Numbers PROVE Plus(p[2], f[p[1] - 1]) \in Numbers
    <3>1. p[1] - 1 \in 0 .. n - 1 /\ p[2] \in Numbers
      OBVIOUS
    <3>2. f[p[1] - 1] \in Numbers
      BY <3>1
    <3> QED
      BY <3>1, <3>2, NumberFacts
  <2> QED
    BY <2>1
<1>2. Number(0) \in Numbers
  BY DEF Number, Numbers
<1>3. PICK g \in [0 .. n -> Numbers] : Recursive(g, n, Number(0), G)
  <2> HIDE DEF G, sum
  <2> QED
    BY <1>1, <1>2, RecursiveFunction
<1>4. ASSUME NEW k \in 1 .. n PROVE g[k] = Plus(g[k - 1], f[k - 1])
  <2>1. <<k, g[k - 1]>> \in (1 .. n) \X Numbers
    OBVIOUS
  <2> QED
    BY <1>3, <2>1 DEF Recursive
<1>5. g = [k \in 0 .. n |-> IF k = 0 THEN Number(0) ELSE Plus(g[k - 1], f[k - 1])]
  <2>1. ASSUME NEW k \in 0 .. n PROVE g[k] = IF k = 0 THEN Number(0) ELSE Plus(g[k - 1], f[k - 1])
    BY <1>3, <1>4 DEF Recursive
  <2> QED
    BY <2>1
<1>6. sum = [k \in 0 .. n |-> IF k = 0 THEN Number(0) ELSE Plus(sum[k - 1], f[k - 1])]
  BY <1>5
<1>7. SumOf(f, n) = sum[n]
  BY DEF SumOf
<1> HIDE DEF sum, G
<1>8. DOMAIN sum = 0 .. n /\ sum[0] = Number(0) /\ \A k \in 1 .. n : sum[k] = Plus(sum[k - 1], f[k - 1])
  BY <1>6
<1> DEFINE T == {k \in 0 .. n : sum[k] \in Numbers}
<1>9. 0 \in T
  BY <1>2, <1>8
<1>10. ASSUME NEW i \in 0 .. n - 1, i \in T PROVE i + 1 \in T
  <2>1. i + 1 \in 1 .. n /\ sum[i] \in Numbers /\ (i + 1) - 1 = i /\ f[i] \in Numbers
    BY <1>10
  <2>2. sum[i + 1] = Plus(sum[i], f[i])
    BY <1>8, <2>1
  <2> QED
    BY <2>1, <2>2, NumberFacts
<1> HIDE DEF T
<1>11. \A k \in 0 .. n : k \in T
  BY <1>9, <1>10, UpTo
<1>12. sum \in [0 .. n -> Numbers]
  BY <1>6, <1>8, <1>11 DEF T
<1> QED
  BY <1>7, <1>8, <1>12 DEF PartialSums

\* A sum with one term that is not zero.
LEMMA SumOfOne ==
  ASSUME NEW n \in Nat, NEW f \in [0 .. n - 1 -> Numbers], NEW m \in 0 .. n - 1,
         \A k \in 0 .. n - 1 : k # m => f[k] = Number(0)
  PROVE  SumOf(f, n) = f[m]
<1>1. PICK sum \in [0 .. n -> Numbers] : PartialSums(sum, f, n)
  BY SumOfDef
<1>2. sum[0] = Number(0) /\ (\A k \in 1 .. n : sum[k] = Plus(sum[k - 1], f[k - 1])) /\ SumOf(f, n) = sum[n]
  BY <1>1 DEF PartialSums
<1> DEFINE T == {k \in 0 .. n : sum[k] = IF k <= m THEN Number(0) ELSE f[m]}
<1>3. 0 \in T
  BY <1>2
<1>4. ASSUME NEW i \in 0 .. n - 1, i \in T PROVE i + 1 \in T
  <2>1. i + 1 \in 1 .. n /\ sum[i + 1] = Plus(sum[i], f[i]) /\ f[i] \in Numbers /\ f[m] \in Numbers
    <3>1. i + 1 \in 1 .. n /\ (i + 1) - 1 = i
      OBVIOUS
    <3> QED
      BY <1>2, <3>1
  <2>2. sum[i] = IF i <= m THEN Number(0) ELSE f[m]
    BY <1>4
  <2>3. CASE i = m
    <3>1. sum[i + 1] = f[m]
      BY <2>1, <2>2, <2>3, NumberFacts
    <3> QED
      BY <2>1, <2>3, <3>1
  <2>4. CASE i # m
    <3>1. f[i] = Number(0) /\ (i + 1 <= m <=> i <= m)
      BY <2>4
    <3>2. sum[i + 1] = sum[i]
      <4>1. sum[i] \in Numbers
        OBVIOUS
      <4> QED
        BY <2>1, <3>1, <4>1, NumberFacts
    <3> QED
      BY <2>1, <2>2, <3>1, <3>2
  <2> QED
    BY <2>3, <2>4
<1> HIDE DEF T
<1>5. n \in T
  BY <1>3, <1>4, UpTo
<1> QED
  BY <1>2, <1>5 DEF T

LEMMA SumOfNone ==
  ASSUME NEW n \in Nat, NEW f \in [0 .. n - 1 -> Numbers], \A k \in 0 .. n - 1 : f[k] = Number(0)
  PROVE  SumOf(f, n) = Number(0)
<1>1. CASE n = 0
  <2>1. PICK sum \in [0 .. n -> Numbers] : PartialSums(sum, f, n)
    BY SumOfDef
  <2> QED
    BY <1>1, <2>1 DEF PartialSums
<1>2. CASE n # 0
  <2>1. 0 \in 0 .. n - 1
    BY <1>2
  <2> QED
    BY <2>1, SumOfOne
<1> QED
  BY <1>1, <1>2

-----------------------------------------------------------------------------
(***************************************************************************)
(* Sums of integers.                                                       *)
(***************************************************************************)
PartialIntegerSums(sum, f, n) ==
  sum[0] = 0 /\ (\A k \in 1 .. n : sum[k] = sum[k - 1] + f[k - 1]) /\ IntegerSum(f, n) = sum[n]

LEMMA IntegerSumDef ==
  ASSUME NEW n \in Nat, NEW f \in [0 .. n - 1 -> Int]
  PROVE  \E sum \in [0 .. n -> Int] : PartialIntegerSums(sum, f, n)
<1> DEFINE sum[k \in 0 .. n] == IF k = 0 THEN 0 ELSE sum[k - 1] + f[k - 1]
           G == [p \in (1 .. n) \X Int |-> p[2] + f[p[1] - 1]]
<1>1. G \in [(1 .. n) \X Int -> Int]
  <2>1. ASSUME NEW p \in (1 .. n) \X Int PROVE p[2] + f[p[1] - 1] \in Int
    <3>1. p[1] - 1 \in 0 .. n - 1 /\ p[2] \in Int
      OBVIOUS
    <3> QED
      BY <3>1
  <2> QED
    BY <2>1
<1>2. PICK g \in [0 .. n -> Int] : Recursive(g, n, 0, G)
  <2> HIDE DEF G, sum
  <2>1. 0 \in Int
    OBVIOUS
  <2> QED
    BY <1>1, <2>1, RecursiveFunction
<1>3. ASSUME NEW k \in 1 .. n PROVE g[k] = g[k - 1] + f[k - 1]
  <2>1. <<k, g[k - 1]>> \in (1 .. n) \X Int
    OBVIOUS
  <2> QED
    BY <1>2, <2>1 DEF Recursive
<1>4. g = [k \in 0 .. n |-> IF k = 0 THEN 0 ELSE g[k - 1] + f[k - 1]]
  <2>1. ASSUME NEW k \in 0 .. n PROVE g[k] = IF k = 0 THEN 0 ELSE g[k - 1] + f[k - 1]
    BY <1>2, <1>3 DEF Recursive
  <2> QED
    BY <2>1
<1>5. sum = [k \in 0 .. n |-> IF k = 0 THEN 0 ELSE sum[k - 1] + f[k - 1]]
  BY <1>4
<1>6. IntegerSum(f, n) = sum[n]
  BY DEF IntegerSum
<1> HIDE DEF sum, G
<1>7. DOMAIN sum = 0 .. n /\ sum[0] = 0 /\ \A k \in 1 .. n : sum[k] = sum[k - 1] + f[k - 1]
  BY <1>5
<1> DEFINE T == {k \in 0 .. n : sum[k] \in Int}
<1>8. 0 \in T
  BY <1>7
<1>9. ASSUME NEW i \in 0 .. n - 1, i \in T PROVE i + 1 \in T
  <2>1. i + 1 \in 1 .. n /\ sum[i] \in Int /\ (i + 1) - 1 = i /\ f[i] \in Int
    BY <1>9
  <2>2. sum[i + 1] = sum[i] + f[i]
    BY <1>7, <2>1
  <2> QED
    BY <2>1, <2>2
<1> HIDE DEF T
<1>10. \A k \in 0 .. n : k \in T
  BY <1>8, <1>9, UpTo
<1>11. sum \in [0 .. n -> Int]
  BY <1>5, <1>7, <1>10 DEF T
<1> QED
  BY <1>6, <1>7, <1>11 DEF PartialIntegerSums

LEMMA IntegerSumOfOne ==
  ASSUME NEW n \in Nat, NEW f \in [0 .. n - 1 -> Int], NEW m \in 0 .. n - 1,
         \A k \in 0 .. n - 1 : k # m => f[k] = 0
  PROVE  IntegerSum(f, n) = f[m]
<1>1. PICK sum \in [0 .. n -> Int] : PartialIntegerSums(sum, f, n)
  BY IntegerSumDef
<1>2. sum[0] = 0 /\ (\A k \in 1 .. n : sum[k] = sum[k - 1] + f[k - 1]) /\ IntegerSum(f, n) = sum[n]
  BY <1>1 DEF PartialIntegerSums
<1> DEFINE T == {k \in 0 .. n : sum[k] = IF k <= m THEN 0 ELSE f[m]}
<1>3. 0 \in T
  BY <1>2
<1>4. ASSUME NEW i \in 0 .. n - 1, i \in T PROVE i + 1 \in T
  <2>1. i + 1 \in 1 .. n /\ (i + 1) - 1 = i /\ f[i] \in Int /\ f[m] \in Int
    OBVIOUS
  <2>2. sum[i + 1] = sum[i] + f[i]
    BY <1>2, <2>1
  <2>3. sum[i] = IF i <= m THEN 0 ELSE f[m]
    BY <1>4
  <2>4. CASE i = m
    BY <2>1, <2>2, <2>3, <2>4
  <2>5. CASE i # m
    <3>1. f[i] = 0 /\ (i + 1 <= m <=> i <= m)
      BY <2>5
    <3> QED
      BY <2>1, <2>2, <2>3, <3>1
  <2> QED
    BY <2>4, <2>5
<1> HIDE DEF T
<1>5. \A k \in 0 .. n : k \in T
  BY <1>3, <1>4, UpTo
<1>6. n \in T
  BY <1>5
<1> QED
  BY <1>2, <1>6 DEF T

LEMMA IntegerSumOfNone ==
  ASSUME NEW n \in Nat, NEW f \in [0 .. n - 1 -> Int], \A k \in 0 .. n - 1 : f[k] = 0
  PROVE  IntegerSum(f, n) = 0
<1>1. CASE n = 0
  <2>1. PICK sum \in [0 .. n -> Int] : PartialIntegerSums(sum, f, n)
    BY IntegerSumDef
  <2> QED
    BY <1>1, <2>1 DEF PartialIntegerSums
<1>2. CASE n # 0
  <2>1. 0 \in 0 .. n - 1
    BY <1>2
  <2> QED
    BY <2>1, IntegerSumOfOne
<1> QED
  BY <1>1, <1>2

LEMMA IntegerSumType ==
  ASSUME NEW n \in Nat, NEW f \in [0 .. n - 1 -> Int]
  PROVE  IntegerSum(f, n) \in Int
<1>1. PICK sum \in [0 .. n -> Int] : PartialIntegerSums(sum, f, n)
  BY IntegerSumDef
<1> QED
  BY <1>1 DEF PartialIntegerSums

\* A sum of one term more.
LEMMA IntegerSumNext ==
  ASSUME NEW n \in Nat, NEW f \in [0 .. n -> Int], NEW g \in [0 .. n - 1 -> Int],
         \A k \in 0 .. n - 1 : g[k] = f[k]
  PROVE  IntegerSum(f, n + 1) = IntegerSum(g, n) + f[n]
<1>1. PICK sum \in [0 .. n + 1 -> Int] : PartialIntegerSums(sum, f, n + 1)
  <2>1. n + 1 \in Nat /\ f \in [0 .. (n + 1) - 1 -> Int]
    OBVIOUS
  <2> QED
    BY <2>1, IntegerSumDef
<1>2. PICK part \in [0 .. n -> Int] : PartialIntegerSums(part, g, n)
  BY IntegerSumDef
<1>3. sum[0] = 0 /\ (\A k \in 1 .. n + 1 : sum[k] = sum[k - 1] + f[k - 1]) /\ IntegerSum(f, n + 1) = sum[n + 1]
  BY <1>1 DEF PartialIntegerSums
<1>4. part[0] = 0 /\ (\A k \in 1 .. n : part[k] = part[k - 1] + g[k - 1]) /\ IntegerSum(g, n) = part[n]
  BY <1>2 DEF PartialIntegerSums
<1> DEFINE T == {k \in 0 .. n : sum[k] = part[k]}
<1>5. 0 \in T
  BY <1>3, <1>4
<1>6. ASSUME NEW i \in 0 .. n - 1, i \in T PROVE i + 1 \in T
  <2>1. i + 1 \in 1 .. n /\ i + 1 \in 1 .. n + 1 /\ (i + 1) - 1 = i /\ sum[i] = part[i] /\ g[i] = f[i]
    BY <1>6
  <2>2. sum[i + 1] = sum[i] + f[i] /\ part[i + 1] = part[i] + g[i]
    BY <1>3, <1>4, <2>1
  <2> QED
    BY <2>1, <2>2
<1> HIDE DEF T
<1>7. \A k \in 0 .. n : k \in T
  BY <1>5, <1>6, UpTo
<1>8. sum[n] = part[n]
  BY <1>7 DEF T
<1>9. n + 1 \in 1 .. n + 1 /\ (n + 1) - 1 = n
  OBVIOUS
<1>10. sum[n + 1] = sum[n] + f[n]
  BY <1>3, <1>9
<1> QED
  BY <1>3, <1>4, <1>8, <1>10

-----------------------------------------------------------------------------
(***************************************************************************)
(* Where the unknowns are: one below the other, without a gap.             *)
(***************************************************************************)
Unknowns == Seq([name : Seq(STRING), kind : Kind])

LEMMA WidthFacts ==
  ASSUME NEW kind \in Kind
  PROVE  Width(kind) \in Nat \ {0} /\ Components(kind) = 0 .. Width(kind) - 1
<1>1. (Dim * (Dim + 1)) \div 2 \in Nat \ {0}
  BY LayoutAssumption
<1> QED
  BY <1>1 DEF Width, Components

LEMMA UnknownFacts ==
  ASSUME NEW u \in Unknowns
  PROVE  /\ Len(u) \in Nat /\ DOMAIN u = 1 .. Len(u)
         /\ \A i \in 1 .. Len(u) : u[i].kind \in Kind /\ Width(u[i].kind) \in Nat \ {0}
<1>1. Len(u) \in Nat /\ DOMAIN u = 1 .. Len(u)
  BY DEF Unknowns
<1>2. ASSUME NEW i \in 1 .. Len(u) PROVE u[i].kind \in Kind /\ Width(u[i].kind) \in Nat \ {0}
  <2> DEFINE Unknown == [name : Seq(STRING), kind : Kind]
  <2>1. u[i] \in Unknown
    <3>1. u \in Seq(Unknown)
      BY DEF Unknowns
    <3> HIDE DEF Unknown
    <3> QED
      BY <3>1
  <2>2. u[i].kind \in Kind
    BY <2>1
  <2> QED
    BY <2>2, WidthFacts
<1> QED
  BY <1>1, <1>2

LEMMA OffsetStarts ==
  ASSUME NEW u \in Unknowns
  PROVE  Offset(u, 1) = 0
<1> DEFINE f == [k \in 0 .. 1 - 2 |-> Width(u[k + 1].kind)]
<1>1. f \in [0 .. 0 - 1 -> Int] /\ 1 - 1 = 0
  OBVIOUS
<1>2. Offset(u, 1) = IntegerSum(f, 1 - 1)
  BY DEF Offset
<1> HIDE DEF f
<1>3. IntegerSum(f, 0) = 0
  <2>1. \A k \in 0 .. 0 - 1 : f[k] = 0
    OBVIOUS
  <2> QED
    BY <1>1, <2>1, IntegerSumOfNone
<1> QED
  BY <1>1, <1>2, <1>3

LEMMA OffsetNext ==
  ASSUME NEW u \in Unknowns, NEW i \in 1 .. Len(u)
  PROVE  Offset(u, i) \in Int /\ Offset(u, i + 1) = Offset(u, i) + Width(u[i].kind)
<1> DEFINE f == [k \in 0 .. i - 1 |-> Width(u[k + 1].kind)]
           g == [k \in 0 .. i - 2 |-> Width(u[k + 1].kind)]
           m == i - 1
<1>1. Len(u) \in Nat /\ \A k \in 1 .. Len(u) : Width(u[k].kind) \in Nat \ {0}
  BY UnknownFacts
<1>2. m \in Nat /\ m + 1 = i /\ (i + 1) - 2 = i - 1 /\ (i + 1) - 1 = i /\ m - 1 = i - 2
  OBVIOUS
<1>3. \A k \in 0 .. i - 1 : Width(u[k + 1].kind) \in Int
  BY <1>1
<1>4. f \in [0 .. m -> Int] /\ g \in [0 .. m - 1 -> Int] /\ (\A k \in 0 .. m - 1 : g[k] = f[k])
  BY <1>3
<1>5. f[m] = Width(u[i].kind)
  OBVIOUS
<1>6. Offset(u, i) = IntegerSum(g, m)
  BY DEF Offset
<1>7. Offset(u, i + 1) = IntegerSum(f, m + 1)
  BY <1>2 DEF Offset
<1> HIDE DEF f, g, m
<1>8. IntegerSum(f, m + 1) = IntegerSum(g, m) + f[m]
  BY <1>2, <1>4, IntegerSumNext
<1>9. IntegerSum(g, m) \in Int
  BY <1>2, <1>4, IntegerSumType
<1> QED
  BY <1>5, <1>6, <1>7, <1>8, <1>9

\* The rows of the unknown i.
Rows(u, i) == Offset(u, i) .. Offset(u, i) + Width(u[i].kind) - 1

LEMMA OffsetsRise ==
  ASSUME NEW u \in Unknowns, NEW i \in 1 .. Len(u), NEW j \in 1 .. Len(u), i < j
  PROVE  Offset(u, i) + Width(u[i].kind) <= Offset(u, j)
<1> DEFINE T == {k \in 0 .. Len(u) - 1 : k >= i => Offset(u, i) + Width(u[i].kind) <= Offset(u, k + 1)}
           n == Len(u) - 1
<1>1. Len(u) \in Nat /\ \A k \in 1 .. Len(u) : Width(u[k].kind) \in Nat \ {0}
  BY UnknownFacts
<1>2. n \in Nat /\ 0 \in T
  BY <1>1
<1>3. ASSUME NEW k \in 0 .. n - 1, k \in T PROVE k + 1 \in T
  <2>1. k + 1 \in 1 .. Len(u) /\ k + 1 \in 0 .. Len(u) - 1
    BY <1>1
  <2>2. Offset(u, k + 1) \in Int /\ Offset(u, (k + 1) + 1) = Offset(u, k + 1) + Width(u[k + 1].kind)
    BY <2>1, OffsetNext
  <2>3. Offset(u, i) \in Int /\ Offset(u, i + 1) = Offset(u, i) + Width(u[i].kind)
    BY OffsetNext
  <2>4. Width(u[k + 1].kind) \in Nat /\ Width(u[i].kind) \in Nat
    BY <1>1, <2>1
  <2>5. CASE k + 1 = i
    <3>1. Offset(u, (k + 1) + 1) = Offset(u, i + 1)
      BY <2>5
    <3>2. Offset(u, i) + Width(u[i].kind) <= Offset(u, (k + 1) + 1)
      BY <2>3, <2>4, <3>1
    <3> QED
      BY <2>1, <3>2
  <2>6. CASE k >= i
    <3>1. Offset(u, i) + Width(u[i].kind) <= Offset(u, k + 1)
      BY <1>3, <2>6
    <3>2. Offset(u, i) + Width(u[i].kind) <= Offset(u, (k + 1) + 1)
      BY <2>2, <2>3, <2>4, <3>1
    <3> QED
      BY <2>1, <3>2
  <2>7. CASE k + 1 < i
    BY <2>1, <2>7
  <2> QED
    BY <2>5, <2>6, <2>7
<1>4. j - 1 \in 0 .. n /\ j - 1 >= i /\ (j - 1) + 1 = j
  BY <1>1
<1> HIDE DEF T, n
<1>5. \A k \in 0 .. n : k \in T
  BY <1>2, <1>3, UpTo
<1>6. j - 1 \in T
  BY <1>4, <1>5
<1> QED
  BY <1>4, <1>6 DEF T

\* Every row is one of exactly one unknown.
LEMMA RowsOfOne ==
  ASSUME NEW u \in Unknowns, NEW i \in 1 .. Len(u), NEW j \in 1 .. Len(u), i # j
  PROVE  Rows(u, i) \cap Rows(u, j) = {}
<1>1. Offset(u, i) \in Int /\ Offset(u, j) \in Int
  BY OffsetNext
<1>2. Width(u[i].kind) \in Nat /\ Width(u[j].kind) \in Nat
  BY UnknownFacts
<1>3. CASE i < j
  <2>1. Offset(u, i) + Width(u[i].kind) <= Offset(u, j)
    BY <1>3, OffsetsRise
  <2> QED
    BY <1>1, <1>2, <2>1 DEF Rows
<1>4. CASE j < i
  <2>1. Offset(u, j) + Width(u[j].kind) <= Offset(u, i)
    BY <1>4, OffsetsRise
  <2> QED
    BY <1>1, <1>2, <2>1 DEF Rows
<1> QED
  BY <1>3, <1>4

LEMMA RowsOfAll ==
  ASSUME NEW u \in Unknowns
  PROVE  /\ Size(u) \in Nat
         /\ u # <<>> => Size(u) # 0
         /\ \A i \in 1 .. Len(u) : Rows(u, i) \subseteq 0 .. Size(u) - 1
         /\ \A r \in 0 .. Size(u) - 1 : \E i \in 1 .. Len(u) : r \in Rows(u, i)
<1> DEFINE n == Len(u)
           T == {k \in 0 .. n : /\ Offset(u, k + 1) \in Nat /\ (k # 0 => Offset(u, k + 1) # 0)
                                /\ \A i \in 1 .. k : Rows(u, i) \subseteq 0 .. Offset(u, k + 1) - 1
                                /\ \A r \in 0 .. Offset(u, k + 1) - 1 : \E i \in 1 .. k : r \in Rows(u, i)}
<1>1. n \in Nat /\ \A k \in 1 .. n : Width(u[k].kind) \in Nat \ {0}
  BY UnknownFacts
<1>2. 0 \in T
  <2>1. Offset(u, 0 + 1) = 0
    BY OffsetStarts
  <2> QED
    BY <1>1, <2>1
<1>3. ASSUME NEW k \in 0 .. n - 1, k \in T PROVE k + 1 \in T
  <2>1. k + 1 \in 1 .. n /\ k + 1 \in 0 .. n
    BY <1>1
  <2> DEFINE o == Offset(u, k + 1)  w == Width(u[k + 1].kind)  p == Offset(u, (k + 1) + 1)
  <2>2. p = o + w /\ w \in Nat \ {0} /\ o \in Nat
    <3>1. Offset(u, (k + 1) + 1) = Offset(u, k + 1) + Width(u[k + 1].kind)
      BY <2>1, OffsetNext
    <3> QED
      BY <1>1, <1>3, <2>1, <3>1
  <2>3. Rows(u, k + 1) = o .. o + w - 1
    BY DEF Rows
  <2>4. \A i \in 1 .. k : Rows(u, i) \subseteq 0 .. o - 1
    BY <1>3
  <2>5. \A r \in 0 .. o - 1 : \E i \in 1 .. k : r \in Rows(u, i)
    BY <1>3
  <2> HIDE DEF o, w, p
  <2>6. ASSUME NEW i \in 1 .. k + 1 PROVE Rows(u, i) \subseteq 0 .. p - 1
    <3>1. CASE i = k + 1
      BY <2>2, <2>3, <3>1
    <3>2. CASE i \in 1 .. k
      <4>1. Rows(u, i) \subseteq 0 .. o - 1
        BY <2>4, <3>2
      <4>2. 0 .. o - 1 \subseteq 0 .. p - 1
        BY <2>2
      <4> QED
        BY <4>1, <4>2
    <3> QED
      BY <3>1, <3>2
  <2>7. ASSUME NEW r \in 0 .. p - 1 PROVE \E i \in 1 .. k + 1 : r \in Rows(u, i)
    <3>1. CASE r \in 0 .. o - 1
      <4>1. PICK i \in 1 .. k : r \in Rows(u, i)
        BY <2>5, <3>1
      <4>2. i \in 1 .. k + 1
        OBVIOUS
      <4> QED
        BY <4>1, <4>2
    <3>2. CASE r \in o .. o + w - 1
      <4>1. k + 1 \in 1 .. k + 1
        OBVIOUS
      <4> QED
        BY <2>3, <3>2, <4>1
    <3> QED
      BY <2>2, <3>1, <3>2
  <2>8. p \in Nat /\ p # 0
    BY <2>2
  <2> QED
    BY <2>1, <2>6, <2>7, <2>8 DEF p
<1>4. n \in T
  <2> HIDE DEF T, n
  <2>1. \A k \in 0 .. n : k \in T
    BY <1>1, <1>2, <1>3, UpTo
  <2> QED
    BY <1>1, <2>1
<1>5. u # <<>> => n # 0
  BY DEF Unknowns
<1> QED
  BY <1>4, <1>5 DEF Size

-----------------------------------------------------------------------------
(***************************************************************************)
(* One block: packed, gathered and scattered.                              *)
(***************************************************************************)
BlockOfKinds(rows, cols) == [Components(rows) \X Components(cols) -> Int]

\* A number of the block as it stands in the matrix.
Scaled(rows, cols, x, a, b) == Times(Number(x), Times(Factor(rows, a), Factor(cols, b)))

LEMMA ScaledType ==
  ASSUME NEW rows, NEW cols, NEW a, NEW b, NEW x \in Int
  PROVE  Scaled(rows, cols, x, a, b) \in Numbers
<1>1. Number(x) \in Numbers
  BY DEF Number, Numbers
<1>2. Factor(rows, a) \in Numbers /\ Factor(cols, b) \in Numbers
  BY DEF Factor, Number, Root2, Numbers
<1>3. Times(Factor(rows, a), Factor(cols, b)) \in Numbers
  BY <1>2, NumberFacts
<1> QED
  BY <1>1, <1>3, NumberFacts DEF Scaled

LEMMA PackedEntry ==
  ASSUME NEW rows \in Kind, NEW cols \in Kind, NEW B,
         NEW a \in Components(rows), NEW b \in Components(cols)
  PROVE  /\ a * Width(cols) + b \in 0 .. Width(rows) * Width(cols) - 1
         /\ Pack(rows, cols, B)[a * Width(cols) + b] = Scaled(rows, cols, B[<<a, b>>], a, b)
<1> DEFINE w == Width(cols)  v == Width(rows)  k == a * w + b
<1>1. w \in Nat \ {0} /\ v \in Nat /\ a \in 0 .. v - 1 /\ b \in 0 .. w - 1
  BY WidthFacts
<1>2. Pack(rows, cols, B)
        = [n \in 0 .. v * w - 1 |-> Times(Number(B[<<n \div w, n % w>>]), Times(Factor(rows, n \div w), Factor(cols, n % w)))]
  BY DEF Pack
<1> HIDE DEF w, v
<1>3. k \in 0 .. v * w - 1
  BY <1>1, Position
<1>4. k \div w = a /\ k % w = b
  <2>1. a \in Int
    BY <1>1
  <2> QED
    BY <1>1, <2>1, Division
<1> HIDE DEF k
<1>5. Pack(rows, cols, B)[k] = Times(Number(B[<<a, b>>]), Times(Factor(rows, a), Factor(cols, b)))
  BY <1>2, <1>3, <1>4
<1> QED
  BY <1>3, <1>5 DEF Scaled, k, v, w

\* The columns of ld rows.
Buffer(ld, columns) == [0 .. columns * ld - 1 -> Numbers]

\* What a block leaves at n.
GatheredEntry(M, ld, r0, c0, rows, cols, B, n) ==
  IF (n % ld) - r0 \in Components(rows) /\ (n \div ld) - c0 \in Components(cols)
  THEN Scaled(rows, cols, B[<<(n % ld) - r0, (n \div ld) - c0>>], (n % ld) - r0, (n \div ld) - c0)
  ELSE M[n]

LEMMA Gathered ==
  ASSUME NEW ld \in Nat \ {0}, NEW columns \in Nat, NEW M \in Buffer(ld, columns),
         NEW rows \in Kind, NEW cols \in Kind, NEW B \in BlockOfKinds(rows, cols), NEW r0 \in Int, NEW c0 \in Int
  PROVE  /\ Gather(M, ld, r0, c0, rows, cols, B) \in Buffer(ld, columns)
         /\ \A n \in 0 .. columns * ld - 1 :
              Gather(M, ld, r0, c0, rows, cols, B)[n] = GatheredEntry(M, ld, r0, c0, rows, cols, B, n)
<1> DEFINE G == Gather(M, ld, r0, c0, rows, cols, B)
           D == 0 .. columns * ld - 1
           V(a, b) == Scaled(rows, cols, B[<<a, b>>], a, b)
<1>1. M \in [D -> Numbers]
  BY DEF Buffer
<1>2. G = [n \in D |-> IF (n % ld) - r0 \in Components(rows) /\ (n \div ld) - c0 \in Components(cols)
                       THEN Pack(rows, cols, B)[((n % ld) - r0) * Width(cols) + ((n \div ld) - c0)] ELSE M[n]]
  BY <1>1 DEF Gather
<1> HIDE DEF G, D
<1>3. ASSUME NEW n \in D
      PROVE  /\ G[n] \in Numbers
             /\ G[n] = IF (n % ld) - r0 \in Components(rows) /\ (n \div ld) - c0 \in Components(cols)
                       THEN V((n % ld) - r0, (n \div ld) - c0) ELSE M[n]
  <2> DEFINE a == (n % ld) - r0  b == (n \div ld) - c0
  <2>1. CASE a \in Components(rows) /\ b \in Components(cols)
    <3>1. G[n] = Pack(rows, cols, B)[a * Width(cols) + b]
      BY <1>2, <2>1
    <3> HIDE DEF a, b
    <3>2. G[n] = V(a, b)
      BY <2>1, <3>1, PackedEntry
    <3>3. B[<<a, b>>] \in Int
      <4>1. <<a, b>> \in Components(rows) \X Components(cols)
        BY <2>1
      <4> QED
        BY <4>1 DEF BlockOfKinds
    <3>4. V(a, b) \in Numbers
      BY <3>3, ScaledType
    <3> QED
      BY <2>1, <3>2, <3>4 DEF a, b
  <2>2. CASE ~(a \in Components(rows) /\ b \in Components(cols))
    <3>1. G[n] = M[n]
      BY <1>2, <2>2
    <3>2. M[n] \in Numbers
      BY <1>1
    <3> QED
      BY <2>2, <3>1, <3>2
  <2> QED
    BY <2>1, <2>2
<1>4. G \in [D -> Numbers]
  BY <1>2, <1>3
<1> QED
  BY <1>3, <1>4 DEF Buffer, D, G, GatheredEntry

\* The row r of the column c, and where it is.
IsCell(ld, columns, r, c) ==
  ld \in Nat \ {0} /\ columns \in Nat /\ r \in 0 .. ld - 1 /\ c \in 0 .. columns - 1

IsAt(ld, columns, r, c, k) == k \in 0 .. columns * ld - 1 /\ k % ld = r /\ k \div ld = c

LEMMA AtPosition ==
  ASSUME NEW ld, NEW columns, NEW r, NEW c, IsCell(ld, columns, r, c)
  PROVE  IsAt(ld, columns, r, c, c * ld + r)
<1>1. ld \in Nat \ {0} /\ columns \in Nat /\ r \in 0 .. ld - 1 /\ c \in 0 .. columns - 1 /\ c \in Int
  BY DEF IsCell
<1>2. c * ld + r \in 0 .. columns * ld - 1
  BY <1>1, Position
<1>3. (c * ld + r) % ld = r /\ (c * ld + r) \div ld = c
  BY <1>1, Division
<1> QED
  BY <1>2, <1>3 DEF IsAt

\* What one step writes at x and no other does is there in the end.
OnlyWriter(f, x, m, w) == \A k \in 1 .. m : k # w => f[k][x] = f[k - 1][x]

LEMMA OneWriter ==
  ASSUME NEW m \in Nat, NEW f, NEW x, NEW w \in 1 .. m, OnlyWriter(f, x, m, w)
  PROVE  f[m][x] = f[w][x]
<1> DEFINE T == {k \in 0 .. m : k >= w => f[k][x] = f[w][x]}
<1>1. 0 \in T
  OBVIOUS
<1>2. ASSUME NEW k \in 0 .. m - 1, k \in T PROVE k + 1 \in T
  <2>1. k + 1 \in 1 .. m /\ (k + 1) - 1 = k /\ k + 1 \in 0 .. m
    OBVIOUS
  <2>2. CASE k + 1 = w
    BY <2>1, <2>2
  <2>3. CASE k + 1 # w
    <3>1. f[k + 1][x] = f[k][x]
      BY <2>1, <2>3 DEF OnlyWriter
    <3>2. k + 1 >= w => k >= w
      BY <2>3
    <3>3. k >= w => f[k][x] = f[w][x]
      BY <1>2
    <3> QED
      BY <2>1, <3>1, <3>2, <3>3
  <2> QED
    BY <2>2, <2>3
<1> HIDE DEF T
<1>3. \A k \in 0 .. m : k \in T
  BY <1>1, <1>2, UpTo
<1>4. m \in T
  BY <1>3
<1>5. m >= w
  OBVIOUS
<1> QED
  BY <1>4, <1>5 DEF T

LEMMA NoWriter ==
  ASSUME NEW m \in Nat, NEW f, NEW x, \A k \in 1 .. m : f[k][x] = f[k - 1][x]
  PROVE  f[m][x] = f[0][x]
<1> DEFINE T == {k \in 0 .. m : f[k][x] = f[0][x]}
<1>1. 0 \in T
  OBVIOUS
<1>2. ASSUME NEW k \in 0 .. m - 1, k \in T PROVE k + 1 \in T
  <2>1. k + 1 \in 1 .. m /\ (k + 1) - 1 = k /\ k + 1 \in 0 .. m
    OBVIOUS
  <2>2. f[k + 1][x] = f[k][x]
    BY <2>1
  <2>3. f[k][x] = f[0][x]
    BY <1>2
  <2> QED
    BY <2>1, <2>2, <2>3
<1> HIDE DEF T
<1>3. \A k \in 0 .. m : k \in T
  BY <1>1, <1>2, UpTo
<1>4. m \in T
  BY <1>3
<1> QED
  BY <1>4 DEF T

\* A piece lies at the rows of one unknown: what is gathered for it, and for another.
LEMMA RowOf ==
  ASSUME NEW u \in Unknowns, u # <<>>, NEW i \in 1 .. Len(u), NEW a \in Components(u[i].kind)
  PROVE  /\ Offset(u, i) \in Int /\ Offset(u, i) + a \in 0 .. Size(u) - 1
         /\ (Offset(u, i) + a) - Offset(u, i) = a
         /\ \A j \in 1 .. Len(u) : j # i => (Offset(u, i) + a) - Offset(u, j) \notin Components(u[j].kind)
<1>1. \A j \in 1 .. Len(u) : Offset(u, j) \in Int
  BY OffsetNext
<1>2. \A j \in 1 .. Len(u) : Width(u[j].kind) \in Nat /\ Components(u[j].kind) = 0 .. Width(u[j].kind) - 1
  BY UnknownFacts, WidthFacts
<1>3. Offset(u, i) + a \in Rows(u, i)
  BY <1>1, <1>2 DEF Rows
<1>4. Offset(u, i) + a \in 0 .. Size(u) - 1
  BY <1>3, RowsOfAll
<1>5. a \in Int
  BY <1>2
<1>6. ASSUME NEW j \in 1 .. Len(u), j # i
      PROVE  (Offset(u, i) + a) - Offset(u, j) \notin Components(u[j].kind)
  <2>1. Offset(u, i) + a \notin Rows(u, j)
    BY <1>3, <1>6, RowsOfOne
  <2> DEFINE r == Offset(u, i) + a
  <2>2. r \in Int
    BY <1>1, <1>5
  <2>3. Offset(u, j) \in Int /\ Width(u[j].kind) \in Nat
    BY <1>1, <1>2
  <2>4. r \notin Offset(u, j) .. Offset(u, j) + Width(u[j].kind) - 1
    BY <2>1 DEF Rows
  <2> HIDE DEF r
  <2>5. r - Offset(u, j) \notin 0 .. Width(u[j].kind) - 1
    BY <2>2, <2>3, <2>4
  <2> QED
    BY <1>2, <2>5 DEF r
<1>7. (Offset(u, i) + a) - Offset(u, i) = a
  BY <1>1, <1>5
<1> QED
  BY <1>1, <1>4, <1>6, <1>7

-----------------------------------------------------------------------------
(***************************************************************************)
(* The columns: the unknowns, or derivatives of them, as they are gathered *)
(* and come back.                                                          *)
(***************************************************************************)
\* A block for each unknown, its columns of one kind.
AreColumns(u, kind, X) == \A i \in 1 .. Len(u) : X[i] \in BlockOfKinds(u[i].kind, kind)

GatherStep(u, kind, X, i, M) == Gather(M, Size(u), Offset(u, i), 0, u[i].kind, kind, X[i])

LEMMA ZerosType ==
  ASSUME NEW ld \in Nat, NEW columns \in Nat
  PROVE  /\ Zeros(ld, columns) \in Buffer(ld, columns)
         /\ \A n \in 0 .. columns * ld - 1 : Zeros(ld, columns)[n] = Number(0)
<1>1. ld * columns = columns * ld
  OBVIOUS
<1>2. Number(0) \in Numbers
  BY DEF Number, Numbers
<1>3. Zeros(ld, columns) = [n \in 0 .. columns * ld - 1 |-> Number(0)]
  BY <1>1 DEF Zeros
<1> QED
  BY <1>2, <1>3 DEF Buffer

LEMMA ColumnsDef ==
  ASSUME NEW u \in Unknowns, u # <<>>, NEW kind \in Kind, NEW X, AreColumns(u, kind, X)
  PROVE  \E f \in [0 .. Len(u) -> Buffer(Size(u), Width(kind))] :
           /\ f[0] = Zeros(Size(u), Width(kind))
           /\ \A i \in 1 .. Len(u) : f[i] = GatherStep(u, kind, X, i, f[i - 1])
           /\ GatherColumns(u, kind, X) = f[Len(u)]
<1> DEFINE n == Len(u)  Z == Zeros(Size(u), Width(kind))  S == Buffer(Size(u), Width(kind))
           Step(i, M) == GatherStep(u, kind, X, i, M)
           columns[i \in 0 .. n] == IF i = 0 THEN Z ELSE Step(i, columns[i - 1])
           G == [p \in (1 .. n) \X S |-> Step(p[1], p[2])]
<1>1. n \in Nat /\ Size(u) \in Nat \ {0} /\ Width(kind) \in Nat
  BY UnknownFacts, RowsOfAll, WidthFacts
<1>2. Z \in S
  BY <1>1, ZerosType
<1>3. ASSUME NEW i \in 1 .. n, NEW M \in S PROVE Step(i, M) \in S
  <2>1. Offset(u, i) \in Int /\ u[i].kind \in Kind /\ X[i] \in BlockOfKinds(u[i].kind, kind) /\ 0 \in Int
    BY OffsetNext, UnknownFacts DEF AreColumns
  <2>2. Gather(M, Size(u), Offset(u, i), 0, u[i].kind, kind, X[i]) \in Buffer(Size(u), Width(kind))
    BY <1>1, <2>1, Gathered
  <2> QED
    BY <2>2 DEF GatherStep
<1>4. GatherColumns(u, kind, X) = columns[n]
  BY DEF GatherColumns, GatherStep
<1> HIDE DEF n, Z, S, Step
<1>5. G \in [(1 .. n) \X S -> S]
  BY <1>3
<1>6. PICK g \in [0 .. n -> S] : Recursive(g, n, Z, G)
  <2> HIDE DEF G, columns
  <2> QED
    BY <1>1, <1>2, <1>5, RecursiveFunction
<1>7. ASSUME NEW i \in 1 .. n PROVE g[i] = Step(i, g[i - 1])
  <2>1. <<i, g[i - 1]>> \in (1 .. n) \X S
    BY <1>1
  <2> QED
    BY <1>6, <2>1 DEF Recursive
<1>8. g = [i \in 0 .. n |-> IF i = 0 THEN Z ELSE Step(i, g[i - 1])]
  <2>1. ASSUME NEW i \in 0 .. n PROVE g[i] = IF i = 0 THEN Z ELSE Step(i, g[i - 1])
    BY <1>1, <1>6, <1>7 DEF Recursive
  <2> QED
    BY <2>1
<1>9. columns = [i \in 0 .. n |-> IF i = 0 THEN Z ELSE Step(i, columns[i - 1])]
  BY <1>8
<1> HIDE DEF columns, G
<1>10. columns[0] = Z /\ \A i \in 1 .. n : columns[i] = Step(i, columns[i - 1])
  BY <1>1, <1>9
<1> DEFINE T == {i \in 0 .. n : columns[i] \in S}
<1>11. 0 \in T
  BY <1>1, <1>2, <1>10
<1>12. ASSUME NEW i \in 0 .. n - 1, i \in T PROVE i + 1 \in T
  <2>1. i + 1 \in 1 .. n /\ (i + 1) - 1 = i /\ i + 1 \in 0 .. n /\ columns[i] \in S
    BY <1>1, <1>12
  <2>2. columns[i + 1] = Step(i + 1, columns[i])
    BY <1>10, <2>1
  <2> QED
    BY <1>3, <2>1, <2>2
<1> HIDE DEF T
<1>13. \A i \in 0 .. n : i \in T
  BY <1>1, <1>11, <1>12, UpTo
<1>14. columns \in [0 .. n -> S]
  BY <1>9, <1>13 DEF T
<1> QED
  BY <1>4, <1>10, <1>14 DEF n, Z, S, Step

\* What the columns have: the block of each unknown at its rows.
LEMMA ColumnsEntry ==
  ASSUME NEW u \in Unknowns, u # <<>>, NEW kind \in Kind, NEW X, AreColumns(u, kind, X)
  PROVE  /\ GatherColumns(u, kind, X) \in Buffer(Size(u), Width(kind))
         /\ \A i \in 1 .. Len(u) : \A a \in Components(u[i].kind), b \in Components(kind) :
              GatherColumns(u, kind, X)[b * Size(u) + (Offset(u, i) + a)]
                = Scaled(u[i].kind, kind, X[i][<<a, b>>], a, b)
<1> DEFINE n == Len(u)  N == Size(u)  S == Buffer(Size(u), Width(kind))
<1>1. n \in Nat /\ N \in Nat \ {0} /\ Width(kind) \in Nat
  BY UnknownFacts, RowsOfAll, WidthFacts
<1>2. PICK f \in [0 .. n -> S] :
        /\ \A i \in 1 .. n : f[i] = GatherStep(u, kind, X, i, f[i - 1])
        /\ GatherColumns(u, kind, X) = f[n]
  BY ColumnsDef
<1>3. ASSUME NEW i \in 1 .. n, NEW a \in Components(u[i].kind), NEW b \in Components(kind)
      PROVE  f[n][b * N + (Offset(u, i) + a)] = Scaled(u[i].kind, kind, X[i][<<a, b>>], a, b)
  <2> DEFINE r == Offset(u, i) + a  x == b * N + r
  <2>1. r \in 0 .. N - 1 /\ r - Offset(u, i) = a
        /\ \A j \in 1 .. n : j # i => r - Offset(u, j) \notin Components(u[j].kind)
    BY RowOf
  <2>2. b \in 0 .. Width(kind) - 1
    BY WidthFacts
  <2> HIDE DEF r, n, N
  <2>3. x \in 0 .. Width(kind) * N - 1 /\ x % N = r /\ x \div N = b
    <3>1. IsCell(N, Width(kind), r, b)
      BY <1>1, <2>1, <2>2 DEF IsCell
    <3>2. IsAt(N, Width(kind), r, b, b * N + r)
      BY <3>1, AtPosition
    <3> QED
      BY <3>2 DEF IsAt
  <2> HIDE DEF x
  <2>4. ASSUME NEW j \in 1 .. n
        PROVE  f[j][x] = IF r - Offset(u, j) \in Components(u[j].kind) /\ b - 0 \in Components(kind)
                         THEN Scaled(u[j].kind, kind, X[j][<<r - Offset(u, j), b - 0>>], r - Offset(u, j), b - 0)
                         ELSE f[j - 1][x]
    <3>1. Offset(u, j) \in Int /\ u[j].kind \in Kind /\ X[j] \in BlockOfKinds(u[j].kind, kind) /\ 0 \in Int
      BY OffsetNext, UnknownFacts DEF AreColumns, n
    <3>2. f[j - 1] \in Buffer(N, Width(kind))
      <4>1. j - 1 \in 0 .. n
        BY <1>1
      <4> QED
        BY <4>1 DEF N
    <3>3. f[j] = Gather(f[j - 1], N, Offset(u, j), 0, u[j].kind, kind, X[j])
      BY <1>2 DEF GatherStep, N
    <3>4. f[j][x] = GatheredEntry(f[j - 1], N, Offset(u, j), 0, u[j].kind, kind, X[j], x)
      <4> DEFINE M == f[j - 1]  o == Offset(u, j)  k == u[j].kind  B == X[j]  w == Width(kind)
      <4>1. N \in Nat \ {0} /\ w \in Nat /\ M \in Buffer(N, w) /\ o \in Int /\ k \in Kind
            /\ B \in BlockOfKinds(k, kind) /\ 0 \in Int /\ x \in 0 .. w * N - 1
        BY <1>1, <2>3, <3>1, <3>2
      <4> HIDE DEF M, o, k, B, w
      <4>2. Gather(M, N, o, 0, k, kind, B)[x] = GatheredEntry(M, N, o, 0, k, kind, B, x)
        BY <4>1, Gathered
      <4> QED
        BY <3>3, <4>2 DEF M, o, k, B
    <3> QED
      BY <2>3, <3>4 DEF GatheredEntry
  <2>5. b - 0 = b
    BY <2>2
  <2>6. f[i][x] = Scaled(u[i].kind, kind, X[i][<<a, b>>], a, b)
    BY <2>1, <2>4, <2>5
  <2>7. \A j \in 1 .. n : j # i => f[j][x] = f[j - 1][x]
    BY <2>1, <2>4
  <2>8. f[n][x] = f[i][x]
    BY <1>1, <2>7, OneWriter DEF OnlyWriter
  <2> QED
    BY <2>6, <2>8 DEF x, r, N
<1> QED
  BY <1>1, <1>2, <1>3

\* unpack, of one number.
Unscaled(rows, cols, v, a, b) ==
  CASE Shear(rows, a) # Shear(cols, b) -> v[2]
    [] Shear(rows, a) /\ Shear(cols, b) -> v[1] \div 2
    [] ~Shear(rows, a) /\ ~Shear(cols, b) -> v[1]

LEMMA UnscaledScaled ==
  ASSUME NEW rows, NEW cols, NEW a, NEW b, NEW x \in Int
  PROVE  Unscaled(rows, cols, Scaled(rows, cols, x, a, b), a, b) = x
<1> DEFINE s == Shear(rows, a)  t == Shear(cols, b)  v == Scaled(rows, cols, x, a, b)
<1>1. s \in BOOLEAN /\ t \in BOOLEAN
  BY DEF Shear
<1>2. v = <<x * (Times(Factor(rows, a), Factor(cols, b)))[1], x * (Times(Factor(rows, a), Factor(cols, b)))[2]>>
  <2>1. Times(Factor(rows, a), Factor(cols, b)) \in Numbers
    <3>1. Factor(rows, a) \in Numbers /\ Factor(cols, b) \in Numbers
      BY DEF Factor, Number, Root2, Numbers
    <3> QED
      BY <3>1, NumberFacts
  <2> DEFINE w == Times(Factor(rows, a), Factor(cols, b))
  <2>2. w[1] \in Int /\ w[2] \in Int
    BY <2>1 DEF Numbers
  <2>3. v = Times(Number(x), w)
    BY DEF Scaled
  <2> HIDE DEF v, w
  <2>4. Times(Number(x), w) = <<x * w[1], x * w[2]>>
    BY <2>2 DEF Times, Number
  <2> QED
    BY <2>3, <2>4 DEF w
<1>3. CASE s /\ t
  <2>1. Times(Factor(rows, a), Factor(cols, b)) = <<2, 0>>
    BY <1>3 DEF Factor, Root2, Times
  <2>2. v[1] = x * 2
    BY <1>2, <2>1
  <2>3. (x * 2) \div 2 = x
    OBVIOUS
  <2> QED
    BY <1>3, <2>2, <2>3 DEF Unscaled
<1>4. CASE s /\ ~t
  <2>1. Times(Factor(rows, a), Factor(cols, b)) = <<0, 1>>
    BY <1>4 DEF Factor, Root2, Number, Times
  <2>2. v[2] = x
    BY <1>2, <2>1
  <2> QED
    BY <1>4, <2>2 DEF Unscaled
<1>5. CASE ~s /\ t
  <2>1. Times(Factor(rows, a), Factor(cols, b)) = <<0, 1>>
    BY <1>5 DEF Factor, Root2, Number, Times
  <2>2. v[2] = x
    BY <1>2, <2>1
  <2> QED
    BY <1>5, <2>2 DEF Unscaled
<1>6. CASE ~s /\ ~t
  <2>1. Times(Factor(rows, a), Factor(cols, b)) = <<1, 0>>
    BY <1>6 DEF Factor, Number, Times
  <2>2. v[1] = x
    BY <1>2, <2>1
  <2> QED
    BY <1>6, <2>2 DEF Unscaled
<1> QED
  BY <1>1, <1>3, <1>4, <1>5, <1>6

\* scatter is the inverse of gather.
LEMMA ColumnsReturn ==
  ASSUME NEW u \in Unknowns, u # <<>>, NEW kind \in Kind, NEW X, AreColumns(u, kind, X),
         X = [i \in DOMAIN u |-> X[i]]
  PROVE  ScatterColumns(u, kind, GatherColumns(u, kind, X)) = X
<1> DEFINE M == GatherColumns(u, kind, X)  N == Size(u)  w == Width(kind)
<1>1. ASSUME NEW i \in DOMAIN u PROVE Scatter(M, N, Offset(u, i), 0, u[i].kind, kind) = X[i]
  <2> DEFINE k == u[i].kind  o == Offset(u, i)  v == Width(k)
             buf == [n \in 0 .. v * w - 1 |-> M[o + (n \div w) + (0 + (n % w)) * N]]
  <2>1. i \in 1 .. Len(u)
    BY UnknownFacts
  <2>2. k \in Kind /\ o \in Int /\ v \in Nat \ {0} /\ w \in Nat \ {0} /\ N \in Nat \ {0}
    BY <2>1, UnknownFacts, OffsetNext, WidthFacts, RowsOfAll
  <2>3. X[i] \in [Components(k) \X Components(kind) -> Int]
    BY <2>1 DEF AreColumns, BlockOfKinds
  <2>4. Scatter(M, N, o, 0, k, kind) = Unpack(k, kind, buf)
    BY DEF Scatter
  <2>5. ASSUME NEW a \in Components(k), NEW b \in Components(kind)
        PROVE  buf[a * w + b] = Scaled(k, kind, X[i][<<a, b>>], a, b)
    <3>1. M[b * N + (o + a)] = Scaled(k, kind, X[i][<<a, b>>], a, b)
      BY <2>1, ColumnsEntry
    <3> DEFINE m == a * w + b
    <3> HIDE DEF k, o, v, w, M, N
    <3>2. a \in 0 .. v - 1 /\ b \in 0 .. w - 1
      BY <2>2, WidthFacts DEF v, w
    <3>3. m \in 0 .. v * w - 1
      BY <2>2, <3>2, Position
    <3>4. m \div w = a /\ m % w = b
      <4>1. a \in Int
        BY <3>2
      <4> QED
        BY <2>2, <3>2, <4>1, Division
    <3> HIDE DEF m
    <3>5. buf[m] = M[o + a + (0 + b) * N]
      BY <3>3, <3>4
    <3>6. o + a + (0 + b) * N = b * N + (o + a)
      <4>1. a \in Int /\ b \in Int /\ 0 + b = b
        BY <3>2
      <4> QED
        BY <2>2, <4>1
    <3> QED
      BY <3>1, <3>5, <3>6 DEF m
  <2> HIDE DEF buf, o, M, N
  <2>6. Unpack(k, kind, buf) = [p \in Components(k) \X Components(kind) |->
                                   Unscaled(k, kind, buf[p[1] * w + p[2]], p[1], p[2])]
    BY DEF Unpack, Unscaled
  <2> HIDE DEF k, w
  <2>7. ASSUME NEW p \in Components(k) \X Components(kind)
        PROVE  Unscaled(k, kind, buf[p[1] * w + p[2]], p[1], p[2]) = X[i][p]
    <3>1. p[1] \in Components(k) /\ p[2] \in Components(kind) /\ p = <<p[1], p[2]>>
      OBVIOUS
    <3>2. buf[p[1] * w + p[2]] = Scaled(k, kind, X[i][<<p[1], p[2]>>], p[1], p[2])
      BY <2>5, <3>1
    <3>3. X[i][p] \in Int
      BY <2>3
    <3>4. Unscaled(k, kind, Scaled(k, kind, X[i][p], p[1], p[2]), p[1], p[2]) = X[i][p]
      BY <3>3, UnscaledScaled
    <3> QED
      BY <3>1, <3>2, <3>4
  <2>8. Unpack(k, kind, buf) = X[i]
    BY <2>3, <2>6, <2>7
  <2> QED
    BY <2>4, <2>8 DEF k, o
<1>2. ScatterColumns(u, kind, M) = [i \in DOMAIN u |-> Scatter(M, N, Offset(u, i), 0, u[i].kind, kind)]
  BY DEF ScatterColumns
<1> QED
  BY <1>1, <1>2

-----------------------------------------------------------------------------
(***************************************************************************)
(* The matrix: every block of the jacobian is where it belongs.            *)
(***************************************************************************)
AreBlocks(u, J) ==
  DOMAIN J = Blocks(u) /\ \A ij \in Blocks(u) : J[ij] \in BlockOfKinds(u[ij[1]].kind, u[ij[2]].kind)

\* What is asked for by the name of a block is that block.
LEMMA PublishedBlock ==
  ASSUME NEW u \in Unknowns, BlockNamesDiffer(u), NEW J, DOMAIN J = Blocks(u), NEW ij \in Blocks(u)
  PROVE  BlockOf(u, Published(u, J), ij) = J[ij]
<1> DEFINE name(kl) == JacobianName(u[kl[1]].name, u[kl[2]].name)
           named(n) == {kl \in DOMAIN J : JacobianName(u[kl[1]].name, u[kl[2]].name) = n}
           names == {JacobianName(u[i].name, u[j].name) : i, j \in DOMAIN u}
<1>1. ij[1] \in DOMAIN u /\ ij[2] \in DOMAIN u /\ ij = <<ij[1], ij[2]>>
  BY DEF Blocks
<1>2. name(ij) \in names
  BY <1>1
<1>3. ASSUME NEW kl \in named(name(ij)) PROVE kl = ij
  <2>1. kl[1] \in DOMAIN u /\ kl[2] \in DOMAIN u /\ kl = <<kl[1], kl[2]>>
    BY DEF Blocks
  <2>2. kl[1] = ij[1] /\ kl[2] = ij[2]
    BY <1>1, <2>1 DEF BlockNamesDiffer
  <2> QED
    BY <1>1, <2>1, <2>2
<1>4. ij \in named(name(ij))
  OBVIOUS
<1>5. (CHOOSE kl \in named(name(ij)) : TRUE) = ij
  <2> HIDE DEF named, name
  <2> QED
    BY <1>3, <1>4
<1>6. Published(u, J) = [n \in names |-> J[CHOOSE kl \in named(n) : TRUE]]
  BY DEF Published
<1> HIDE DEF named, names
<1>7. Published(u, J)[name(ij)] = J[CHOOSE kl \in named(name(ij)) : TRUE]
  BY <1>2, <1>6
<1> QED
  BY <1>5, <1>7 DEF BlockOf

LEMMA NthBlockFacts ==
  ASSUME NEW n \in Nat \ {0}
  PROVE  /\ n * n \in Nat
         /\ \A k \in 1 .. n * n : NthBlock(n, k) \in (1 .. n) \X (1 .. n)
         /\ \A i \in 1 .. n, j \in 1 .. n :
              /\ (i - 1) * n + j \in 1 .. n * n /\ NthBlock(n, (i - 1) * n + j) = <<i, j>>
              /\ \A k \in 1 .. n * n : k # (i - 1) * n + j => NthBlock(n, k) # <<i, j>>
<1>1. n * n \in Nat
  OBVIOUS
<1>2. ASSUME NEW k \in 1 .. n * n
      PROVE  /\ NthBlock(n, k) \in (1 .. n) \X (1 .. n)
             /\ \A i, j : NthBlock(n, k) = <<i, j>> => k = (i - 1) * n + j
  <2> DEFINE x == k - 1  q == x \div n  r == x % n
  <2>1. x \in 0 .. n * n - 1 /\ n \in Nat
    BY <1>1
  <2>2. q \in 0 .. n - 1 /\ r \in 0 .. n - 1 /\ x = q * n + r
    <3> HIDE DEF x
    <3> QED
      BY <2>1, Remainder
  <2>3. NthBlock(n, k) = <<q + 1, r + 1>>
    BY DEF NthBlock
  <2> HIDE DEF q, r
  <2>4. (q + 1) - 1 = q /\ q * n \in Int
    BY <2>2
  <2>5. k = ((q + 1) - 1) * n + (r + 1)
    BY <1>1, <2>2, <2>4
  <2> QED
    BY <2>2, <2>3, <2>5
<1>3. ASSUME NEW i \in 1 .. n, NEW j \in 1 .. n
      PROVE  (i - 1) * n + j \in 1 .. n * n /\ NthBlock(n, (i - 1) * n + j) = <<i, j>>
  <2> DEFINE a == i - 1  b == j - 1  x == a * n + b
  <2>1. a \in 0 .. n - 1 /\ b \in 0 .. n - 1 /\ n \in Nat /\ a \in Int
    OBVIOUS
  <2>2. a + 1 = i /\ b + 1 = j
    OBVIOUS
  <2> HIDE DEF a, b
  <2>3. x \in 0 .. n * n - 1 /\ x \div n = a /\ x % n = b
    BY <2>1, Position, Division
  <2>4. a * n \in Int
    BY <2>1
  <2>5. a * n + j = x + 1 /\ (a * n + j) - 1 = x
    BY <2>1, <2>2, <2>4
  <2> HIDE DEF x
  <2>6. a * n + j \in 1 .. n * n
    BY <1>1, <2>3, <2>5
  <2>7. NthBlock(n, a * n + j) = <<i, j>>
    BY <2>2, <2>3, <2>5 DEF NthBlock
  <2> QED
    BY <2>6, <2>7 DEF a
<1>4. ASSUME NEW i \in 1 .. n, NEW j \in 1 .. n, NEW k \in 1 .. n * n, k # (i - 1) * n + j
      PROVE  NthBlock(n, k) # <<i, j>>
  BY <1>2, <1>4
<1>5. \A k \in 1 .. n * n : NthBlock(n, k) \in (1 .. n) \X (1 .. n)
  BY <1>2
<1> QED
  BY <1>1, <1>3, <1>4, <1>5

ArePublished(u, P) ==
  \A i, j \in 1 .. Len(u) : BlockOf(u, P, <<i, j>>) \in BlockOfKinds(u[i].kind, u[j].kind)

GatherBlock(u, P, ij, M) ==
  Gather(M, Size(u), Offset(u, ij[1]), Offset(u, ij[2]), u[ij[1]].kind, u[ij[2]].kind, BlockOf(u, P, ij))

Lists(s, u) == s.unknowns = u

GatherNth(s, u, P, k, M) ==
  IF NthBlock(Len(u), k) \in Wired(s) THEN GatherBlock(u, P, NthBlock(Len(u), k), M) ELSE M

\* One more block.
LEMMA GatherBlockType ==
  ASSUME NEW u \in Unknowns, u # <<>>, NEW P, ArePublished(u, P), NEW ij \in (1 .. Len(u)) \X (1 .. Len(u)),
         NEW M \in Buffer(Size(u), Size(u))
  PROVE  /\ GatherBlock(u, P, ij, M) \in Buffer(Size(u), Size(u))
         /\ \A x \in 0 .. Size(u) * Size(u) - 1 :
              GatherBlock(u, P, ij, M)[x]
                = GatheredEntry(M, Size(u), Offset(u, ij[1]), Offset(u, ij[2]), u[ij[1]].kind, u[ij[2]].kind,
                                BlockOf(u, P, ij), x)
<1> DEFINE N == Size(u)  r == Offset(u, ij[1])  c == Offset(u, ij[2])  k == u[ij[1]].kind  l == u[ij[2]].kind
           B == BlockOf(u, P, ij)
<1>1. ij[1] \in 1 .. Len(u) /\ ij[2] \in 1 .. Len(u) /\ ij = <<ij[1], ij[2]>>
  OBVIOUS
<1>2. N \in Nat \ {0} /\ r \in Int /\ c \in Int /\ k \in Kind /\ l \in Kind
  BY <1>1, RowsOfAll, OffsetNext, UnknownFacts
<1>3. B \in BlockOfKinds(k, l)
  BY <1>1 DEF ArePublished
<1>4. GatherBlock(u, P, ij, M) = Gather(M, N, r, c, k, l, B)
  BY DEF GatherBlock
<1>5. M \in Buffer(N, N) /\ N \in Nat
  BY <1>2
<1> HIDE DEF N, r, c, k, l, B
<1>6. Gather(M, N, r, c, k, l, B) \in Buffer(N, N)
      /\ \A x \in 0 .. N * N - 1 :
           Gather(M, N, r, c, k, l, B)[x] = GatheredEntry(M, N, r, c, k, l, B, x)
  BY <1>2, <1>3, <1>5, Gathered
<1> QED
  BY <1>4, <1>6 DEF N, r, c, k, l, B

LEMMA JacobianDef ==
  ASSUME NEW s, NEW u \in Unknowns, Lists(s, u), u # <<>>, NEW P, ArePublished(u, P)
  PROVE  \E f \in [0 .. Len(u) * Len(u) -> Buffer(Size(u), Size(u))] :
           /\ f[0] = Zeros(Size(u), Size(u))
           /\ \A k \in 1 .. Len(u) * Len(u) : f[k] = GatherNth(s, u, P, k, f[k - 1])
           /\ GatherJacobian(s, P) = f[Len(u) * Len(u)]
<1> DEFINE n == Len(u) * Len(u)  Z == Zeros(Size(u), Size(u))  S == Buffer(Size(u), Size(u))
           Step(k, M) == GatherNth(s, u, P, k, M)
           matrix[k \in 0 .. n] == IF k = 0 THEN Z ELSE Step(k, matrix[k - 1])
           G == [p \in (1 .. n) \X S |-> Step(p[1], p[2])]
<1>1. Len(u) \in Nat \ {0} /\ Size(u) \in Nat \ {0}
  <2>1. Len(u) # 0
    BY DEF Unknowns
  <2> QED
    BY <2>1, UnknownFacts, RowsOfAll
<1>2. n \in Nat /\ \A k \in 1 .. n : NthBlock(Len(u), k) \in (1 .. Len(u)) \X (1 .. Len(u))
  BY <1>1, NthBlockFacts
<1>3. Z \in S
  BY <1>1, ZerosType
<1>4. ASSUME NEW k \in 1 .. n, NEW M \in S PROVE Step(k, M) \in S
  <2>1. CASE NthBlock(Len(u), k) \in Wired(s)
    <3>1. Step(k, M) = GatherBlock(u, P, NthBlock(Len(u), k), M)
      BY <2>1 DEF GatherNth
    <3> QED
      BY <1>2, <3>1, GatherBlockType
  <2>2. CASE NthBlock(Len(u), k) \notin Wired(s)
    BY <2>2 DEF GatherNth
  <2> QED
    BY <2>1, <2>2
<1>5. GatherJacobian(s, P) = matrix[n]
  BY DEF GatherJacobian, GatherNth, GatherBlock, Lists
<1> HIDE DEF n, Z, S, Step
<1>6. G \in [(1 .. n) \X S -> S]
  BY <1>4
<1>7. PICK g \in [0 .. n -> S] : Recursive(g, n, Z, G)
  <2> HIDE DEF G, matrix
  <2> QED
    BY <1>2, <1>3, <1>6, RecursiveFunction
<1>8. ASSUME NEW k \in 1 .. n PROVE g[k] = Step(k, g[k - 1])
  <2>1. <<k, g[k - 1]>> \in (1 .. n) \X S
    BY <1>2
  <2> QED
    BY <1>7, <2>1 DEF Recursive
<1>9. g = [k \in 0 .. n |-> IF k = 0 THEN Z ELSE Step(k, g[k - 1])]
  <2>1. ASSUME NEW k \in 0 .. n PROVE g[k] = IF k = 0 THEN Z ELSE Step(k, g[k - 1])
    BY <1>2, <1>7, <1>8 DEF Recursive
  <2> QED
    BY <2>1
<1>10. matrix = [k \in 0 .. n |-> IF k = 0 THEN Z ELSE Step(k, matrix[k - 1])]
  BY <1>9
<1> HIDE DEF matrix, G
<1>11. matrix[0] = Z /\ \A k \in 1 .. n : matrix[k] = Step(k, matrix[k - 1])
  BY <1>2, <1>10
<1> DEFINE T == {k \in 0 .. n : matrix[k] \in S}
<1>12. 0 \in T
  BY <1>2, <1>3, <1>11
<1>13. ASSUME NEW i \in 0 .. n - 1, i \in T PROVE i + 1 \in T
  <2>1. i + 1 \in 1 .. n /\ (i + 1) - 1 = i /\ i + 1 \in 0 .. n
    BY <1>2
  <2>2. matrix[i] \in S
    BY <1>13
  <2>3. matrix[i + 1] = Step(i + 1, matrix[i])
    BY <1>11, <2>1
  <2> QED
    BY <1>4, <2>1, <2>2, <2>3
<1> HIDE DEF T
<1>14. \A i \in 0 .. n : i \in T
  BY <1>2, <1>12, <1>13, UpTo
<1>15. matrix \in [0 .. n -> S]
  BY <1>10, <1>14 DEF T
<1> QED
  BY <1>5, <1>11, <1>15 DEF n, Z, S, Step

LEMMA JacobianEntry ==
  ASSUME NEW s, NEW u \in Unknowns, Lists(s, u), u # <<>>, NEW P, ArePublished(u, P)
  PROVE  /\ GatherJacobian(s, P) \in Buffer(Size(u), Size(u))
         /\ \A i, j \in 1 .. Len(u) : \A a \in Components(u[i].kind), b \in Components(u[j].kind) :
              GatherJacobian(s, P)[(Offset(u, j) + b) * Size(u) + (Offset(u, i) + a)]
                = IF <<i, j>> \in Wired(s)
                  THEN Scaled(u[i].kind, u[j].kind, BlockOf(u, P, <<i, j>>)[<<a, b>>], a, b)
                  ELSE Number(0)
<1> DEFINE m == Len(u) * Len(u)  N == Size(u)  S == Buffer(N, N)
<1>1. Len(u) \in Nat \ {0} /\ N \in Nat \ {0}
  <2>1. Len(u) # 0
    BY DEF Unknowns
  <2> QED
    BY <2>1, UnknownFacts, RowsOfAll
<1>2. m \in Nat
  BY <1>1, NthBlockFacts
<1>3. PICK f \in [0 .. m -> S] :
        /\ f[0] = Zeros(N, N) /\ \A k \in 1 .. m : f[k] = GatherNth(s, u, P, k, f[k - 1])
        /\ GatherJacobian(s, P) = f[m]
  BY JacobianDef
<1>4. ASSUME NEW i \in 1 .. Len(u), NEW j \in 1 .. Len(u),
             NEW a \in Components(u[i].kind), NEW b \in Components(u[j].kind)
      PROVE  f[m][(Offset(u, j) + b) * N + (Offset(u, i) + a)]
               = IF <<i, j>> \in Wired(s)
                 THEN Scaled(u[i].kind, u[j].kind, BlockOf(u, P, <<i, j>>)[<<a, b>>], a, b)
                 ELSE Number(0)
  <2> DEFINE r == Offset(u, i) + a  c == Offset(u, j) + b  x == c * N + r  w == (i - 1) * Len(u) + j
             V == Scaled(u[i].kind, u[j].kind, BlockOf(u, P, <<i, j>>)[<<a, b>>], a, b)
             Entry(kl, M) == GatheredEntry(M, N, Offset(u, kl[1]), Offset(u, kl[2]), u[kl[1]].kind, u[kl[2]].kind,
                                           BlockOf(u, P, kl), x)
  <2>1. /\ r \in 0 .. N - 1 /\ r - Offset(u, i) = a
        /\ \A k \in 1 .. Len(u) : k # i => r - Offset(u, k) \notin Components(u[k].kind)
    BY RowOf
  <2>2. /\ c \in 0 .. N - 1 /\ c - Offset(u, j) = b
        /\ \A k \in 1 .. Len(u) : k # j => c - Offset(u, k) \notin Components(u[k].kind)
    BY RowOf
  <2>3. x \in 0 .. N * N - 1 /\ x % N = r /\ x \div N = c
    <3> HIDE DEF r, c, N
    <3>1. IsCell(N, N, r, c)
      BY <1>1, <2>1, <2>2 DEF IsCell
    <3>2. IsAt(N, N, r, c, c * N + r)
      BY <3>1, AtPosition
    <3> QED
      BY <3>2 DEF IsAt
  <2>4. w \in 1 .. m /\ NthBlock(Len(u), w) = <<i, j>>
        /\ \A k \in 1 .. m : k # w => NthBlock(Len(u), k) # <<i, j>>
    BY <1>1, NthBlockFacts
  <2>5. \A k \in 1 .. m : NthBlock(Len(u), k) \in (1 .. Len(u)) \X (1 .. Len(u))
    BY <1>1, NthBlockFacts
  <2> HIDE DEF x, w, r, c, m
  <2>6. ASSUME NEW k \in 1 .. m
        PROVE  f[k][x] = IF NthBlock(Len(u), k) \in Wired(s) THEN Entry(NthBlock(Len(u), k), f[k - 1])
                         ELSE f[k - 1][x]
    <3>1. f[k] = GatherNth(s, u, P, k, f[k - 1])
      BY <1>3
    <3>2. f[k - 1] \in Buffer(Size(u), Size(u))
      <4>1. k - 1 \in 0 .. m
        BY <1>2
      <4> QED
        BY <1>3, <4>1
    <3>3. CASE NthBlock(Len(u), k) \in Wired(s)
      <4> DEFINE kl == NthBlock(Len(u), k)  M == f[k - 1]
      <4>1. kl \in (1 .. Len(u)) \X (1 .. Len(u)) /\ x \in 0 .. Size(u) * Size(u) - 1
        BY <2>3, <2>5
      <4>2. f[k] = GatherBlock(u, P, kl, M)
        BY <3>1, <3>3 DEF GatherNth
      <4> HIDE DEF kl, M
      <4>3. GatherBlock(u, P, kl, M)[x] = Entry(kl, M)
        <5>1. M \in Buffer(Size(u), Size(u))
          BY <3>2 DEF M
        <5> QED
          BY <4>1, <5>1, GatherBlockType
      <4>4. f[k][x] = Entry(kl, M)
        BY <4>2, <4>3
      <4> QED
        BY <3>3, <4>4 DEF kl, M
    <3>4. CASE NthBlock(Len(u), k) \notin Wired(s)
      BY <3>1, <3>4 DEF GatherNth
    <3> QED
      BY <3>3, <3>4
  <2>7. ASSUME NEW kl \in (1 .. Len(u)) \X (1 .. Len(u)), kl # <<i, j>>, NEW M PROVE Entry(kl, M) = M[x]
    <3>1. kl[1] \in 1 .. Len(u) /\ kl[2] \in 1 .. Len(u) /\ (kl[1] # i \/ kl[2] # j)
      BY <2>7
    <3>2. ~ ((x % N) - Offset(u, kl[1]) \in Components(u[kl[1]].kind)
             /\ (x \div N) - Offset(u, kl[2]) \in Components(u[kl[2]].kind))
      BY <2>1, <2>2, <2>3, <3>1
    <3> QED
      BY <3>2 DEF GatheredEntry
  <2>8. ASSUME NEW M PROVE Entry(<<i, j>>, M) = V
    BY <2>1, <2>2, <2>3 DEF GatheredEntry
  <2> HIDE DEF Entry, V
  <2>9. ASSUME NEW k \in 1 .. m, k # w PROVE f[k][x] = f[k - 1][x]
    BY <2>4, <2>5, <2>6, <2>7, <2>9
  <2>10. CASE <<i, j>> \in Wired(s)
    <3>1. f[w][x] = V
      BY <2>4, <2>6, <2>8, <2>10
    <3>2. f[m][x] = f[w][x]
      <4>1. m \in Nat /\ w \in 1 .. m /\ OnlyWriter(f, x, m, w)
        BY <1>2, <2>4, <2>9 DEF OnlyWriter
      <4> QED
        BY <4>1, OneWriter
    <3> QED
      BY <2>10, <3>1, <3>2 DEF x, c, r, m, V
  <2>11. CASE <<i, j>> \notin Wired(s)
    <3>1. \A k \in 1 .. m : f[k][x] = f[k - 1][x]
      BY <2>4, <2>6, <2>9, <2>11
    <3>2. f[m][x] = f[0][x]
      BY <1>2, <3>1, NoWriter
    <3>3. f[0][x] = Number(0)
      BY <1>1, <1>3, <2>3, ZerosType
    <3> QED
      BY <2>11, <3>2, <3>3 DEF x, c, r, m
  <2> QED
    BY <2>10, <2>11
<1>5. f[m] \in S
  BY <1>2, <1>3
<1> QED
  BY <1>3, <1>4, <1>5

-----------------------------------------------------------------------------
(***************************************************************************)
(* What the matrix does to the columns of a unit.                          *)
(***************************************************************************)
LEMMA TimesZero ==
  ASSUME NEW v \in Numbers
  PROVE  Times(v, Number(0)) = Number(0) /\ Times(Number(0), v) = Number(0)
<1>1. v[1] \in Int /\ v[2] \in Int
  BY DEF Numbers
<1> QED
  BY <1>1 DEF Times, Number

LEMMA ScaledZero ==
  ASSUME NEW rows, NEW cols, NEW a, NEW b
  PROVE  Scaled(rows, cols, 0, a, b) = Number(0)
<1>1. Factor(rows, a) \in Numbers /\ Factor(cols, b) \in Numbers
  BY DEF Factor, Number, Root2, Numbers
<1>2. Times(Factor(rows, a), Factor(cols, b)) \in Numbers
  BY <1>1, NumberFacts
<1> QED
  BY <1>2, TimesZero DEF Scaled

\* Two square roots of two meet where the components of a contraction are counted twice.
LEMMA ScaledTimes ==
  ASSUME NEW rows, NEW inner, NEW cols, NEW a, NEW b, NEW c, NEW y \in Int, NEW d \in {0, 1}
  PROVE  Times(Scaled(rows, inner, y, a, c), Scaled(inner, cols, d, c, b))
           = Scaled(rows, cols, Weight(inner, c) * y * d, a, b)
<1> DEFINE f == Factor(rows, a)  g == Factor(inner, c)  h == Factor(cols, b)  w == Weight(inner, c)
<1>1. f \in {<<1, 0>>, <<0, 1>>} /\ h \in {<<1, 0>>, <<0, 1>>}
  BY DEF Factor, Number, Root2
<1>2. (g = <<1, 0>> /\ w = 1) \/ (g = <<0, 1>> /\ w = 2)
  BY DEF Factor, Number, Root2, Weight
<1> HIDE DEF f, g, h, w
<1>3. Times(Times(<<y, 0>>, Times(f, g)), Times(<<d, 0>>, Times(g, h))) = Times(<<w * y * d, 0>>, Times(f, h))
  <2>1. CASE g = <<1, 0>> /\ w = 1
    <3>1. Times(f, g) = f /\ Times(g, h) = h
      BY <1>1, <2>1 DEF Times
    <3>2. Times(Times(<<y, 0>>, f), Times(<<d, 0>>, h)) = Times(<<y * d, 0>>, Times(f, h))
      BY <1>1 DEF Times
    <3>3. w * y * d = y * d
      BY <2>1
    <3> QED
      BY <3>1, <3>2, <3>3
  <2>2. CASE g = <<0, 1>> /\ w = 2
    <3>1. CASE f = <<1, 0>>
      <4>1. Times(f, g) = <<0, 1>> /\ Times(<<y, 0>>, <<0, 1>>) = <<0, y>>
        BY <2>2, <3>1 DEF Times
      <4>2. CASE h = <<1, 0>>
        <5>1. Times(g, h) = <<0, 1>> /\ Times(<<d, 0>>, <<0, 1>>) = <<0, d>> /\ Times(f, h) = <<1, 0>>
          BY <2>2, <3>1, <4>2 DEF Times
        <5>2. Times(<<0, y>>, <<0, d>>) = <<2 * y * d, 0>> /\ Times(<<2 * y * d, 0>>, <<1, 0>>) = <<2 * y * d, 0>>
          BY DEF Times
        <5> QED
          BY <2>2, <4>1, <5>1, <5>2
      <4>3. CASE h = <<0, 1>>
        <5>1. Times(g, h) = <<2, 0>> /\ Times(<<d, 0>>, <<2, 0>>) = <<2 * d, 0>> /\ Times(f, h) = <<0, 1>>
          BY <2>2, <3>1, <4>3 DEF Times
        <5>2. Times(<<0, y>>, <<2 * d, 0>>) = <<0, 2 * y * d>> /\ Times(<<2 * y * d, 0>>, <<0, 1>>) = <<0, 2 * y * d>>
          BY DEF Times
        <5> QED
          BY <2>2, <4>1, <5>1, <5>2
      <4> QED
        BY <1>1, <4>2, <4>3
    <3>2. CASE f = <<0, 1>>
      <4>1. Times(f, g) = <<2, 0>> /\ Times(<<y, 0>>, <<2, 0>>) = <<2 * y, 0>>
        BY <2>2, <3>2 DEF Times
      <4>2. CASE h = <<1, 0>>
        <5>1. Times(g, h) = <<0, 1>> /\ Times(<<d, 0>>, <<0, 1>>) = <<0, d>> /\ Times(f, h) = <<0, 1>>
          BY <2>2, <3>2, <4>2 DEF Times
        <5>2. Times(<<2 * y, 0>>, <<0, d>>) = <<0, 2 * y * d>> /\ Times(<<2 * y * d, 0>>, <<0, 1>>) = <<0, 2 * y * d>>
          BY DEF Times
        <5> QED
          BY <2>2, <4>1, <5>1, <5>2
      <4>3. CASE h = <<0, 1>>
        <5>1. Times(g, h) = <<2, 0>> /\ Times(<<d, 0>>, <<2, 0>>) = <<2 * d, 0>> /\ Times(f, h) = <<2, 0>>
          BY <2>2, <3>2, <4>3 DEF Times
        <5>2. Times(<<2 * y, 0>>, <<2 * d, 0>>) = <<4 * y * d, 0>> /\ Times(<<2 * y * d, 0>>, <<2, 0>>) = <<4 * y * d, 0>>
          BY DEF Times
        <5> QED
          BY <2>2, <4>1, <5>1, <5>2
      <4> QED
        BY <1>1, <4>2, <4>3
    <3> QED
      BY <1>1, <3>1, <3>2
  <2> QED
    BY <1>2, <2>1, <2>2
<1> QED
  BY <1>3 DEF Scaled, Number, f, g, h, w

UnitOf(u, kind, i, p) ==
  [j \in DOMAIN u |-> IF j = i THEN UnitBlock(u[i].kind, kind, p) ELSE ZeroBlock(u[j].kind, kind)]

OneIf(c) == IF c THEN 1 ELSE 0

IsUnit(u, kind, i, p, X) ==
  \A j \in 1 .. Len(u) : \A a \in Components(u[j].kind), b \in Components(kind) :
    X[j][<<a, b>>] = OneIf(j = i /\ a = p[1] /\ b = p[2])

LEMMA UnitFacts ==
  ASSUME NEW u \in Unknowns, NEW kind \in Kind, NEW i \in 1 .. Len(u),
         NEW p \in Components(u[i].kind) \X Components(kind)
  PROVE  /\ AreColumns(u, kind, UnitOf(u, kind, i, p))
         /\ UnitOf(u, kind, i, p) = [j \in DOMAIN u |-> UnitOf(u, kind, i, p)[j]]
         /\ IsUnit(u, kind, i, p, UnitOf(u, kind, i, p))
<1> DEFINE X == UnitOf(u, kind, i, p)
<1>1. DOMAIN u = 1 .. Len(u)
  BY UnknownFacts
<1>2. X = [j \in DOMAIN u |-> IF j = i THEN UnitBlock(u[i].kind, kind, p) ELSE ZeroBlock(u[j].kind, kind)]
  BY DEF UnitOf
<1>3. p = <<p[1], p[2]>>
  OBVIOUS
<1> HIDE DEF X
<1>4. ASSUME NEW j \in 1 .. Len(u)
      PROVE  /\ X[j] \in BlockOfKinds(u[j].kind, kind)
             /\ \A a \in Components(u[j].kind), b \in Components(kind) :
                  X[j][<<a, b>>] = OneIf(j = i /\ a = p[1] /\ b = p[2])
  <2>1. CASE j = i
    <3>1. X[j] = [q \in Components(u[j].kind) \X Components(kind) |-> IF q = p THEN 1 ELSE 0]
      BY <1>1, <1>2, <2>1 DEF UnitBlock
    <3>2. ASSUME NEW a \in Components(u[j].kind), NEW b \in Components(kind)
          PROVE  X[j][<<a, b>>] = OneIf(j = i /\ a = p[1] /\ b = p[2])
      <4>1. X[j][<<a, b>>] = IF <<a, b>> = p THEN 1 ELSE 0
        BY <3>1
      <4>2. <<a, b>> = p <=> a = p[1] /\ b = p[2]
        BY <1>3
      <4> QED
        BY <2>1, <4>1, <4>2 DEF OneIf
    <3>3. X[j] \in BlockOfKinds(u[j].kind, kind)
      BY <3>1 DEF BlockOfKinds
    <3> QED
      BY <3>2, <3>3
  <2>2. CASE j # i
    <3>1. X[j] = [q \in Components(u[j].kind) \X Components(kind) |-> 0]
      BY <1>1, <1>2, <2>2 DEF ZeroBlock
    <3>2. X[j] \in BlockOfKinds(u[j].kind, kind)
      BY <3>1 DEF BlockOfKinds
    <3> QED
      BY <2>2, <3>1, <3>2 DEF OneIf
  <2> QED
    BY <2>1, <2>2
<1>5. X = [j \in DOMAIN u |-> X[j]]
  BY <1>2
<1> QED
  BY <1>4, <1>5 DEF AreColumns, IsUnit, X

\* A row is a component of an unknown.
LEMMA RowIsComponent ==
  ASSUME NEW u \in Unknowns, NEW r \in 0 .. Size(u) - 1
  PROVE  \E i \in 1 .. Len(u) : \E a \in Components(u[i].kind) : r = Offset(u, i) + a
<1>1. PICK i \in 1 .. Len(u) : r \in Rows(u, i)
  BY RowsOfAll
<1> DEFINE a == r - Offset(u, i)
<1>2. Offset(u, i) \in Int /\ Width(u[i].kind) \in Nat /\ u[i].kind \in Kind /\ r \in Int
  BY OffsetNext, UnknownFacts, RowsOfAll
<1>3. a \in 0 .. Width(u[i].kind) - 1 /\ r = Offset(u, i) + a
  BY <1>1, <1>2 DEF Rows
<1>4. a \in Components(u[i].kind)
  BY <1>2, <1>3, WidthFacts
<1> QED
  BY <1>3, <1>4

\* The column of a unit has one number that is not zero.
LEMMA UnitEntry ==
  ASSUME NEW u \in Unknowns, u # <<>>, NEW kind \in Kind, NEW i \in 1 .. Len(u),
         NEW p \in Components(u[i].kind) \X Components(kind),
         NEW l \in 0 .. Size(u) - 1, NEW b \in Components(kind)
  PROVE  GatherColumns(u, kind, UnitOf(u, kind, i, p))[b * Size(u) + l]
           = IF l = Offset(u, i) + p[1] THEN Scaled(u[i].kind, kind, OneIf(b = p[2]), p[1], b) ELSE Number(0)
<1> DEFINE X == UnitOf(u, kind, i, p)
<1>1. PICK j \in 1 .. Len(u) : \E a \in Components(u[j].kind) : l = Offset(u, j) + a
  BY RowIsComponent
<1>2. PICK a \in Components(u[j].kind) : l = Offset(u, j) + a
  BY <1>1
<1>3. AreColumns(u, kind, X) /\ X[j][<<a, b>>] = OneIf(j = i /\ a = p[1] /\ b = p[2])
  <2>1. AreColumns(u, kind, X)
    BY UnitFacts
  <2>2. IsUnit(u, kind, i, p, X)
    BY UnitFacts
  <2> HIDE DEF X
  <2> QED
    BY <2>1, <2>2 DEF IsUnit
<1>4. GatherColumns(u, kind, X)[b * Size(u) + l] = Scaled(u[j].kind, kind, X[j][<<a, b>>], a, b)
  <2> HIDE DEF X
  <2> QED
    BY <1>2, <1>3, ColumnsEntry
<1>5. p[1] \in Components(u[i].kind)
  OBVIOUS
<1>6. CASE l = Offset(u, i) + p[1]
  <2>1. j = i
    <3>1. l - Offset(u, j) = a
      BY <1>2, RowOf
    <3>2. j # i => l - Offset(u, j) \notin Components(u[j].kind)
      BY <1>5, <1>6, RowOf
    <3> QED
      BY <3>1, <3>2
  <2>2. a = p[1]
    <3>1. l - Offset(u, i) = a /\ l - Offset(u, i) = p[1]
      BY <1>2, <1>5, <1>6, <2>1, RowOf
    <3> QED
      BY <3>1
  <2>3. X[j][<<a, b>>] = OneIf(b = p[2])
    BY <1>3, <2>1, <2>2 DEF OneIf
  <2> HIDE DEF X
  <2> QED
    BY <1>4, <1>6, <2>1, <2>2, <2>3 DEF X
<1>7. CASE l # Offset(u, i) + p[1]
  <2>1. ~(j = i /\ a = p[1])
    BY <1>2, <1>7
  <2>2. X[j][<<a, b>>] = 0
    BY <1>3, <2>1 DEF OneIf
  <2> HIDE DEF X
  <2> QED
    BY <1>4, <1>7, <2>2, ScaledZero DEF X
<1> QED
  BY <1>6, <1>7

\* What the jacobian makes of a unit.
UnitValue(u, J, i, p, j, a, b) == Weight(u[i].kind, p[1]) * J[<<j, i>>][<<a, p[1]>>] * OneIf(b = p[2])

Term(u, J, X, j, l, a, b) == Contracted(u[l].kind, J[<<j, l>>], X[l], a, b)

LEMMA ContractedUnit ==
  ASSUME NEW u \in Unknowns, NEW kind \in Kind, NEW J, AreBlocks(u, J), NEW i \in 1 .. Len(u),
         NEW p \in Components(u[i].kind) \X Components(kind), NEW X, IsUnit(u, kind, i, p, X),
         NEW j \in 1 .. Len(u), NEW a \in Components(u[j].kind), NEW b \in Components(kind),
         NEW l \in 1 .. Len(u)
  PROVE  /\ UnitValue(u, J, i, p, j, a, b) \in Int
         /\ Term(u, J, X, j, l, a, b)
              = IF l = i THEN UnitValue(u, J, i, p, j, a, b) ELSE 0
<1> DEFINE k == u[l].kind  w == Width(k)  B == J[<<j, l>>]
           f == [c \in Components(k) |-> Weight(k, c) * B[<<a, c>>] * X[l][<<c, b>>]]
<1>1. k \in Kind /\ w \in Nat \ {0} /\ Components(k) = 0 .. w - 1
  BY UnknownFacts, WidthFacts
<1>2. ASSUME NEW m \in 1 .. Len(u), NEW c \in Components(u[m].kind)
      PROVE  J[<<j, m>>][<<a, c>>] \in Int
  <2>1. <<j, m>> \in Blocks(u)
    BY UnknownFacts DEF Blocks
  <2>2. J[<<j, m>>] \in BlockOfKinds(u[j].kind, u[m].kind)
    BY <2>1 DEF AreBlocks
  <2>3. <<a, c>> \in Components(u[j].kind) \X Components(u[m].kind)
    OBVIOUS
  <2> QED
    BY <2>2, <2>3 DEF BlockOfKinds
<1>3. \A c : Weight(k, c) \in Int /\ Weight(u[i].kind, c) \in Int
  BY DEF Weight
<1>4. p[1] \in Components(u[i].kind)
  OBVIOUS
<1>5. \A c \in Components(k) : X[l][<<c, b>>] = OneIf(l = i /\ c = p[1] /\ b = p[2])
  BY DEF IsUnit
<1>6. OneIf(b = p[2]) \in Int /\ \A c : OneIf(l = i /\ c = p[1] /\ b = p[2]) \in Int
  BY DEF OneIf
<1>7. UnitValue(u, J, i, p, j, a, b) \in Int
  <2>1. J[<<j, i>>][<<a, p[1]>>] \in Int
    BY <1>2, <1>4
  <2> DEFINE y == J[<<j, i>>][<<a, p[1]>>]  v == Weight(u[i].kind, p[1])  d == OneIf(b = p[2])
  <2>2. y \in Int /\ v \in Int /\ d \in Int
    BY <1>3, <1>6, <2>1
  <2>3. UnitValue(u, J, i, p, j, a, b) = v * y * d
    BY DEF UnitValue
  <2> HIDE DEF y, v, d
  <2>4. v * y * d \in Int
    BY <2>2
  <2> QED
    BY <2>3, <2>4
<1>8. Term(u, J, X, j, l, a, b) = IntegerSum(f, w)
  BY DEF Contracted, Term
<1>9. \A c \in Components(k) : B[<<a, c>>] \in Int
  BY <1>2
<1> HIDE DEF k, w, B
<1>10. ASSUME NEW c \in Components(k)
       PROVE  f[c] \in Int /\ (~(l = i /\ c = p[1] /\ b = p[2]) => f[c] = 0)
  <2>1. f[c] = Weight(k, c) * B[<<a, c>>] * OneIf(l = i /\ c = p[1] /\ b = p[2])
    BY <1>5
  <2> DEFINE y == B[<<a, c>>]  v == Weight(k, c)  d == OneIf(l = i /\ c = p[1] /\ b = p[2])
  <2>2. y \in Int /\ v \in Int /\ d \in Int /\ (~(l = i /\ c = p[1] /\ b = p[2]) => d = 0)
    BY <1>3, <1>6, <1>9 DEF OneIf
  <2>3. f[c] = v * y * d
    BY <2>1
  <2> HIDE DEF y, v, d, f
  <2>4. v * y * d \in Int /\ (d = 0 => v * y * d = 0)
    BY <2>2
  <2> QED
    BY <2>2, <2>3, <2>4
<1>11. f \in [0 .. w - 1 -> Int]
  BY <1>1, <1>10
<1>12. CASE l = i
  <2>1. p[1] \in 0 .. w - 1
    BY <1>1, <1>4, <1>12 DEF k
  <2>2. f[p[1]] = UnitValue(u, J, i, p, j, a, b)
    <3>1. p[1] \in Components(k)
      BY <1>4, <1>12 DEF k
    <3>2. X[l][<<p[1], b>>] = OneIf(b = p[2])
      BY <1>5, <1>12, <3>1 DEF OneIf
    <3>3. f[p[1]] = Weight(k, p[1]) * B[<<a, p[1]>>] * OneIf(b = p[2])
      BY <3>1, <3>2
    <3> QED
      BY <1>12, <3>3 DEF UnitValue, k, B
  <2>3. \A c \in 0 .. w - 1 : c # p[1] => f[c] = 0
    BY <1>1, <1>10
  <2> DEFINE m == p[1]
  <2>4. m \in 0 .. w - 1 /\ \A c \in 0 .. w - 1 : c # m => f[c] = 0
    BY <2>1, <2>3
  <2> HIDE DEF f, m
  <2>5. IntegerSum(f, w) = f[m]
    BY <1>1, <1>11, <2>4, IntegerSumOfOne
  <2> QED
    BY <1>7, <1>8, <1>12, <2>2, <2>5 DEF k, B, m
<1>13. CASE l # i
  <2>1. \A c \in 0 .. w - 1 : f[c] = 0
    BY <1>1, <1>10, <1>13
  <2> HIDE DEF f
  <2>2. IntegerSum(f, w) = 0
    BY <1>1, <1>11, <2>1, IntegerSumOfNone
  <2> QED
    BY <1>7, <1>8, <1>13, <2>2 DEF k, B
<1> QED
  BY <1>12, <1>13

LEMMA AppliedUnit ==
  ASSUME NEW u \in Unknowns, NEW kind \in Kind, NEW J, AreBlocks(u, J), NEW i \in 1 .. Len(u),
         NEW p \in Components(u[i].kind) \X Components(kind), NEW X, IsUnit(u, kind, i, p, X)
  PROVE  /\ AreColumns(u, kind, Applied(u, kind, J, X))
         /\ \A j \in 1 .. Len(u) : \A a \in Components(u[j].kind), b \in Components(kind) :
              Applied(u, kind, J, X)[j][<<a, b>>] = UnitValue(u, J, i, p, j, a, b)
<1> DEFINE n == Len(u)  A == Applied(u, kind, J, X)
           F(j, q) == [l \in 0 .. n - 1 |-> Term(u, J, X, j, l + 1, q[1], q[2])]
<1>1. n \in Nat /\ DOMAIN u = 1 .. n
  BY UnknownFacts
<1>2. A = [j \in DOMAIN u |-> [q \in Components(u[j].kind) \X Components(kind) |-> IntegerSum(F(j, q), n)]]
  BY DEF Applied, Term
<1> HIDE DEF A
<1>3. ASSUME NEW j \in 1 .. n, NEW a \in Components(u[j].kind), NEW b \in Components(kind)
      PROVE  IntegerSum(F(j, <<a, b>>), n) = UnitValue(u, J, i, p, j, a, b)
             /\ UnitValue(u, J, i, p, j, a, b) \in Int
  <2> DEFINE f == F(j, <<a, b>>)  m == i - 1  V == UnitValue(u, J, i, p, j, a, b)
  <2>1. V \in Int
    BY ContractedUnit
  <2>2. ASSUME NEW l \in 0 .. n - 1 PROVE f[l] = IF l = m THEN V ELSE 0
    <3> DEFINE k == l + 1
    <3>1. k \in 1 .. Len(u) /\ (k = i <=> l = m)
      BY <1>1
    <3>2. f[l] = Term(u, J, X, j, k, a, b)
      OBVIOUS
    <3> HIDE DEF k, f, m, V
    <3>3. Term(u, J, X, j, k, a, b) = IF k = i THEN V ELSE 0
      BY <3>1, ContractedUnit DEF V
    <3> QED
      BY <3>1, <3>2, <3>3
  <2>3. m \in 0 .. n - 1
    BY <1>1
  <2>4. DOMAIN f = 0 .. n - 1 /\ f = [l \in 0 .. n - 1 |-> f[l]]
    OBVIOUS
  <2> HIDE DEF f, m, V, n
  <2>5. f \in [0 .. n - 1 -> Int] /\ f[m] = V /\ \A l \in 0 .. n - 1 : l # m => f[l] = 0
    BY <2>1, <2>2, <2>3, <2>4
  <2>6. IntegerSum(f, n) = f[m]
    BY <1>1, <2>3, <2>5, IntegerSumOfOne
  <2> QED
    BY <2>1, <2>5, <2>6 DEF f, V
<1> HIDE DEF F
<1>4. ASSUME NEW j \in 1 .. n
      PROVE  /\ A[j] \in BlockOfKinds(u[j].kind, kind)
             /\ \A a \in Components(u[j].kind), b \in Components(kind) :
                  A[j][<<a, b>>] = UnitValue(u, J, i, p, j, a, b)
  <2>1. A[j] = [q \in Components(u[j].kind) \X Components(kind) |-> IntegerSum(F(j, q), n)]
    BY <1>1, <1>2
  <2>2. \A a \in Components(u[j].kind), b \in Components(kind) :
          A[j][<<a, b>>] = UnitValue(u, J, i, p, j, a, b)
    BY <1>3, <2>1
  <2>3. ASSUME NEW q \in Components(u[j].kind) \X Components(kind) PROVE IntegerSum(F(j, q), n) \in Int
    <3>1. q = <<q[1], q[2]>> /\ q[1] \in Components(u[j].kind) /\ q[2] \in Components(kind)
      OBVIOUS
    <3>2. IntegerSum(F(j, <<q[1], q[2]>>), n) \in Int
      BY <1>3, <3>1
    <3> QED
      BY <3>1, <3>2
  <2>4. A[j] \in BlockOfKinds(u[j].kind, kind)
    BY <2>1, <2>3 DEF BlockOfKinds
  <2> QED
    BY <2>2, <2>4
<1> QED
  BY <1>4 DEF AreColumns, A

\* M has the number of every pair of components where it belongs.
IsMatrix(u, J, M) ==
  /\ M \in Buffer(Size(u), Size(u))
  /\ \A i, j \in 1 .. Len(u) : \A a \in Components(u[i].kind), b \in Components(u[j].kind) :
       M[(Offset(u, j) + b) * Size(u) + (Offset(u, i) + a)]
         = Scaled(u[i].kind, u[j].kind, J[<<i, j>>][<<a, b>>], a, b)

\* One row of the matrix and one column.
RowTimesColumn(M, C, N, r, c) == [l \in 0 .. N - 1 |-> Times(M[r + l * N], C[l + c * N])]

LEMMA RowTimesUnit ==
  ASSUME NEW u \in Unknowns, u # <<>>, NEW kind \in Kind, NEW J, AreBlocks(u, J), NEW M, IsMatrix(u, J, M),
         NEW i \in 1 .. Len(u), NEW p \in Components(u[i].kind) \X Components(kind),
         NEW j \in 1 .. Len(u), NEW a \in Components(u[j].kind), NEW b \in Components(kind)
  PROVE  SumOf(RowTimesColumn(M, GatherColumns(u, kind, UnitOf(u, kind, i, p)), Size(u), Offset(u, j) + a, b),
               Size(u))
           = Scaled(u[j].kind, kind, UnitValue(u, J, i, p, j, a, b), a, b)
<1> DEFINE N == Size(u)  C == GatherColumns(u, kind, UnitOf(u, kind, i, p))
           r == Offset(u, j) + a  m == Offset(u, i) + p[1]  d == OneIf(b = p[2])
           g == RowTimesColumn(M, C, N, r, b)
<1>1. N \in Nat \ {0} /\ M \in Buffer(N, N)
  BY RowsOfAll DEF IsMatrix
<1>2. p[1] \in Components(u[i].kind)
  OBVIOUS
<1>3. m \in 0 .. N - 1
  BY <1>2, RowOf
<1>4. r \in 0 .. N - 1
  BY RowOf
<1>5. b \in Int /\ d \in {0, 1}
  BY WidthFacts DEF OneIf
<1>6. ASSUME NEW l \in 0 .. N - 1
      PROVE  C[b * N + l] = IF l = m THEN Scaled(u[i].kind, kind, d, p[1], b) ELSE Number(0)
  BY UnitEntry
<1>7. M[m * N + r] = Scaled(u[j].kind, u[i].kind, J[<<j, i>>][<<a, p[1]>>], a, p[1])
  BY <1>2 DEF IsMatrix
<1>8. J[<<j, i>>][<<a, p[1]>>] \in Int
  <2>1. <<j, i>> \in Blocks(u)
    BY UnknownFacts DEF Blocks
  <2>2. J[<<j, i>>] \in BlockOfKinds(u[j].kind, u[i].kind)
    BY <2>1 DEF AreBlocks
  <2>3. <<a, p[1]>> \in Components(u[j].kind) \X Components(u[i].kind)
    OBVIOUS
  <2> QED
    BY <2>2, <2>3 DEF BlockOfKinds
<1> DEFINE V == Times(Scaled(u[j].kind, u[i].kind, J[<<j, i>>][<<a, p[1]>>], a, p[1]),
                      Scaled(u[i].kind, kind, d, p[1], b))
<1>9. V = Scaled(u[j].kind, kind, UnitValue(u, J, i, p, j, a, b), a, b)
  <2> DEFINE y == J[<<j, i>>][<<a, p[1]>>]
  <2>1. V = Scaled(u[j].kind, kind, Weight(u[i].kind, p[1]) * y * d, a, b)
    <3>1. y \in Int /\ d \in {0, 1}
      BY <1>5, <1>8
    <3> HIDE DEF y, d
    <3>2. Times(Scaled(u[j].kind, u[i].kind, y, a, p[1]), Scaled(u[i].kind, kind, d, p[1], b))
            = Scaled(u[j].kind, kind, Weight(u[i].kind, p[1]) * y * d, a, b)
      BY <3>1, ScaledTimes
    <3> QED
      BY <3>2 DEF y
  <2> QED
    BY <2>1 DEF UnitValue
<1>10. V \in Numbers
  <2>1. Scaled(u[j].kind, u[i].kind, J[<<j, i>>][<<a, p[1]>>], a, p[1]) \in Numbers
    BY <1>8, ScaledType
  <2>2. d \in Int
    BY <1>5
  <2>3. Scaled(u[i].kind, kind, d, p[1], b) \in Numbers
    <3> HIDE DEF d
    <3> QED
      BY <2>2, ScaledType
  <2> QED
    BY <2>1, <2>3, NumberFacts
<1>11. ASSUME NEW l \in 0 .. N - 1
       PROVE  g[l] = IF l = m THEN V ELSE Number(0)
  <2>1. g[l] = Times(M[r + l * N], C[l + b * N])
    BY DEF RowTimesColumn
  <2>2. r + l * N = l * N + r /\ l + b * N = b * N + l
    <3>1. l * N \in Int /\ b * N \in Int /\ l \in Int /\ r \in Int
      BY <1>1, <1>4, <1>5
    <3> HIDE DEF N, r
    <3> QED
      BY <3>1
  <2>3. CASE l = m
    BY <1>6, <1>7, <2>1, <2>2, <2>3
  <2>4. CASE l # m
    <3>1. C[b * N + l] = Number(0)
      BY <1>6, <2>4
    <3>2. M[l * N + r] \in Numbers
      <4>1. l * N + r \in 0 .. N * N - 1
        <5> HIDE DEF N, r
        <5>1. IsCell(N, N, r, l)
          BY <1>1, <1>4 DEF IsCell
        <5>2. IsAt(N, N, r, l, l * N + r)
          BY <5>1, AtPosition
        <5> QED
          BY <5>2 DEF IsAt
      <4> QED
        BY <1>1, <4>1 DEF Buffer
    <3> QED
      BY <2>1, <2>2, <2>4, <3>1, <3>2, TimesZero
  <2> QED
    BY <2>3, <2>4
<1>12. g = [l \in 0 .. N - 1 |-> g[l]]
  BY DEF RowTimesColumn
<1> HIDE DEF g, m, V, N, C, r
<1>13. g \in [0 .. N - 1 -> Numbers] /\ g[m] = V /\ \A l \in 0 .. N - 1 : l # m => g[l] = Number(0)
  <2>1. Number(0) \in Numbers
    BY DEF Number, Numbers
  <2> QED
    BY <1>3, <1>10, <1>11, <1>12, <2>1
<1>14. SumOf(g, N) = g[m]
  BY <1>1, <1>3, <1>13, SumOfOne
<1> QED
  BY <1>9, <1>13, <1>14 DEF g, N, C, r

LEMMA ProductOfUnit ==
  ASSUME NEW u \in Unknowns, u # <<>>, NEW kind \in Kind, NEW J, AreBlocks(u, J), NEW M, IsMatrix(u, J, M),
         NEW i \in 1 .. Len(u), NEW p \in Components(u[i].kind) \X Components(kind)
  PROVE  Product(M, GatherColumns(u, kind, UnitOf(u, kind, i, p)), Size(u), Width(kind))
           = GatherColumns(u, kind, Applied(u, kind, J, UnitOf(u, kind, i, p)))
<1> DEFINE N == Size(u)  w == Width(kind)  X == UnitOf(u, kind, i, p)  C == GatherColumns(u, kind, X)
           A == Applied(u, kind, J, X)  R == GatherColumns(u, kind, A)
<1>1. N \in Nat \ {0} /\ w \in Nat \ {0} /\ Components(kind) = 0 .. w - 1
  BY RowsOfAll, WidthFacts
<1>2. IsUnit(u, kind, i, p, X)
  BY UnitFacts
<1>3. AreColumns(u, kind, A)
  BY <1>2, AppliedUnit
<1>4. R \in Buffer(N, w)
  <2> HIDE DEF A
  <2> QED
    BY <1>3, ColumnsEntry
<1>5. Product(M, C, N, w) = [x \in 0 .. w * N - 1 |-> SumOf(RowTimesColumn(M, C, N, x % N, x \div N), N)]
  <2>1. N * w = w * N
    BY <1>1
  <2> HIDE DEF N, w, C
  <2> QED
    BY <2>1 DEF Product, RowTimesColumn
<1>6. ASSUME NEW x \in 0 .. w * N - 1
      PROVE  SumOf(RowTimesColumn(M, C, N, x % N, x \div N), N) = R[x]
  <2> DEFINE r == x % N  b == x \div N
  <2>1. b \in 0 .. w - 1 /\ r \in 0 .. N - 1 /\ x = b * N + r
    <3>1. w \in Nat
      BY <1>1
    <3> HIDE DEF N, w
    <3> QED
      BY <1>1, <3>1, Remainder
  <2> HIDE DEF r, b
  <2>2. PICK j \in 1 .. Len(u) : \E a \in Components(u[j].kind) : r = Offset(u, j) + a
    BY <2>1, RowIsComponent
  <2>3. PICK a \in Components(u[j].kind) : r = Offset(u, j) + a
    BY <2>2
  <2>4. b \in Components(kind)
    BY <1>1, <2>1
  <2>5. SumOf(RowTimesColumn(M, C, N, r, b), N) = Scaled(u[j].kind, kind, UnitValue(u, J, i, p, j, a, b), a, b)
    BY <2>3, <2>4, RowTimesUnit
  <2>6. A[j][<<a, b>>] = UnitValue(u, J, i, p, j, a, b)
    <3> HIDE DEF X
    <3> QED
      BY <1>2, <2>4, AppliedUnit
  <2> HIDE DEF A
  <2>7. R[b * N + (Offset(u, j) + a)] = Scaled(u[j].kind, kind, A[j][<<a, b>>], a, b)
    BY <1>3, <2>4, ColumnsEntry
  <2>8. R[x] = Scaled(u[j].kind, kind, UnitValue(u, J, i, p, j, a, b), a, b)
    BY <2>1, <2>3, <2>6, <2>7
  <2> QED
    BY <2>5, <2>8 DEF r, b
<1> HIDE DEF N, w, C, R, X, A
<1>7. Product(M, C, N, w) = R
  <2>1. R = [x \in 0 .. w * N - 1 |-> R[x]]
    BY <1>4 DEF Buffer
  <2> QED
    BY <1>5, <1>6, <2>1
<1> QED
  BY <1>7 DEF N, w, C, R, X, A

-----------------------------------------------------------------------------
(***************************************************************************)
(* The system.                                                             *)
(***************************************************************************)
LEMMA SystemFacts ==
  ASSUME NEW s \in Systems, CheckNames(s.unknowns, s.zeros, TRUE)
  PROVE  /\ s.unknowns \in Unknowns /\ s.unknowns # <<>> /\ BlockNamesDiffer(s.unknowns)
         /\ ZeroBlocks(s) \subseteq Blocks(s.unknowns)
         /\ \A ij \in Blocks(s.unknowns) : ij \notin Wired(s) => ij \in ZeroBlocks(s)
<1>1. s.unknowns \in Unknowns
  BY DEF Systems, Unknowns
<1>2. s.unknowns # <<>> /\ BlockNamesDiffer(s.unknowns)
  BY DEF CheckNames
<1>3. ZeroBlocks(s) \subseteq Blocks(s.unknowns)
      /\ \A ij \in Blocks(s.unknowns) : ij \notin Wired(s) => ij \in ZeroBlocks(s)
  BY DEF ZeroBlocks, Wired
<1> QED
  BY <1>1, <1>2, <1>3

\* A system is refused when its zeros are verified and one of them is not zero.
LEMMA RefusedForZeros ==
  ASSUME NEW s \in Systems, CheckNames(s.unknowns, s.zeros, TRUE), NEW J, AreBlocks(s.unknowns, J)
  PROVE  VerifyThrows(s, Published(s.unknowns, J)) <=> s.verify /\ ~ZerosHold(s, J)
<1> DEFINE u == s.unknowns
<1>1. u \in Unknowns /\ BlockNamesDiffer(u) /\ ZeroBlocks(s) \subseteq Blocks(u) /\ DOMAIN J = Blocks(u)
  BY SystemFacts DEF AreBlocks
<1> HIDE DEF u
<1>2. \A ij \in ZeroBlocks(s) : BlockOf(u, Published(u, J), ij) = J[ij]
  BY <1>1, PublishedBlock
<1>3. VerifyThrows(s, Published(u, J))
        <=> s.verify /\ \E ij \in ZeroBlocks(s) : Range(BlockOf(u, Published(u, J), ij)) # {0}
  BY DEF VerifyThrows, u
<1>4. ZerosHold(s, J) <=> \A ij \in ZeroBlocks(s) : Range(J[ij]) = {0}
  BY DEF ZerosHold
<1> QED
  BY <1>2, <1>3, <1>4 DEF u

LEMMA MatrixOfSystem ==
  ASSUME NEW s \in Systems, CheckNames(s.unknowns, s.zeros, TRUE),
         NEW J, AreBlocks(s.unknowns, J), ZerosHold(s, J)
  PROVE  IsMatrix(s.unknowns, J, GatherJacobian(s, Published(s.unknowns, J)))
<1> DEFINE u == s.unknowns  P == Published(u, J)  M == GatherJacobian(s, P)
<1>1. u \in Unknowns /\ u # <<>> /\ BlockNamesDiffer(u) /\ DOMAIN J = Blocks(u)
  BY SystemFacts DEF AreBlocks
<1>2. DOMAIN u = 1 .. Len(u)
  BY <1>1, UnknownFacts
<1>3. \A ij \in Blocks(u) : ij \notin Wired(s) => Range(J[ij]) = {0}
  BY SystemFacts DEF ZerosHold
<1>4. \A ij \in Blocks(u) : J[ij] \in BlockOfKinds(u[ij[1]].kind, u[ij[2]].kind)
  BY DEF AreBlocks
<1>5. Lists(s, u)
  BY DEF Lists
<1> HIDE DEF u
<1>6. ASSUME NEW i \in 1 .. Len(u), NEW j \in 1 .. Len(u)
      PROVE  BlockOf(u, P, <<i, j>>) = J[<<i, j>>] /\ J[<<i, j>>] \in BlockOfKinds(u[i].kind, u[j].kind)
  <2>1. <<i, j>> \in Blocks(u)
    BY <1>2 DEF Blocks
  <2>2. J[<<i, j>>] \in BlockOfKinds(u[i].kind, u[j].kind)
    BY <1>4, <2>1
  <2> QED
    BY <1>1, <2>1, <2>2, PublishedBlock
<1>7. ArePublished(u, P)
  BY <1>6 DEF ArePublished
<1> HIDE DEF P
<1>8. /\ M \in Buffer(Size(u), Size(u))
      /\ \A i, j \in 1 .. Len(u) : \A a \in Components(u[i].kind), b \in Components(u[j].kind) :
           M[(Offset(u, j) + b) * Size(u) + (Offset(u, i) + a)]
             = IF <<i, j>> \in Wired(s)
               THEN Scaled(u[i].kind, u[j].kind, BlockOf(u, P, <<i, j>>)[<<a, b>>], a, b)
               ELSE Number(0)
  BY <1>1, <1>5, <1>7, JacobianEntry
<1> HIDE DEF M
<1>9. ASSUME NEW i \in 1 .. Len(u), NEW j \in 1 .. Len(u),
             NEW a \in Components(u[i].kind), NEW b \in Components(u[j].kind)
      PROVE  M[(Offset(u, j) + b) * Size(u) + (Offset(u, i) + a)]
               = Scaled(u[i].kind, u[j].kind, J[<<i, j>>][<<a, b>>], a, b)
  <2>1. CASE <<i, j>> \in Wired(s)
    BY <1>6, <1>8, <2>1
  <2>2. CASE <<i, j>> \notin Wired(s)
    <3>1. <<i, j>> \in Blocks(u)
      BY <1>2 DEF Blocks
    <3>2. Range(J[<<i, j>>]) = {0}
      BY <1>3, <2>2, <3>1
    <3>3. <<a, b>> \in DOMAIN J[<<i, j>>]
      <4> DEFINE C == Components(u[i].kind) \X Components(u[j].kind)
      <4>1. J[<<i, j>>] \in [C -> Int]
        BY <1>6 DEF BlockOfKinds
      <4>2. <<a, b>> \in C
        OBVIOUS
      <4> HIDE DEF C
      <4> QED
        BY <4>1, <4>2
    <3>4. J[<<i, j>>][<<a, b>>] = 0
      BY <3>2, <3>3 DEF Range
    <3> QED
      BY <1>8, <2>2, <3>4, ScaledZero
  <2> QED
    BY <2>1, <2>2
<1>10. IsMatrix(u, J, M)
  BY <1>8, <1>9 DEF IsMatrix
<1> QED
  BY <1>10 DEF u, P, M

\* vector_newton solves the system of the material: whatever the unknowns, their order and
\* kinds, and whatever the jacobian, as long as the blocks declared zero are zero, the matrix
\* gather_jacobian leaves does to every unit of the unknowns and of their derivatives by the
\* strain what the jacobian does to the tensor, and scatter returns it as it was.
THEOREM SystemIsFlattened ==
  ASSUME NEW s \in Systems, CheckNames(s.unknowns, s.zeros, TRUE),
         NEW J, AreBlocks(s.unknowns, J), ZerosHold(s, J)
  PROVE  IsPacked(s.unknowns, J, GatherJacobian(s, Published(s.unknowns, J)))
<1> DEFINE u == s.unknowns  M == GatherJacobian(s, Published(s.unknowns, J))
<1>1. u \in Unknowns /\ u # <<>> /\ AreBlocks(u, J) /\ IsMatrix(u, J, M)
  BY SystemFacts, MatrixOfSystem
<1> HIDE DEF u, M
<1>2. DOMAIN u = 1 .. Len(u)
  BY <1>1, UnknownFacts
<1>3. ASSUME NEW kind \in {"scalar", "tensor"}, NEW X \in UnitColumns(u, kind)
      PROVE  /\ ScatterColumns(u, kind, GatherColumns(u, kind, X)) = X
             /\ Product(M, GatherColumns(u, kind, X), Size(u), Width(kind))
                  = GatherColumns(u, kind, Applied(u, kind, J, X))
  <2>1. kind \in Kind
    BY DEF Kind
  <2> DEFINE Of(i) == {UnitOf(u, kind, i, p) : p \in Components(u[i].kind) \X Components(kind)}
  <2>2. UnitColumns(u, kind) = UNION {Of(i) : i \in DOMAIN u}
    BY DEF UnitColumns, UnitOf
  <2> HIDE DEF Of
  <2>3. PICK i \in DOMAIN u : X \in Of(i)
    BY <2>2
  <2>4. PICK p \in Components(u[i].kind) \X Components(kind) : X = UnitOf(u, kind, i, p)
    BY <2>3 DEF Of
  <2>5. i \in 1 .. Len(u)
    BY <1>2
  <2>6. AreColumns(u, kind, X) /\ X = [j \in DOMAIN u |-> X[j]]
    BY <1>1, <2>1, <2>4, <2>5, UnitFacts
  <2>7. ScatterColumns(u, kind, GatherColumns(u, kind, X)) = X
    BY <1>1, <2>1, <2>6, ColumnsReturn
  <2>8. Product(M, GatherColumns(u, kind, UnitOf(u, kind, i, p)), Size(u), Width(kind))
          = GatherColumns(u, kind, Applied(u, kind, J, UnitOf(u, kind, i, p)))
    BY <1>1, <2>1, <2>5, ProductOfUnit
  <2> QED
    BY <2>4, <2>7, <2>8
<1>4. IsPacked(u, J, M)
  BY <1>3 DEF IsPacked
<1> QED
  BY <1>4 DEF u, M

-----------------------------------------------------------------------------
(***************************************************************************)
(* STATEV: where the entries of a layout are.                              *)
(***************************************************************************)
\* The entries of a map: no two are of one property.
IsLayout(layout) ==
  /\ layout \in Seq(HistoryEntry) /\ \A m, n \in DOMAIN layout : layout[m].id = layout[n].id => m = n
  /\ \A n \in DOMAIN layout : layout[n].kind \in StateKind

LEMMA KindFacts ==
  ASSUME NEW kind \in StateKind
  PROVE  KindWidth(kind) \in Nat \ {0}
BY DEF StateKind, KindWidth

LEMMA LayoutFacts ==
  ASSUME NEW layout, IsLayout(layout)
  PROVE  /\ Len(layout) \in Nat /\ DOMAIN layout = 1 .. Len(layout)
         /\ \A n \in 1 .. Len(layout) :
              layout[n] \in HistoryEntry /\ layout[n].kind \in StateKind /\ KindWidth(layout[n].kind) \in Nat \ {0}
<1>1. layout \in Seq(HistoryEntry) /\ \A n \in DOMAIN layout : layout[n].kind \in StateKind
  BY DEF IsLayout
<1>2. ASSUME NEW n \in 1 .. Len(layout)
      PROVE  layout[n] \in HistoryEntry /\ layout[n].kind \in StateKind
  BY <1>1
<1> QED
  BY <1>1, <1>2, KindFacts

\* Offsets are sums of widths.
LEMMA EntryOffsetIsSum ==
  ASSUME NEW layout, IsLayout(layout), NEW n \in 1 .. Len(layout) + 1
  PROVE  EntryOffset(layout, n) = IntegerSum([k \in 0 .. n - 2 |-> KindWidth(layout[k + 1].kind)], n - 1)
<1> DEFINE N == n - 1
           f == [k \in 0 .. n - 2 |-> KindWidth(layout[k + 1].kind)]
           offset[m \in 0 .. N] == IF m = 0 THEN 0 ELSE offset[m - 1] + KindWidth(layout[m].kind)
<1>1. N \in Nat /\ n - 2 = N - 1 /\ N <= Len(layout) /\ Len(layout) \in Nat
  BY LayoutFacts
<1>2. f \in [0 .. N - 1 -> Int]
  <2>1. ASSUME NEW k \in 0 .. n - 2 PROVE KindWidth(layout[k + 1].kind) \in Int
    <3>1. k + 1 \in 1 .. Len(layout)
      BY <1>1
    <3> QED
      BY <3>1, LayoutFacts
  <2> QED
    BY <1>1, <2>1
<1>3. \A k \in 1 .. N : f[k - 1] = KindWidth(layout[k].kind)
  BY <1>1
<1>4. EntryOffset(layout, n) = offset[N]
  BY DEF EntryOffset
<1> HIDE DEF f, N
<1>5. PICK g \in [0 .. N -> Int] : PartialIntegerSums(g, f, N)
  BY <1>1, <1>2, IntegerSumDef
<1>6. g[0] = 0 /\ (\A k \in 1 .. N : g[k] = g[k - 1] + KindWidth(layout[k].kind)) /\ IntegerSum(f, N) = g[N]
  BY <1>3, <1>5 DEF PartialIntegerSums
<1>7. g = [m \in 0 .. N |-> IF m = 0 THEN 0 ELSE g[m - 1] + KindWidth(layout[m].kind)]
  <2>1. ASSUME NEW m \in 0 .. N PROVE g[m] = IF m = 0 THEN 0 ELSE g[m - 1] + KindWidth(layout[m].kind)
    BY <1>1, <1>6
  <2> QED
    BY <2>1
<1>8. offset = [m \in 0 .. N |-> IF m = 0 THEN 0 ELSE offset[m - 1] + KindWidth(layout[m].kind)]
  BY <1>7
<1> HIDE DEF offset
<1>9. offset[0] = 0 /\ \A k \in 1 .. N : offset[k] = offset[k - 1] + KindWidth(layout[k].kind)
  BY <1>1, <1>8
<1> DEFINE T == {m \in 0 .. N : offset[m] = g[m]}
<1>10. 0 \in T
  BY <1>1, <1>6, <1>9
<1>11. ASSUME NEW i \in 0 .. N - 1, i \in T PROVE i + 1 \in T
  <2>1. i + 1 \in 1 .. N /\ (i + 1) - 1 = i /\ offset[i] = g[i]
    BY <1>1, <1>11
  <2>2. offset[i + 1] = offset[i] + KindWidth(layout[i + 1].kind) /\ g[i + 1] = g[i] + KindWidth(layout[i + 1].kind)
    BY <1>6, <1>9, <2>1
  <2> QED
    BY <2>1, <2>2
<1> HIDE DEF T
<1>12. \A m \in 0 .. N : m \in T
  BY <1>1, <1>10, <1>11, UpTo
<1>13. offset[N] = g[N]
  BY <1>1, <1>12 DEF T
<1> QED
  BY <1>4, <1>6, <1>13 DEF f, N

LEMMA EntryOffsets ==
  ASSUME NEW layout, IsLayout(layout), NEW i \in 1 .. Len(layout)
  PROVE  /\ EntryOffset(layout, i) \in Int
         /\ EntryOffset(layout, i + 1) = EntryOffset(layout, i) + KindWidth(layout[i].kind)
<1> DEFINE f == [k \in 0 .. i - 1 |-> KindWidth(layout[k + 1].kind)]
           g == [k \in 0 .. i - 2 |-> KindWidth(layout[k + 1].kind)]
           m == i - 1
<1>1. Len(layout) \in Nat /\ \A k \in 1 .. Len(layout) : KindWidth(layout[k].kind) \in Nat \ {0}
  BY LayoutFacts
<1>2. m \in Nat /\ m + 1 = i /\ (i + 1) - 2 = i - 1 /\ (i + 1) - 1 = i /\ m - 1 = i - 2
  OBVIOUS
<1>3. \A k \in 0 .. i - 1 : KindWidth(layout[k + 1].kind) \in Int
  BY <1>1
<1>4. f \in [0 .. m -> Int] /\ g \in [0 .. m - 1 -> Int] /\ (\A k \in 0 .. m - 1 : g[k] = f[k])
  BY <1>3
<1>5. f[m] = KindWidth(layout[i].kind)
  OBVIOUS
<1>6. EntryOffset(layout, i) = IntegerSum(g, m)
  <2>1. i \in 1 .. Len(layout) + 1
    BY <1>1
  <2> QED
    BY <2>1, EntryOffsetIsSum
<1>7. EntryOffset(layout, i + 1) = IntegerSum(f, m + 1)
  <2>1. i + 1 \in 1 .. Len(layout) + 1
    BY <1>1
  <2>2. EntryOffset(layout, i + 1) = IntegerSum([k \in 0 .. (i + 1) - 2 |-> KindWidth(layout[k + 1].kind)], (i + 1) - 1)
    BY <2>1, EntryOffsetIsSum
  <2> QED
    BY <1>2, <2>2
<1> HIDE DEF f, g, m
<1>8. IntegerSum(f, m + 1) = IntegerSum(g, m) + f[m]
  BY <1>2, <1>4, IntegerSumNext
<1>9. IntegerSum(g, m) \in Int
  BY <1>2, <1>4, IntegerSumType
<1> QED
  BY <1>5, <1>6, <1>7, <1>8, <1>9

LEMMA FirstEntryOffset ==
  ASSUME NEW layout, IsLayout(layout)
  PROVE  EntryOffset(layout, 1) = 0
<1> DEFINE f == [k \in 0 .. 1 - 2 |-> KindWidth(layout[k + 1].kind)]
<1>1. 1 \in 1 .. Len(layout) + 1
  BY LayoutFacts
<1>2. EntryOffset(layout, 1) = IntegerSum(f, 1 - 1)
  BY <1>1, EntryOffsetIsSum
<1>3. f \in [0 .. 0 - 1 -> Int] /\ \A k \in 0 .. 0 - 1 : f[k] = 0
  OBVIOUS
<1> HIDE DEF f
<1>4. IntegerSum(f, 0) = 0
  BY <1>3, IntegerSumOfNone
<1> QED
  BY <1>2, <1>4

\* An entry ends before a later one begins.
LEMMA EntriesRise ==
  ASSUME NEW layout, IsLayout(layout), NEW i \in 1 .. Len(layout), NEW j \in 1 .. Len(layout) + 1, i < j
  PROVE  EntryOffset(layout, i) + KindWidth(layout[i].kind) <= EntryOffset(layout, j)
<1> DEFINE O(k) == EntryOffset(layout, k)  W(k) == KindWidth(layout[k].kind)
           T == {k \in 0 .. Len(layout) : k >= i => O(i) + W(i) <= O(k + 1)}
           n == Len(layout)
<1>1. n \in Nat /\ \A k \in 1 .. n : W(k) \in Nat \ {0} /\ O(k) \in Int /\ O(k + 1) = O(k) + W(k)
  BY LayoutFacts, EntryOffsets
<1> HIDE DEF O, W
<1>2. 0 \in T
  BY <1>1
<1>3. ASSUME NEW k \in 0 .. n - 1, k \in T PROVE k + 1 \in T
  <2>1. k + 1 \in 1 .. n /\ k + 1 \in 0 .. n
    BY <1>1
  <2>2. O(k + 1) \in Int /\ O((k + 1) + 1) = O(k + 1) + W(k + 1) /\ W(k + 1) \in Nat
    BY <1>1, <2>1
  <2>3. O(i) \in Int /\ W(i) \in Nat
    BY <1>1
  <2>4. CASE k + 1 = i
    BY <2>1, <2>2, <2>4
  <2>5. CASE k >= i
    <3>1. O(i) + W(i) <= O(k + 1)
      BY <1>3, <2>5
    <3>2. O(i) + W(i) <= O((k + 1) + 1)
      BY <2>2, <2>3, <3>1
    <3> QED
      BY <2>1, <3>2
  <2>6. CASE k + 1 < i
    BY <2>1, <2>6
  <2> QED
    BY <2>4, <2>5, <2>6
<1> HIDE DEF T
<1>4. \A k \in 0 .. n : k \in T
  BY <1>1, <1>2, <1>3, UpTo
<1>5. j - 1 \in 0 .. n /\ j - 1 >= i /\ (j - 1) + 1 = j
  BY <1>1
<1>6. O(i) + W(i) <= O((j - 1) + 1)
  BY <1>4, <1>5 DEF T
<1> QED
  BY <1>5, <1>6 DEF O, W

LEMMA EntryFits ==
  ASSUME NEW layout, IsLayout(layout)
  PROVE  /\ MapWidth(layout) \in Nat
         /\ \A n \in 1 .. Len(layout) :
              /\ EntryOffset(layout, n) \in Nat
              /\ EntryOffset(layout, n) + KindWidth(layout[n].kind) <= MapWidth(layout)
<1> DEFINE O(k) == EntryOffset(layout, k)  W(k) == KindWidth(layout[k].kind)  n == Len(layout)
<1>1. /\ n \in Nat
      /\ \A k \in 1 .. n : W(k) \in Nat \ {0} /\ O(k) \in Int /\ O(k + 1) = O(k) + W(k)
      /\ O(1) = 0 /\ MapWidth(layout) = O(n + 1)
  BY LayoutFacts, EntryOffsets, FirstEntryOffset DEF MapWidth
<1>2. \A i \in 1 .. n, j \in 1 .. n + 1 : i < j => O(i) + W(i) <= O(j)
  BY EntriesRise
<1> HIDE DEF O, W, n
<1>3. ASSUME NEW i \in 1 .. n PROVE O(i) \in Nat
  BY <1>1, <1>2
<1>4. O(n + 1) \in Nat
  <2>1. CASE n = 0
    BY <1>1, <2>1
  <2>2. CASE n # 0
    <3>1. n \in 1 .. n
      BY <1>1, <2>2
    <3>2. O(n + 1) = O(n) + W(n) /\ W(n) \in Nat /\ O(n) \in Nat
      BY <1>1, <1>3, <3>1
    <3> QED
      BY <3>2
  <2> QED
    BY <2>1, <2>2
<1>5. ASSUME NEW i \in 1 .. n PROVE O(i) + W(i) <= O(n + 1)
  BY <1>1, <1>2
<1> QED
  BY <1>1, <1>3, <1>4, <1>5 DEF O, W, n

\* The slot a of the entry n is no slot of another.
LEMMA SlotOfOne ==
  ASSUME NEW layout, IsLayout(layout), NEW n \in 1 .. Len(layout), NEW m \in 1 .. Len(layout),
         NEW a \in 1 .. KindWidth(layout[n].kind),
         (EntryOffset(layout, n) + a) - EntryOffset(layout, m) \in 1 .. KindWidth(layout[m].kind)
  PROVE  m = n
<1> DEFINE O(k) == EntryOffset(layout, k)  W(k) == KindWidth(layout[k].kind)
<1>1. /\ O(n) \in Nat /\ O(m) \in Nat /\ W(n) \in Nat /\ W(m) \in Nat
      /\ (O(n) + a) - O(m) \in 1 .. W(m) /\ a \in 1 .. W(n)
  BY LayoutFacts, EntryFits
<1>2. (n < m => O(n) + W(n) <= O(m)) /\ (m < n => O(m) + W(m) <= O(n))
  <2>1. m \in 1 .. Len(layout) + 1 /\ n \in 1 .. Len(layout) + 1
    BY LayoutFacts
  <2> QED
    BY <2>1, EntriesRise
<1> HIDE DEF O, W
<1> QED
  BY <1>1, <1>2

-----------------------------------------------------------------------------
(***************************************************************************)
(* What an entry holds.                                                    *)
(***************************************************************************)
KindValue(kind) ==
  CASE kind = "scalar"                -> Int
    [] kind \in {"stress", "strain"} -> [Tensor2 -> Int]
    [] kind = "tangent"               -> [Tensor4 -> Int]

\* The values hist of the properties of a layout.
IsHistory(layout, hist) ==
  /\ hist = [id \in {layout[n].id : n \in DOMAIN layout} |-> hist[id]]
  /\ \A n \in DOMAIN layout : hist[layout[n].id] \in KindValue(layout[n].kind)

\* A component is in the slot of its axes, in either order.
LEMMA SlotFacts ==
  /\ \A k \in 1 .. 6 : Slot[k] \in Tensor2
  /\ \A p \in Tensor2 : SlotOf(p[1], p[2]) \in 1 .. 6 /\ Slot[SlotOf(p[1], p[2])] \in {p, <<p[2], p[1]>>}
<1>1. ASSUME NEW k \in 1 .. 6 PROVE Slot[k] \in Tensor2
  <2>1. k = 1 \/ k = 2 \/ k = 3 \/ k = 4 \/ k = 5 \/ k = 6
    OBVIOUS
  <2> QED
    BY <2>1 DEF Slot, Tensor2, Axis
<1>2. ASSUME NEW p \in Tensor2
      PROVE  SlotOf(p[1], p[2]) \in 1 .. 6 /\ Slot[SlotOf(p[1], p[2])] \in {p, <<p[2], p[1]>>}
  <2>1. p = <<p[1], p[2]>> /\ p[1] \in {1, 2, 3} /\ p[2] \in {1, 2, 3}
    BY DEF Tensor2, Axis
  <2> DEFINE i == p[1]  j == p[2]
  <2>2. SlotOf(i, j) \in 1 .. 6 /\ Slot[SlotOf(i, j)] \in {<<i, j>>, <<j, i>>}
    <3> HIDE DEF i, j
    <3>1. (i = 1 \/ i = 2 \/ i = 3) /\ (j = 1 \/ j = 2 \/ j = 3)
      BY <2>1 DEF i, j
    <3> QED
      BY <3>1 DEF SlotOf, Slot
  <2> QED
    BY <2>1, <2>2
<1> QED
  BY <1>1, <1>2

LEMMA StressReturns ==
  ASSUME NEW t \in [Tensor2 -> Int], Storable("stress", t)
  PROVE  StressToBuffer(t) \in [1 .. 6 -> Int] /\ StressFromBuffer(StressToBuffer(t)) = t
<1>1. \A p \in Tensor2 : t[p] = t[<<p[2], p[1]>>]
  BY DEF Storable
<1>2. StressToBuffer(t) \in [1 .. 6 -> Int] /\ \A k \in 1 .. 6 : StressToBuffer(t)[k] = t[Slot[k]]
  BY SlotFacts DEF StressToBuffer
<1>3. ASSUME NEW p \in Tensor2 PROVE StressToBuffer(t)[SlotOf(p[1], p[2])] = t[p]
  <2>1. SlotOf(p[1], p[2]) \in 1 .. 6 /\ Slot[SlotOf(p[1], p[2])] \in {p, <<p[2], p[1]>>}
    BY SlotFacts
  <2> QED
    BY <1>1, <1>2, <2>1
<1> QED
  BY <1>2, <1>3 DEF StressFromBuffer

LEMMA StrainReturns ==
  ASSUME NEW t \in [Tensor2 -> Int], Storable("strain", t)
  PROVE  StrainToBuffer(t) \in [1 .. 6 -> Int] /\ StrainFromBuffer(StrainToBuffer(t)) = t
<1> DEFINE B == StrainToBuffer(t)
<1>1. \A p \in Tensor2 : t[p] = t[<<p[2], p[1]>>]
  BY DEF Storable
<1>2. B \in [1 .. 6 -> Int] /\ \A k \in 1 .. 6 : B[k] = IF IsShear(k) THEN 2 * t[Slot[k]] ELSE t[Slot[k]]
  BY SlotFacts DEF StrainToBuffer
<1> HIDE DEF B
<1>3. ASSUME NEW p \in Tensor2
      PROVE  (IF IsShear(SlotOf(p[1], p[2])) THEN B[SlotOf(p[1], p[2])] \div 2 ELSE B[SlotOf(p[1], p[2])]) = t[p]
  <2> DEFINE k == SlotOf(p[1], p[2])
  <2>1. k \in 1 .. 6 /\ Slot[k] \in {p, <<p[2], p[1]>>}
    BY SlotFacts
  <2> HIDE DEF k
  <2>2. t[Slot[k]] = t[p] /\ t[p] \in Int
    BY <1>1, <2>1
  <2>3. (2 * t[p]) \div 2 = t[p]
    BY <2>2
  <2>4. (IF IsShear(k) THEN B[k] \div 2 ELSE B[k]) = t[p]
    BY <1>2, <2>1, <2>2, <2>3
  <2> QED
    BY <2>4 DEF k
<1> QED
  BY <1>2, <1>3 DEF StrainFromBuffer, B

Pairs(a, b) == <<a[1], a[2], b[1], b[2]>>

\* Rows and columns of the buffer are pairs of axes.
LEMMA TangentSlots ==
  ASSUME NEW C, NEW k \in 1 .. 6, NEW l \in 1 .. 6
  PROVE  At(TangentToBuffer(C), k, l) = C[Pairs(Slot[k], Slot[l])]
<1> DEFINE B == TangentToBuffer(C)
<1>1. B = [n \in 1 .. 36 |-> C[Pairs(Slot[((n - 1) \div 6) + 1], Slot[((n - 1) % 6) + 1])]]
  BY DEF TangentToBuffer, Pairs
<1> HIDE DEF B
<1>2. (k - 1) * 6 + l \in 1 .. 36 /\ ((k - 1) * 6 + l) - 1 = (k - 1) * 6 + (l - 1)
  OBVIOUS
<1>3. ((k - 1) * 6 + (l - 1)) \div 6 = k - 1 /\ ((k - 1) * 6 + (l - 1)) % 6 = l - 1
  <2>1. k - 1 \in Int /\ l - 1 \in 0 .. 6 - 1 /\ 6 \in Nat \ {0}
    OBVIOUS
  <2> QED
    BY <2>1, Division
<1>4. (k - 1) + 1 = k /\ (l - 1) + 1 = l
  OBVIOUS
<1>5. B[(k - 1) * 6 + l] = C[Pairs(Slot[k], Slot[l])]
  BY <1>1, <1>2, <1>3, <1>4
<1> QED
  BY <1>5 DEF At, B

LEMMA TangentReturns ==
  ASSUME NEW C \in [Tensor4 -> Int], Storable("tangent", C)
  PROVE  TangentToBuffer(C) \in [1 .. 36 -> Int] /\ TangentFromBuffer(TangentToBuffer(C)) = C
<1> DEFINE B == TangentToBuffer(C)
<1>1. \A q \in Tensor4 : C[q] = C[<<q[2], q[1], q[3], q[4]>>] /\ C[q] = C[<<q[1], q[2], q[4], q[3]>>]
  BY DEF Storable
<1>2. B = [n \in 1 .. 36 |-> C[Pairs(Slot[((n - 1) \div 6) + 1], Slot[((n - 1) % 6) + 1])]]
  BY DEF TangentToBuffer, Pairs
<1>3. ASSUME NEW a \in Tensor2, NEW b \in Tensor2 PROVE Pairs(a, b) \in Tensor4
  <2>1. a[1] \in Axis /\ a[2] \in Axis /\ b[1] \in Axis /\ b[2] \in Axis
    BY DEF Tensor2
  <2> QED
    BY <2>1 DEF Pairs, Tensor4
<1>4. ASSUME NEW n \in 1 .. 36 PROVE ((n - 1) \div 6) + 1 \in 1 .. 6 /\ ((n - 1) % 6) + 1 \in 1 .. 6
  OBVIOUS
<1>5. B \in [1 .. 36 -> Int]
  <2>1. ASSUME NEW n \in 1 .. 36
        PROVE  C[Pairs(Slot[((n - 1) \div 6) + 1], Slot[((n - 1) % 6) + 1])] \in Int
    <3>1. Slot[((n - 1) \div 6) + 1] \in Tensor2 /\ Slot[((n - 1) % 6) + 1] \in Tensor2
      BY <1>4, SlotFacts
    <3> QED
      BY <1>3, <3>1
  <2> QED
    BY <1>2, <2>1
<1> HIDE DEF B
<1>6. \A k, l \in 1 .. 6 : At(B, k, l) = C[Pairs(Slot[k], Slot[l])]
  BY TangentSlots DEF B
<1>7. ASSUME NEW q \in Tensor4 PROVE At(B, SlotOf(q[1], q[2]), SlotOf(q[3], q[4])) = C[q]
  <2> DEFINE a == <<q[1], q[2]>>  b == <<q[3], q[4]>>  k == SlotOf(q[1], q[2])  l == SlotOf(q[3], q[4])
  <2>1. /\ q = <<q[1], q[2], q[3], q[4]>>
        /\ q[1] \in Axis /\ q[2] \in Axis /\ q[3] \in Axis /\ q[4] \in Axis
    BY DEF Tensor4
  <2>2. a \in Tensor2 /\ b \in Tensor2 /\ a[1] = q[1] /\ a[2] = q[2] /\ b[1] = q[3] /\ b[2] = q[4]
    BY <2>1 DEF Tensor2
  <2>3. k \in 1 .. 6 /\ Slot[k] \in {<<q[1], q[2]>>, <<q[2], q[1]>>}
    BY <2>2, SlotFacts
  <2>4. l \in 1 .. 6 /\ Slot[l] \in {<<q[3], q[4]>>, <<q[4], q[3]>>}
    BY <2>2, SlotFacts
  <2>5. Pairs(Slot[k], Slot[l]) \in {<<q[1], q[2], q[3], q[4]>>, <<q[2], q[1], q[3], q[4]>>,
                                     <<q[1], q[2], q[4], q[3]>>, <<q[2], q[1], q[4], q[3]>>}
    <3> HIDE DEF k, l
    <3> QED
      BY <2>3, <2>4 DEF Pairs
  <2>6. /\ C[<<q[1], q[2], q[3], q[4]>>] = C[q] /\ C[<<q[2], q[1], q[3], q[4]>>] = C[q]
        /\ C[<<q[1], q[2], q[4], q[3]>>] = C[q]
    BY <1>1, <2>1
  <2>7. C[<<q[2], q[1], q[4], q[3]>>] = C[q]
    <3> DEFINE r == <<q[1], q[2], q[4], q[3]>>
    <3>1. r \in Tensor4 /\ r[1] = q[1] /\ r[2] = q[2] /\ r[3] = q[4] /\ r[4] = q[3]
      BY <2>1 DEF Tensor4
    <3>2. C[r] = C[<<r[2], r[1], r[3], r[4]>>]
      BY <1>1, <3>1
    <3> QED
      BY <2>6, <3>1, <3>2
  <2> HIDE DEF k, l
  <2>8. C[Pairs(Slot[k], Slot[l])] = C[q]
    BY <2>5, <2>6, <2>7
  <2> QED
    BY <1>6, <2>3, <2>4, <2>8 DEF k, l
<1>8. TangentFromBuffer(B) = [q \in Tensor4 |-> C[q]]
  BY <1>7 DEF TangentFromBuffer
<1> QED
  BY <1>5, <1>8 DEF B

\* What is packed is a number for each slot of the entry.
LEMMA EntryType ==
  ASSUME NEW kind \in StateKind, NEW value \in KindValue(kind), Storable(kind, value)
  PROVE  \A a \in 1 .. KindWidth(kind) : PackEntry(kind, value)[a] \in Int
<1>1. CASE kind = "scalar"
  BY <1>1 DEF KindWidth, PackEntry, KindValue
<1>2. CASE kind = "stress"
  <2>1. KindWidth(kind) = 6 /\ PackEntry(kind, value) = StressToBuffer(value) /\ value \in [Tensor2 -> Int]
    BY <1>2 DEF KindWidth, PackEntry, KindValue
  <2> QED
    BY <1>2, <2>1, StressReturns
<1>3. CASE kind = "strain"
  <2>1. KindWidth(kind) = 6 /\ PackEntry(kind, value) = StrainToBuffer(value) /\ value \in [Tensor2 -> Int]
    BY <1>3 DEF KindWidth, PackEntry, KindValue
  <2> QED
    BY <1>3, <2>1, StrainReturns
<1>4. CASE kind = "tangent"
  <2>1. KindWidth(kind) = 36 /\ PackEntry(kind, value) = TangentToBuffer(value) /\ value \in [Tensor4 -> Int]
    BY <1>4 DEF KindWidth, PackEntry, KindValue
  <2> QED
    BY <1>4, <2>1, TangentReturns
<1> QED
  BY <1>1, <1>2, <1>3, <1>4 DEF StateKind

\* What an entry packs it unpacks.
LEMMA EntryReturns ==
  ASSUME NEW kind \in StateKind, NEW value \in KindValue(kind), Storable(kind, value),
         NEW block, NEW offset \in Nat,
         \A a \in 1 .. KindWidth(kind) : block[offset + a] = PackEntry(kind, value)[a]
  PROVE  UnpackEntry(kind, block, offset) = value
<1> DEFINE w == KindWidth(kind)  b == PackEntry(kind, value)
           buf == SubSeq(block, offset + 1, offset + KindWidth(kind))
<1>1. w \in Nat \ {0}
  BY KindFacts
<1>2. buf \in Seq(Int) /\ Len(buf) = w /\ \A a \in 1 .. w : buf[a] = b[a]
  <2> DEFINE m == offset + 1  n == offset + w
  <2>1. m \in Int /\ n \in Int /\ m <= n /\ n - m + 1 = w
    BY <1>1
  <2>2. \A i \in m .. n : block[i] \in Int
    <3>1. ASSUME NEW i \in m .. n PROVE block[i] \in Int
      <4>1. i - offset \in 1 .. w /\ offset + (i - offset) = i
        BY <1>1, <3>1
      <4>2. b[i - offset] \in Int
        BY <4>1, EntryType
      <4>3. block[offset + (i - offset)] = b[i - offset]
        BY <4>1
      <4> QED
        BY <4>1, <4>2, <4>3
    <3> QED
      BY <3>1
  <2>3. buf = SubSeq(block, m, n)
    OBVIOUS
  <2>4. \A a \in 1 .. w : m + a - 1 = offset + a /\ block[offset + a] = b[a]
    BY <1>1
  <2> HIDE DEF m, n, buf, b, w
  <2>5. /\ SubSeq(block, m, n) \in Seq(Int) /\ Len(SubSeq(block, m, n)) = n - m + 1
        /\ \A i \in 1 .. n - m + 1 : SubSeq(block, m, n)[i] = block[m + i - 1]
    BY <2>1, <2>2, SubSeqProperties
  <2> QED
    BY <2>1, <2>3, <2>4, <2>5
<1>3. buf = [a \in 1 .. w |-> b[a]]
  <2> HIDE DEF buf, w, b
  <2> QED
    BY <1>1, <1>2
<1>4. CASE kind = "scalar"
  <2>1. w = 1 /\ b = <<value>> /\ value \in Int
    BY <1>4 DEF KindWidth, PackEntry, KindValue
  <2>2. UnpackEntry(kind, block, offset) = buf[1]
    BY <1>4 DEF UnpackEntry
  <2> HIDE DEF buf, b, w
  <2>3. buf[1] = value
    BY <1>3, <2>1
  <2> QED
    BY <2>1, <2>2, <2>3
<1>5. CASE kind = "stress"
  <2>1. w = 6 /\ b = StressToBuffer(value) /\ value \in [Tensor2 -> Int]
    BY <1>5 DEF KindWidth, PackEntry, KindValue
  <2>2. b \in [1 .. 6 -> Int] /\ StressFromBuffer(b) = value
    BY <1>5, <2>1, StressReturns
  <2>3. UnpackEntry(kind, block, offset) = StressFromBuffer(buf)
    BY <1>5 DEF UnpackEntry
  <2> HIDE DEF buf, b, w
  <2>4. buf = b
    BY <1>3, <2>1, <2>2
  <2> QED
    BY <2>2, <2>3, <2>4
<1>6. CASE kind = "strain"
  <2>1. w = 6 /\ b = StrainToBuffer(value) /\ value \in [Tensor2 -> Int]
    BY <1>6 DEF KindWidth, PackEntry, KindValue
  <2>2. b \in [1 .. 6 -> Int] /\ StrainFromBuffer(b) = value
    BY <1>6, <2>1, StrainReturns
  <2>3. UnpackEntry(kind, block, offset) = StrainFromBuffer(buf)
    BY <1>6 DEF UnpackEntry
  <2> HIDE DEF buf, b, w
  <2>4. buf = b
    BY <1>3, <2>1, <2>2
  <2> QED
    BY <2>2, <2>3, <2>4
<1>7. CASE kind = "tangent"
  <2>1. w = 36 /\ b = TangentToBuffer(value) /\ value \in [Tensor4 -> Int]
    BY <1>7 DEF KindWidth, PackEntry, KindValue
  <2>2. b \in [1 .. 36 -> Int] /\ TangentFromBuffer(b) = value
    BY <1>7, <2>1, TangentReturns
  <2>3. UnpackEntry(kind, block, offset) = TangentFromBuffer(buf)
    BY <1>7 DEF UnpackEntry
  <2> HIDE DEF buf, b, w
  <2>4. buf = b
    BY <1>3, <2>1, <2>2
  <2> QED
    BY <2>2, <2>3, <2>4
<1> QED
  BY <1>4, <1>5, <1>6, <1>7 DEF StateKind

-----------------------------------------------------------------------------
(***************************************************************************)
(* A history through STATEV.                                               *)
(***************************************************************************)
\* Each slot has what its entry packs, and the host's own slots after the map are left alone.
LEMMA PackedSlots ==
  ASSUME NEW layout, IsLayout(layout), NEW block \in Seq(Int), MapWidth(layout) <= Len(block),
         NEW hist, AllStorable(layout, hist)
  PROVE  /\ DOMAIN PackHistory(layout, block, hist) = DOMAIN block
         /\ \A n \in 1 .. Len(layout) : \A a \in 1 .. KindWidth(layout[n].kind) :
              PackHistory(layout, block, hist)[EntryOffset(layout, n) + a]
                = PackEntry(layout[n].kind, hist[layout[n].id])[a]
         /\ \A k \in DOMAIN block : k > MapWidth(layout) => PackHistory(layout, block, hist)[k] = block[k]
<1> DEFINE O(n) == EntryOffset(layout, n)  W(n) == KindWidth(layout[n].kind)
           slots(n) == PackEntry(layout[n].kind, hist[layout[n].id])
           inEntry(k, n) == k - O(n) \in 1 .. W(n)
           packed == {n \in DOMAIN layout : \A m \in 1 .. n : Storable(layout[m].kind, hist[layout[m].id])}
           P == PackHistory(layout, block, hist)
<1>1. P = [k \in DOMAIN block |-> IF \E n \in packed : inEntry(k, n)
                                 THEN slots(CHOOSE n \in packed : inEntry(k, n))[k - O(CHOOSE n \in packed : inEntry(k, n))]
                                 ELSE block[k]]
  BY DEF PackHistory
<1>2. DOMAIN layout = 1 .. Len(layout) /\ Len(layout) \in Nat
  BY LayoutFacts
<1>3. packed = 1 .. Len(layout)
  <2>1. ASSUME NEW n \in DOMAIN layout, NEW m \in 1 .. n PROVE Storable(layout[m].kind, hist[layout[m].id])
    <3>1. m \in DOMAIN layout
      BY <1>2
    <3> QED
      BY <3>1 DEF AllStorable
  <2> QED
    BY <1>2, <2>1
<1>4. \A n \in 1 .. Len(layout) : O(n) \in Nat /\ W(n) \in Nat /\ O(n) + W(n) <= MapWidth(layout)
  BY LayoutFacts, EntryFits
<1>5. MapWidth(layout) \in Nat /\ DOMAIN block = 1 .. Len(block) /\ Len(block) \in Nat
  BY EntryFits
<1> HIDE DEF P, packed, slots
<1>6. ASSUME NEW n \in 1 .. Len(layout), NEW a \in 1 .. W(n) PROVE P[O(n) + a] = slots(n)[a]
  <2> DEFINE x == O(n) + a
  <2>1. x - O(n) = a /\ x \in DOMAIN block
    <3>1. O(n) \in Nat /\ W(n) \in Nat /\ O(n) + W(n) <= MapWidth(layout)
      BY <1>4
    <3> HIDE DEF O, W
    <3> QED
      BY <1>5, <1>6, <3>1
  <2>2. ASSUME NEW m \in packed, inEntry(x, m) PROVE m = n
    <3>1. m \in 1 .. Len(layout)
      BY <1>3
    <3>2. (EntryOffset(layout, n) + a) - EntryOffset(layout, m) \in 1 .. KindWidth(layout[m].kind)
      BY <2>2
    <3> QED
      BY <1>6, <3>1, <3>2, SlotOfOne
  <2>3. n \in packed /\ inEntry(x, n)
    BY <1>3, <2>1
  <2> HIDE DEF inEntry, x
  <2>4. (CHOOSE m \in packed : inEntry(x, m)) = n
    BY <2>2, <2>3
  <2>5. P[x] = slots(n)[x - O(n)]
    BY <1>1, <2>1, <2>3, <2>4
  <2> QED
    BY <2>1, <2>5 DEF x
<1>7. ASSUME NEW k \in DOMAIN block, k > MapWidth(layout) PROVE P[k] = block[k]
  <2>1. ASSUME NEW n \in packed, inEntry(k, n) PROVE FALSE
    <3>1. n \in 1 .. Len(layout) /\ k - O(n) \in 1 .. W(n)
      BY <1>3, <2>1
    <3>2. O(n) \in Nat /\ W(n) \in Nat /\ O(n) + W(n) <= MapWidth(layout) /\ k \in Int
      BY <1>4, <1>5, <3>1
    <3> HIDE DEF O, W
    <3> QED
      BY <1>5, <1>7, <3>1, <3>2
  <2> HIDE DEF inEntry
  <2> QED
    BY <1>1, <2>1
<1>8. DOMAIN P = DOMAIN block
  BY <1>1
<1> QED
  BY <1>6, <1>7, <1>8 DEF P, slots

\* What is stored is numbers again.
LEMMA PackedType ==
  ASSUME NEW layout, IsLayout(layout), NEW block \in Seq(Int), MapWidth(layout) <= Len(block),
         NEW hist, IsHistory(layout, hist)
  PROVE  PackHistory(layout, block, hist) \in Seq(Int) /\ Len(PackHistory(layout, block, hist)) = Len(block)
<1> DEFINE O(n) == EntryOffset(layout, n)  W(n) == KindWidth(layout[n].kind)
           slots(n) == PackEntry(layout[n].kind, hist[layout[n].id])
           inEntry(k, n) == k - O(n) \in 1 .. W(n)
           packed == {n \in DOMAIN layout : \A m \in 1 .. n : Storable(layout[m].kind, hist[layout[m].id])}
           P == PackHistory(layout, block, hist)
<1>1. P = [k \in DOMAIN block |-> IF \E n \in packed : inEntry(k, n)
                                 THEN slots(CHOOSE n \in packed : inEntry(k, n))[k - O(CHOOSE n \in packed : inEntry(k, n))]
                                 ELSE block[k]]
  BY DEF PackHistory
<1>2. ASSUME NEW n \in packed, NEW a \in 1 .. W(n) PROVE slots(n)[a] \in Int
  <2>1. n \in DOMAIN layout /\ n \in 1 .. n /\ n \in 1 .. Len(layout)
    BY LayoutFacts
  <2>2. /\ layout[n].kind \in StateKind /\ hist[layout[n].id] \in KindValue(layout[n].kind)
        /\ Storable(layout[n].kind, hist[layout[n].id])
    BY <2>1, LayoutFacts DEF IsHistory
  <2> QED
    BY <2>2, EntryType
<1>3. DOMAIN block = 1 .. Len(block) /\ Len(block) \in Nat /\ \A k \in DOMAIN block : block[k] \in Int
  OBVIOUS
<1> HIDE DEF P, packed, slots
<1>4. ASSUME NEW k \in DOMAIN block PROVE P[k] \in Int
  <2>1. CASE \E n \in packed : inEntry(k, n)
    <3> DEFINE n == CHOOSE n \in packed : inEntry(k, n)
    <3>1. n \in packed /\ inEntry(k, n)
      <4> HIDE DEF inEntry
      <4> QED
        BY <2>1
    <3>2. P[k] = slots(n)[k - O(n)]
      <4> HIDE DEF inEntry
      <4> QED
        BY <1>1, <2>1
    <3>3. k - O(n) \in 1 .. W(n)
      BY <3>1
    <3> HIDE DEF n
    <3> QED
      BY <1>2, <3>1, <3>2, <3>3
  <2>2. CASE ~ \E n \in packed : inEntry(k, n)
    <3> HIDE DEF inEntry
    <3> QED
      BY <1>1, <1>3, <2>2
  <2> QED
    BY <2>1, <2>2
<1>5. P \in [1 .. Len(block) -> Int]
  BY <1>1, <1>3, <1>4
<1>6. P \in Seq(Int) /\ Len(P) = Len(block)
  BY <1>3, <1>5
<1> QED
  BY <1>6 DEF P

\* The entries of a layout are in a block.
Carries(layout, block, hist) ==
  \A n \in 1 .. Len(layout) : \A a \in 1 .. KindWidth(layout[n].kind) :
    block[EntryOffset(layout, n) + a] = PackEntry(layout[n].kind, hist[layout[n].id])[a]

LEMMA CarriedReturns ==
  ASSUME NEW layout, IsLayout(layout), NEW block, NEW hist, IsHistory(layout, hist),
         AllStorable(layout, hist), Carries(layout, block, hist)
  PROVE  UnpackHistory(layout, block) = hist
<1> DEFINE Ids == {layout[n].id : n \in DOMAIN layout}
<1>1. ASSUME NEW id \in Ids
      PROVE  UnpackEntry(layout[EntryOf(layout, id)].kind, block, EntryOffset(layout, EntryOf(layout, id))) = hist[id]
  <2>1. PICK n \in DOMAIN layout : layout[n].id = id
    OBVIOUS
  <2>2. EntryOf(layout, id) = n
    <3>1. \A m \in DOMAIN layout : layout[m].id = id => m = n
      BY <2>1 DEF IsLayout
    <3> QED
      BY <2>1, <3>1 DEF EntryOf
  <2>3. n \in 1 .. Len(layout) /\ layout[n].kind \in StateKind /\ EntryOffset(layout, n) \in Nat
    BY LayoutFacts, EntryFits
  <2>4. hist[id] \in KindValue(layout[n].kind) /\ Storable(layout[n].kind, hist[id])
    BY <2>1 DEF IsHistory, AllStorable
  <2>5. \A a \in 1 .. KindWidth(layout[n].kind) :
          block[EntryOffset(layout, n) + a] = PackEntry(layout[n].kind, hist[id])[a]
    BY <2>1, <2>3 DEF Carries
  <2>6. UnpackEntry(layout[n].kind, block, EntryOffset(layout, n)) = hist[id]
    BY <2>3, <2>4, <2>5, EntryReturns
  <2> QED
    BY <2>2, <2>6
<1>2. UnpackHistory(layout, block) = [id \in Ids |-> hist[id]]
  BY <1>1 DEF UnpackHistory
<1> QED
  BY <1>2 DEF IsHistory

\* A history that can be stored comes back from STATEV as it was, whatever its properties
\* are, and the slots of the host after the map keep what they had (statev_map::pack and
\* unpack).
THEOREM HistoryReturns ==
  ASSUME NEW layout, IsLayout(layout), NEW block \in Seq(Int), MapWidth(layout) <= Len(block),
         NEW hist, IsHistory(layout, hist), AllStorable(layout, hist)
  PROVE  /\ UnpackHistory(layout, PackHistory(layout, block, hist)) = hist
         /\ \A k \in DOMAIN block : k > MapWidth(layout) => PackHistory(layout, block, hist)[k] = block[k]
<1>1. Carries(layout, PackHistory(layout, block, hist), hist)
  BY PackedSlots DEF Carries
<1> QED
  BY <1>1, CarriedReturns, PackedSlots

-----------------------------------------------------------------------------
(***************************************************************************)
(* The sort of the entries.                                                *)
(***************************************************************************)
EntriesOf(order, T) == {order[m] : m \in T}

LEMMA OrderFacts ==
  ASSUME NEW order, IsOrder(order)
  PROVE  /\ IsFiniteSet(DOMAIN order)
         /\ \A n \in DOMAIN order :
              order[n] \in HistoryEntry /\ order[n].id \in Nat \X Nat
<1>1. order \in Seq(HistoryEntry) /\ DOMAIN order = 1 .. Len(order) /\ Len(order) \in Nat
  BY DEF IsOrder
<1>2. IsFiniteSet(DOMAIN order)
  BY <1>1, FS_Interval
<1>3. ASSUME NEW n \in DOMAIN order
      PROVE  order[n] \in HistoryEntry /\ order[n].id \in Nat \X Nat
  <2>1. order[n] \in HistoryEntry
    BY <1>1
  <2> QED
    BY <2>1 DEF HistoryEntry
<1> QED
  BY <1>2, <1>3

\* Names are strictly ordered.
LEMMA IdsAreOrdered ==
  /\ \A a \in Nat \X Nat : ~IdBefore(a, a)
  /\ \A a, b \in Nat \X Nat : a = b \/ IdBefore(a, b) \/ IdBefore(b, a)
  /\ \A a, b, c \in Nat \X Nat : IdBefore(a, b) /\ IdBefore(b, c) => IdBefore(a, c)
<1>1. \A a \in Nat \X Nat : a = <<a[1], a[2]>> /\ a[1] \in Nat /\ a[2] \in Nat
  OBVIOUS
<1> QED
  BY <1>1 DEF IdBefore

LEMMA EntriesCount ==
  ASSUME NEW order, IsOrder(order), NEW T \in SUBSET DOMAIN order
  PROVE  /\ IsFiniteSet(T) /\ Cardinality(T) \in Nat
         /\ Cardinality(EntriesOf(order, T)) = Cardinality(T)
<1> DEFINE E == EntriesOf(order, T)  f == [m \in T |-> order[m]]
<1>1. IsFiniteSet(T) /\ Cardinality(T) \in Nat
  BY OrderFacts, FS_Subset, FS_CardinalityType
<1>2. f \in [T -> E] /\ (\A e \in E : \E m \in T : f[m] = e)
  BY DEF EntriesOf
<1>3. \A m, n \in T : f[m] = f[n] => m = n
  BY DEF IsOrder
<1>4. f \in Bijection(T, E)
  BY <1>2, <1>3 DEF Bijection, Injection, Surjection, IsInjective
<1>5. Cardinality(E) = Cardinality(T)
  BY <1>1, <1>4, FS_Bijection DEF ExistsBijection
<1> QED
  BY <1>1, <1>5

\* The entries before e.
Earlier(E, id) == {e \in E : IdBefore(e.id, id)}

\* What comes before an entry does not depend on where the entries are.
LEMMA RankOfEntries ==
  ASSUME NEW order, IsOrder(order), NEW T \in SUBSET DOMAIN order, NEW n \in T
  PROVE  Rank(order, T, n) = Cardinality(Earlier(EntriesOf(order, T), order[n].id))
<1> DEFINE R == {m \in T : IdBefore(order[m].id, order[n].id)}
<1>1. R \in SUBSET DOMAIN order
  OBVIOUS
<1>2. EntriesOf(order, R) = Earlier(EntriesOf(order, T), order[n].id)
  BY DEF EntriesOf, Earlier
<1>3. Cardinality(EntriesOf(order, R)) = Cardinality(R)
  BY <1>1, EntriesCount
<1> QED
  BY <1>2, <1>3 DEF Rank

LEMMA RanksDiffer ==
  ASSUME NEW order, IsOrder(order), NEW T \in SUBSET DOMAIN order
  PROVE  /\ \A n \in T : Rank(order, T, n) \in 0 .. Cardinality(T) - 1
         /\ \A n, l \in T : IdBefore(order[n].id, order[l].id) => Rank(order, T, n) < Rank(order, T, l)
         /\ \A n, l \in T : Rank(order, T, n) = Rank(order, T, l) => n = l
         /\ \A k \in 0 .. Cardinality(T) - 1 : \E n \in T : Rank(order, T, n) = k
<1> DEFINE R(n) == {m \in T : IdBefore(order[m].id, order[n].id)}  N == Cardinality(T)
<1>1. IsFiniteSet(T) /\ N \in Nat
  BY EntriesCount
<1>2. \A n \in T : order[n].id \in Nat \X Nat
  BY OrderFacts
<1>3. ASSUME NEW n \in T
      PROVE  IsFiniteSet(R(n)) /\ Rank(order, T, n) = Cardinality(R(n)) /\ Cardinality(R(n)) \in Nat
             /\ Cardinality(R(n)) < N
  <2>1. R(n) \in SUBSET T /\ n \notin R(n)
    BY <1>2, IdsAreOrdered
  <2>2. Rank(order, T, n) = Cardinality(R(n))
    BY DEF Rank
  <2> HIDE DEF R
  <2>3. IsFiniteSet(R(n)) /\ Cardinality(R(n)) <= N /\ (N = Cardinality(R(n)) => T = R(n))
    BY <1>1, <2>1, FS_Subset
  <2>4. Cardinality(R(n)) \in Nat
    BY <2>3, FS_CardinalityType
  <2>5. N # Cardinality(R(n))
    BY <2>1, <2>3
  <2> QED
    BY <1>1, <2>2, <2>3, <2>4, <2>5
<1>4. ASSUME NEW n \in T, NEW l \in T, IdBefore(order[n].id, order[l].id)
      PROVE  Rank(order, T, n) < Rank(order, T, l)
  <2>1. R(n) \in SUBSET R(l) /\ n \in R(l) /\ n \notin R(n)
    BY <1>2, <1>4, IdsAreOrdered
  <2> HIDE DEF R
  <2>2. /\ IsFiniteSet(R(l)) /\ Cardinality(R(n)) \in Nat /\ Cardinality(R(l)) \in Nat
        /\ Rank(order, T, n) = Cardinality(R(n)) /\ Rank(order, T, l) = Cardinality(R(l))
    BY <1>3
  <2>3. Cardinality(R(n)) <= Cardinality(R(l)) /\ (Cardinality(R(l)) = Cardinality(R(n)) => R(l) = R(n))
    BY <2>1, <2>2, FS_Subset
  <2> QED
    BY <2>1, <2>2, <2>3
<1>5. ASSUME NEW n \in T PROVE Rank(order, T, n) \in 0 .. N - 1
  <2>1. Rank(order, T, n) \in Nat /\ Rank(order, T, n) < N /\ N \in Nat
    <3>1. Rank(order, T, n) = Cardinality(R(n)) /\ Cardinality(R(n)) \in Nat /\ Cardinality(R(n)) < N
      BY <1>3
    <3> QED
      BY <1>1, <3>1
  <2> HIDE DEF N
  <2> QED
    BY <2>1
<1>6. ASSUME NEW n \in T, NEW l \in T, Rank(order, T, n) = Rank(order, T, l) PROVE n = l
  <2>1. ~IdBefore(order[n].id, order[l].id) /\ ~IdBefore(order[l].id, order[n].id)
    <3>1. Rank(order, T, n) \in Int /\ Rank(order, T, l) \in Int
      BY <1>5
    <3> QED
      BY <1>4, <1>6, <3>1
  <2>2. order[n].id = order[l].id
    BY <1>2, <2>1, IdsAreOrdered
  <2> QED
    BY <2>2 DEF IsOrder
<1>7. ASSUME NEW k \in 0 .. N - 1 PROVE \E n \in T : Rank(order, T, n) = k
  <2> DEFINE f == [n \in T |-> Rank(order, T, n)]
  <2>1. f \in Injection(T, 0 .. N - 1)
    BY <1>5, <1>6 DEF Injection, IsInjective
  <2>2. IsFiniteSet(0 .. N - 1) /\ Cardinality(0 .. N - 1) = N
    BY <1>1, FS_Interval
  <2>3. f \in Surjection(T, 0 .. N - 1)
    <3> HIDE DEF f
    <3> QED
      BY <2>1, <2>2, FS_Injection
  <2> QED
    BY <2>3 DEF Surjection
<1> QED
  BY <1>4, <1>5, <1>6, <1>7

\* The place of an entry is its rank, and no other entry has it.
LEMMA LayoutOfOrder ==
  ASSUME NEW d, NEW order, IsOrder(order)
  PROVE  LET T == Kept(d, order) IN
         /\ Len(Layout(d, order)) = Cardinality(T) /\ DOMAIN Layout(d, order) = 1 .. Cardinality(T)
         /\ \A k \in 1 .. Cardinality(T) :
              \E n \in T : Rank(order, T, n) = k - 1 /\ Layout(d, order)[k] = order[n]
         /\ \A n \in T : Rank(order, T, n) + 1 \in 1 .. Cardinality(T)
                       /\ Layout(d, order)[Rank(order, T, n) + 1] = order[n]
         /\ Layout(d, order) \in Seq(HistoryEntry)
<1> DEFINE T == Kept(d, order)  N == Cardinality(T)  L == Layout(d, order)
           at(k) == CHOOSE n \in T : Rank(order, T, n) = k - 1
<1>1. T \in SUBSET DOMAIN order
  BY DEF Kept
<1>2. N \in Nat
  BY <1>1, EntriesCount
<1>3. L = [k \in 1 .. N |-> order[at(k)]]
  BY DEF Layout
<1> HIDE DEF T, L
<1>4. ASSUME NEW k \in 1 .. N PROVE at(k) \in T /\ Rank(order, T, at(k)) = k - 1
  <2>1. k - 1 \in 0 .. N - 1
    BY <1>2
  <2>2. \E n \in T : Rank(order, T, n) = k - 1
    BY <1>1, <2>1, RanksDiffer
  <2> QED
    BY <2>2
<1>5. ASSUME NEW n \in T PROVE Rank(order, T, n) + 1 \in 1 .. N /\ L[Rank(order, T, n) + 1] = order[n]
  <2>1. Rank(order, T, n) \in 0 .. N - 1
    BY <1>1, RanksDiffer
  <2>2. Rank(order, T, n) + 1 \in 1 .. N /\ (Rank(order, T, n) + 1) - 1 = Rank(order, T, n)
    BY <1>2, <2>1
  <2>3. at(Rank(order, T, n) + 1) \in T
        /\ Rank(order, T, at(Rank(order, T, n) + 1)) = Rank(order, T, n)
    BY <1>4, <2>2
  <2> HIDE DEF at
  <2>4. at(Rank(order, T, n) + 1) = n
    <3>1. \A l \in T : Rank(order, T, l) = Rank(order, T, n) => l = n
      BY <1>1, RanksDiffer
    <3> QED
      BY <2>3, <3>1
  <2> QED
    BY <1>3, <2>2, <2>4
<1>6. \A k \in 1 .. N : order[at(k)] \in HistoryEntry
  <2> HIDE DEF at
  <2> QED
    BY <1>1, <1>4, OrderFacts
<1> HIDE DEF at
<1>7. L \in Seq(HistoryEntry) /\ Len(L) = N /\ DOMAIN L = 1 .. N
  <2>1. L \in [1 .. N -> HistoryEntry]
    BY <1>3, <1>6
  <2> QED
    BY <1>2, <2>1
<1>8. ASSUME NEW k \in 1 .. N PROVE \E n \in T : Rank(order, T, n) = k - 1 /\ L[k] = order[n]
  BY <1>3, <1>4
<1> QED
  BY <1>5, <1>7, <1>8 DEF T, L

\* What the constructor builds is a layout: each property that is not excluded has one
\* entry.
LEMMA LayoutIsLayout ==
  ASSUME NEW d, MapConstructs(d), NEW order, IsOrderOf(d, order)
  PROVE  /\ IsLayout(Layout(d, order))
         /\ {Layout(d, order)[n].id : n \in DOMAIN Layout(d, order)} = {h.id : h \in Hosted(d)}
         /\ \A n \in DOMAIN Layout(d, order) : Layout(d, order)[n] \in Hosted(d)
<1> DEFINE T == Kept(d, order)  N == Cardinality(T)  L == Layout(d, order)
<1>1. T \in SUBSET DOMAIN order /\ IsOrder(order) /\ {order[n] : n \in T} = Hosted(d)
  BY DEF Kept, IsOrderOf, Hosted
<1>2. L \in Seq(HistoryEntry) /\ DOMAIN L = 1 .. N
  BY <1>1, LayoutOfOrder
<1>3. \A k \in 1 .. N : \E n \in T : Rank(order, T, n) = k - 1 /\ L[k] = order[n]
  BY <1>1, LayoutOfOrder
<1>4. \A n \in T : Rank(order, T, n) + 1 \in 1 .. N /\ L[Rank(order, T, n) + 1] = order[n]
  BY <1>1, LayoutOfOrder
<1> HIDE DEF L, T, N
<1>5. ASSUME NEW j \in 1 .. N, NEW k \in 1 .. N, L[j].id = L[k].id PROVE j = k
  <2>1. PICK n \in T : Rank(order, T, n) = j - 1 /\ L[j] = order[n]
    BY <1>3
  <2>2. PICK l \in T : Rank(order, T, l) = k - 1 /\ L[k] = order[l]
    BY <1>3
  <2>3. n = l
    BY <1>1, <1>5, <2>1, <2>2 DEF IsOrder
  <2> QED
    BY <2>1, <2>2, <2>3
<1>6. {L[k].id : k \in DOMAIN L} = {h.id : h \in Hosted(d)}
  BY <1>1, <1>2, <1>3, <1>4
<1>7. \A k \in DOMAIN L : L[k] \in Hosted(d)
  BY <1>1, <1>2, <1>3
<1>8. \A k \in DOMAIN L : L[k].kind \in StateKind
  BY <1>7 DEF MapConstructs, Hosted
<1> QED
  BY <1>2, <1>5, <1>6, <1>7, <1>8 DEF IsLayout, L, T

\* Two processes that execute the same history properties in different orders have the
\* same layout.
THEOREM LayoutIsOfNames ==
  ASSUME NEW d, NEW first, IsOrderOf(d, first), NEW second, IsOrderOf(d, second)
  PROVE  Layout(d, first) = Layout(d, second)
<1> DEFINE T == Kept(d, first)  U == Kept(d, second)
           L == Layout(d, first)  M == Layout(d, second)
<1>1. /\ T \in SUBSET DOMAIN first /\ U \in SUBSET DOMAIN second
      /\ IsOrder(first) /\ IsOrder(second)
      /\ {first[n] : n \in DOMAIN first} = {second[n] : n \in DOMAIN second}
  BY DEF Kept, IsOrderOf
<1>2. EntriesOf(first, T) = EntriesOf(second, U)
  BY <1>1 DEF EntriesOf, Kept
<1>3. Cardinality(T) = Cardinality(U)
  BY <1>1, <1>2, EntriesCount
<1>4. L \in Seq(HistoryEntry) /\ M \in Seq(HistoryEntry)
      /\ DOMAIN L = 1 .. Cardinality(T) /\ DOMAIN M = 1 .. Cardinality(U)
  BY <1>1, LayoutOfOrder
<1>5. \A k \in 1 .. Cardinality(T) : \E n \in T : Rank(first, T, n) = k - 1 /\ L[k] = first[n]
  BY <1>1, LayoutOfOrder
<1>6. \A n \in U : M[Rank(second, U, n) + 1] = second[n]
  BY <1>1, LayoutOfOrder
<1> HIDE DEF T, U, L, M
<1>7. ASSUME NEW k \in 1 .. Cardinality(T) PROVE L[k] = M[k]
  <2>1. PICK n \in T : Rank(first, T, n) = k - 1 /\ L[k] = first[n]
    BY <1>5
  <2>2. PICK l \in U : second[l] = first[n]
    BY <1>2 DEF EntriesOf
  <2>3. Rank(second, U, l) = Rank(first, T, n)
    BY <1>1, <1>2, <2>2, RankOfEntries
  <2>4. Rank(second, U, l) + 1 = k
    BY <2>1, <2>3
  <2> QED
    BY <1>6, <2>1, <2>2, <2>4
<1>8. L = M
  <2>1. DOMAIN L = DOMAIN M /\ DOMAIN L = 1 .. Cardinality(T)
    BY <1>3, <1>4
  <2>2. L = [k \in DOMAIN L |-> L[k]] /\ M = [k \in DOMAIN M |-> M[k]]
    BY <1>4
  <2> QED
    BY <1>7, <2>1, <2>2
<1> QED
  BY <1>8 DEF L, M

\* What a process has packed into STATEV, another reads after a restart, whatever the
\* order in which it executes the properties.
THEOREM RestartReads ==
  ASSUME NEW d, MapConstructs(d), NEW first, IsOrderOf(d, first), NEW second, IsOrderOf(d, second),
         NEW block \in Seq(Int), MapWidth(Layout(d, first)) <= Len(block),
         NEW hist, IsHistory(Layout(d, first), hist), AllStorable(Layout(d, first), hist)
  PROVE  UnpackHistory(Layout(d, second), PackHistory(Layout(d, first), block, hist)) = hist
<1>1. Layout(d, second) = Layout(d, first)
  BY LayoutIsOfNames
<1>2. IsLayout(Layout(d, first))
  BY LayoutIsLayout
<1> QED
  BY <1>1, <1>2, HistoryReturns

-----------------------------------------------------------------------------
(***************************************************************************)
(* Rotations.                                                              *)
(***************************************************************************)
\* Numbers add up to numbers.
LEMMA SumTyped ==
  ASSUME NEW f \in [Axis -> Int]
  PROVE  SumOver(f) \in Int
BY DEF SumOver, Axis

\* Products with one and zero.
LEMMA ProductTyped ==
  ASSUME NEW a \in Int, NEW b \in Int
  PROVE  a * b \in Int /\ 1 * a = a /\ 0 * a = 0 /\ a * 1 = a /\ a * 0 = 0
OBVIOUS

\* The identity has ones where its axes agree.
LEMMA IdentityFacts ==
  /\ Identity \in [Tensor2 -> Int]
  /\ \A i, j \in Axis : Identity[<<i, j>>] = IF i = j THEN 1 ELSE 0
BY DEF Identity, Tensor2, Axis

\* A tensor of rank 2 stays one.
LEMMA Rotate2Typed ==
  ASSUME NEW a \in [Tensor2 -> Int], NEW R \in [Tensor2 -> Int]
  PROVE  Rotate2(a, R) \in [Tensor2 -> Int]
<1> DEFINE term(p, r, s) == R[<<p[1], r>>] * a[<<r, s>>] * R[<<p[2], s>>]
<1>1. ASSUME NEW p \in Tensor2, NEW r \in Axis, NEW s \in Axis PROVE term(p, r, s) \in Int
  <2>1. p[1] \in Axis /\ p[2] \in Axis
    BY DEF Tensor2
  <2>2. R[<<p[1], r>>] \in Int /\ a[<<r, s>>] \in Int /\ R[<<p[2], s>>] \in Int
    BY <2>1 DEF Tensor2
  <2>3. R[<<p[1], r>>] * a[<<r, s>>] \in Int
    BY <2>2, ProductTyped
  <2> QED
    BY <2>2, <2>3, ProductTyped
<1> HIDE DEF term
<1>2. ASSUME NEW p \in Tensor2, NEW r \in Axis PROVE SumOver([s \in Axis |-> term(p, r, s)]) \in Int
  BY <1>1, SumTyped
<1>3. ASSUME NEW p \in Tensor2 PROVE SumOver([r \in Axis |-> SumOver([s \in Axis |-> term(p, r, s)])]) \in Int
  BY <1>2, SumTyped
<1> QED
  BY <1>3 DEF Rotate2, term

\* By no rotation it stays as it is.
LEMMA Rotate2Identity ==
  ASSUME NEW a \in [Tensor2 -> Int]
  PROVE  Rotate2(a, Identity) = a
<1> DEFINE term(p, r, s) == Identity[<<p[1], r>>] * a[<<r, s>>] * Identity[<<p[2], s>>]
<1>1. ASSUME NEW p \in Tensor2
      PROVE  SumOver([r \in Axis |-> SumOver([s \in Axis |-> term(p, r, s)])]) = a[p]
  <2>1. p = <<p[1], p[2]>> /\ p[1] \in Axis /\ p[2] \in Axis
    BY DEF Tensor2
  <2>2. ASSUME NEW r \in Axis, NEW s \in Axis PROVE term(p, r, s) = IF r = p[1] /\ s = p[2] THEN a[p] ELSE 0
    <3>1. a[<<r, s>>] \in Int
      BY DEF Tensor2
    <3>2. Identity[<<p[1], r>>] = (IF r = p[1] THEN 1 ELSE 0) /\ Identity[<<p[2], s>>] = (IF s = p[2] THEN 1 ELSE 0)
      BY <2>1, IdentityFacts
    <3>3. CASE r = p[1] /\ s = p[2]
      BY <2>1, <3>1, <3>2, <3>3
    <3>4. CASE r # p[1]
      BY <3>1, <3>2, <3>4
    <3>5. CASE s # p[2]
      <4> DEFINE x == Identity[<<p[1], r>>] * a[<<r, s>>]
      <4>1. x \in Int
        BY <3>1, <3>2
      <4> HIDE DEF x
      <4>2. x * Identity[<<p[2], s>>] = 0
        BY <3>2, <3>5, <4>1
      <4> QED
        BY <3>5, <4>2 DEF x
    <3> QED
      BY <3>3, <3>4, <3>5
  <2>3. a[p] \in Int
    OBVIOUS
  <2> HIDE DEF term
  <2>4. ASSUME NEW r \in Axis PROVE SumOver([s \in Axis |-> term(p, r, s)]) = IF r = p[1] THEN a[p] ELSE 0
    <3>1. SumOver([s \in Axis |-> term(p, r, s)]) = term(p, r, 1) + term(p, r, 2) + term(p, r, 3)
      BY DEF SumOver, Axis
    <3> QED
      BY <2>1, <2>2, <2>3, <3>1 DEF Axis
  <2>5. SumOver([r \in Axis |-> SumOver([s \in Axis |-> term(p, r, s)])]) = a[p]
    <3> DEFINE row(r) == SumOver([s \in Axis |-> term(p, r, s)])
    <3>1. SumOver([r \in Axis |-> row(r)]) = row(1) + row(2) + row(3)
      BY DEF SumOver, Axis
    <3>2. \A r \in Axis : row(r) = IF r = p[1] THEN a[p] ELSE 0
      BY <2>4
    <3> HIDE DEF row
    <3>3. SumOver([r \in Axis |-> row(r)]) = a[p]
      BY <2>1, <2>3, <3>1, <3>2 DEF Axis
    <3> QED
      BY <3>3 DEF row
  <2> QED
    BY <2>5
<1>2. Rotate2(a, Identity) = [p \in Tensor2 |-> a[p]]
  BY <1>1 DEF Rotate2
<1> QED
  BY <1>2

\* An index of a tensor of rank 4 may be any axis.
LEMMA IndexReplaced ==
  ASSUME NEW q \in Tensor4, NEW n \in 1 .. 4
  PROVE  /\ q[n] \in Axis /\ [q EXCEPT ![n] = q[n]] = q
         /\ \A r \in Axis : [q EXCEPT ![n] = r] \in Tensor4
<1>1. q = <<q[1], q[2], q[3], q[4]>> /\ q[1] \in Axis /\ q[2] \in Axis /\ q[3] \in Axis /\ q[4] \in Axis
  BY DEF Tensor4
<1>2. n = 1 \/ n = 2 \/ n = 3 \/ n = 4
  OBVIOUS
<1>3. q[n] \in Axis
  BY <1>1, <1>2
<1>4. [q EXCEPT ![n] = q[n]] = q
  BY <1>1
<1>5. ASSUME NEW r \in Axis PROVE [q EXCEPT ![n] = r] \in Tensor4
  <2>1. CASE n = 1
    <3>1. [q EXCEPT ![1] = r] = <<r, q[2], q[3], q[4]>>
      BY <1>1
    <3> QED
      BY <1>1, <2>1, <3>1 DEF Tensor4
  <2>2. CASE n = 2
    <3>1. [q EXCEPT ![2] = r] = <<q[1], r, q[3], q[4]>>
      BY <1>1
    <3> QED
      BY <1>1, <2>2, <3>1 DEF Tensor4
  <2>3. CASE n = 3
    <3>1. [q EXCEPT ![3] = r] = <<q[1], q[2], r, q[4]>>
      BY <1>1
    <3> QED
      BY <1>1, <2>3, <3>1 DEF Tensor4
  <2>4. CASE n = 4
    <3>1. [q EXCEPT ![4] = r] = <<q[1], q[2], q[3], r>>
      BY <1>1
    <3> QED
      BY <1>1, <2>4, <3>1 DEF Tensor4
  <2> QED
    BY <1>2, <2>1, <2>2, <2>3, <2>4
<1> QED
  BY <1>3, <1>4, <1>5

\* A tensor of rank 4 stays one, index by index.
LEMMA RotateIndexTyped ==
  ASSUME NEW c \in [Tensor4 -> Int], NEW R \in [Tensor2 -> Int], NEW n \in 1 .. 4
  PROVE  RotateIndex(c, R, n) \in [Tensor4 -> Int]
<1> DEFINE term(q, r) == R[<<q[n], r>>] * c[[q EXCEPT ![n] = r]]
<1>1. ASSUME NEW q \in Tensor4, NEW r \in Axis PROVE term(q, r) \in Int
  <2>1. R[<<q[n], r>>] \in Int
    BY IndexReplaced DEF Tensor2
  <2>2. c[[q EXCEPT ![n] = r]] \in Int
    BY IndexReplaced
  <2> QED
    BY <2>1, <2>2, ProductTyped
<1> HIDE DEF term
<1>2. ASSUME NEW q \in Tensor4 PROVE SumOver([r \in Axis |-> term(q, r)]) \in Int
  BY <1>1, SumTyped
<1> QED
  BY <1>2 DEF RotateIndex, term

\* By no rotation each index stays as it is.
LEMMA RotateIndexIdentity ==
  ASSUME NEW c \in [Tensor4 -> Int], NEW n \in 1 .. 4
  PROVE  RotateIndex(c, Identity, n) = c
<1> DEFINE term(q, r) == Identity[<<q[n], r>>] * c[[q EXCEPT ![n] = r]]
<1>1. ASSUME NEW q \in Tensor4 PROVE SumOver([r \in Axis |-> term(q, r)]) = c[q]
  <2>1. q[n] \in Axis /\ c[q] \in Int
    BY IndexReplaced
  <2>2. ASSUME NEW r \in Axis PROVE term(q, r) = IF r = q[n] THEN c[q] ELSE 0
    <3>1. c[[q EXCEPT ![n] = r]] \in Int
      BY IndexReplaced
    <3>2. Identity[<<q[n], r>>] = IF r = q[n] THEN 1 ELSE 0
      BY <2>1, IdentityFacts
    <3>3. CASE r = q[n]
      <4>1. [q EXCEPT ![n] = r] = q
        BY <3>3, IndexReplaced
      <4>2. term(q, r) = 1 * c[q]
        BY <3>2, <3>3, <4>1
      <4> QED
        BY <2>1, <3>3, <4>2, ProductTyped
    <3>4. CASE r # q[n]
      <4>1. term(q, r) = 0 * c[[q EXCEPT ![n] = r]]
        BY <3>2, <3>4
      <4> QED
        BY <3>1, <3>4, <4>1, ProductTyped
    <3> QED
      BY <3>3, <3>4
  <2> HIDE DEF term
  <2>3. SumOver([r \in Axis |-> term(q, r)]) = term(q, 1) + term(q, 2) + term(q, 3)
    BY DEF SumOver, Axis
  <2> QED
    BY <2>1, <2>2, <2>3 DEF Axis
<1>2. RotateIndex(c, Identity, n) = [q \in Tensor4 |-> c[q]]
  BY <1>1 DEF RotateIndex
<1> QED
  BY <1>2

\* A rotation is of a tensor, and by no rotation nothing is rotated.
LEMMA RotateEntryFacts ==
  ASSUME NEW kind \in StateKind, NEW value \in KindValue(kind)
  PROVE  /\ \A R \in [Tensor2 -> Int] : RotateEntry(kind, value, R) \in KindValue(kind)
         /\ RotateEntry(kind, value, Identity) = value
<1>1. CASE kind = "scalar"
  BY <1>1 DEF RotateEntry
<1>2. CASE kind \in {"stress", "strain"}
  <2>1. KindValue(kind) = [Tensor2 -> Int] /\ \A R : RotateEntry(kind, value, R) = Rotate2(value, R)
    BY <1>2 DEF RotateEntry, KindValue
  <2> QED
    BY <2>1, Rotate2Typed, Rotate2Identity
<1>3. CASE kind = "tangent"
  <2>1. KindValue(kind) = [Tensor4 -> Int] /\ \A R : RotateEntry(kind, value, R) = Rotate4(value, R)
    BY <1>3 DEF RotateEntry, KindValue
  <2>2. ASSUME NEW R \in [Tensor2 -> Int] PROVE Rotate4(value, R) \in [Tensor4 -> Int]
    <3>1. RotateIndex(value, R, 1) \in [Tensor4 -> Int]
      BY <2>1, RotateIndexTyped
    <3>2. RotateIndex(RotateIndex(value, R, 1), R, 2) \in [Tensor4 -> Int]
      BY <3>1, RotateIndexTyped
    <3>3. RotateIndex(RotateIndex(RotateIndex(value, R, 1), R, 2), R, 3) \in [Tensor4 -> Int]
      BY <3>2, RotateIndexTyped
    <3> QED
      BY <3>3, RotateIndexTyped DEF Rotate4
  <2>3. Rotate4(value, Identity) = value
    BY <2>1, RotateIndexIdentity DEF Rotate4
  <2> QED
    BY <2>1, <2>2, <2>3
<1> QED
  BY <1>1, <1>2, <1>3 DEF StateKind

-----------------------------------------------------------------------------
(***************************************************************************)
(* The material.                                                           *)
(***************************************************************************)
\* A deck whose properties have one kind each, and its layout.
IsLayoutOf(d, layout) ==
  /\ IsLayout(layout)
  /\ \A h, k \in d.histories : h.id = k.id => h = k
  /\ {layout[n].id : n \in DOMAIN layout} = {h.id : h \in Hosted(d)}
  /\ \A n \in DOMAIN layout : layout[n] \in Hosted(d)

\* The entries of the map are the properties the deck keeps.
LEMMA LayoutOfDeck ==
  ASSUME NEW d, MapConstructs(d), NEW order, IsOrderOf(d, order)
  PROVE  IsLayoutOf(d, Layout(d, order))
<1>1. \A h, k \in d.histories : h.id = k.id => h = k
  BY DEF IsOrderOf, IsOrder
<1> QED
  BY <1>1, LayoutIsLayout DEF IsLayoutOf

Ids(layout) == {layout[n].id : n \in DOMAIN layout}

\* An entry is found by its property, and has the kind of it.
LEMMA KindOfEntry ==
  ASSUME NEW d, NEW layout, IsLayoutOf(d, layout)
  PROVE  /\ \A n \in DOMAIN layout : EntryOf(layout, layout[n].id) = n /\ KindOf(d, layout[n].id) = layout[n].kind
         /\ \A id \in Ids(layout) : KindOf(d, id) \in StateKind /\ layout[EntryOf(layout, id)].kind = KindOf(d, id)
<1>1. ASSUME NEW n \in DOMAIN layout
      PROVE  /\ EntryOf(layout, layout[n].id) = n /\ KindOf(d, layout[n].id) = layout[n].kind
             /\ layout[n].kind \in StateKind
  <2>1. \A m \in DOMAIN layout : layout[m].id = layout[n].id => m = n
    BY DEF IsLayoutOf, IsLayout
  <2>2. EntryOf(layout, layout[n].id) = n
    BY <2>1 DEF EntryOf
  <2>3. layout[n] \in d.histories /\ \A h \in d.histories : h.id = layout[n].id => h = layout[n]
    BY DEF IsLayoutOf, Hosted
  <2>4. KindOf(d, layout[n].id) = layout[n].kind
    BY <2>3 DEF KindOf
  <2> QED
    BY <2>2, <2>4 DEF IsLayoutOf, IsLayout
<1>2. ASSUME NEW id \in Ids(layout)
      PROVE  KindOf(d, id) \in StateKind /\ layout[EntryOf(layout, id)].kind = KindOf(d, id)
  <2>1. PICK n \in DOMAIN layout : layout[n].id = id
    BY DEF Ids
  <2> QED
    BY <1>1, <2>1
<1> QED
  BY <1>1, <1>2

\* A history of a deck has a value for each of its properties.
IsHistoryOf(d, ids, hist) ==
  hist = [id \in ids |-> hist[id]] /\ \A id \in ids : hist[id] \in KindValue(KindOf(d, id))

\* A history of a layout is one of the deck.
LEMMA HistoryOfDeck ==
  ASSUME NEW d, NEW layout, IsLayoutOf(d, layout), NEW hist
  PROVE  IsHistory(layout, hist) <=> IsHistoryOf(d, Ids(layout), hist)
<1>1. \A n \in DOMAIN layout : KindOf(d, layout[n].id) = layout[n].kind
  BY KindOfEntry
<1> QED
  BY <1>1 DEF IsHistory, IsHistoryOf, Ids

\* What a rotation makes of a history.
TurnedBy(d, held, R) == [id \in DOMAIN held |-> RotateEntry(KindOf(d, id), held[id], R)]

\* A rotated history is a history.
LEMMA TurnedFacts ==
  ASSUME NEW d, NEW ids, \A id \in ids : KindOf(d, id) \in StateKind,
         NEW held, IsHistoryOf(d, ids, held)
  PROVE  /\ \A R \in [Tensor2 -> Int] : IsHistoryOf(d, ids, TurnedBy(d, held, R))
         /\ TurnedBy(d, held, Identity) = held
<1>1. DOMAIN held = ids /\ held = [id \in ids |-> held[id]] /\ \A id \in ids : held[id] \in KindValue(KindOf(d, id))
  BY DEF IsHistoryOf
<1>2. ASSUME NEW R \in [Tensor2 -> Int] PROVE IsHistoryOf(d, ids, TurnedBy(d, held, R))
  <2>1. TurnedBy(d, held, R) = [id \in ids |-> RotateEntry(KindOf(d, id), held[id], R)]
    BY <1>1 DEF TurnedBy
  <2>2. \A id \in ids : RotateEntry(KindOf(d, id), held[id], R) \in KindValue(KindOf(d, id))
    BY <1>1, RotateEntryFacts
  <2> QED
    BY <2>1, <2>2 DEF IsHistoryOf
<1>3. TurnedBy(d, held, Identity) = [id \in ids |-> held[id]]
  <2>1. TurnedBy(d, held, Identity) = [id \in ids |-> RotateEntry(KindOf(d, id), held[id], Identity)]
    BY <1>1 DEF TurnedBy
  <2>2. \A id \in ids : RotateEntry(KindOf(d, id), held[id], Identity) = held[id]
    BY <1>1, RotateEntryFacts
  <2> QED
    BY <2>1, <2>2
<1> QED
  BY <1>1, <1>2, <1>3

\* rotate_history leaves a history alone where DROT is the identity, and that is the same.
LEMMA RotateHistoryTurns ==
  ASSUME NEW d, NEW layout, IsLayoutOf(d, layout), NEW held, IsHistoryOf(d, Ids(layout), held), NEW drot
  PROVE  RotateHistory(layout, held, drot) = TurnedBy(d, held, RotationFromBuffer(drot))
<1> DEFINE R == RotationFromBuffer(drot)
<1>1. DOMAIN held = Ids(layout)
  BY DEF IsHistoryOf
<1>2. \A id \in Ids(layout) : KindOf(d, id) \in StateKind /\ layout[EntryOf(layout, id)].kind = KindOf(d, id)
  BY KindOfEntry
<1>3. CASE R = Identity
  <2>1. RotateHistory(layout, held, drot) = held
    BY <1>3 DEF RotateHistory
  <2> QED
    BY <1>2, <1>3, <2>1, TurnedFacts
<1>4. CASE R # Identity
  <2>1. RotateHistory(layout, held, drot)
          = [id \in DOMAIN held |-> RotateEntry(layout[EntryOf(layout, id)].kind, held[id], R)]
    BY <1>4 DEF RotateHistory
  <2> HIDE DEF R
  <2> QED
    BY <1>1, <1>2, <2>1 DEF TurnedBy, R
<1> QED
  BY <1>3, <1>4

\* The stiffness by its slots.
LEMMA StiffnessTyped ==
  ASSUME NEW d, d.stiffness \in [1 .. 36 -> Int]
  PROVE  /\ Stiffness(d) \in [Tensor4 -> Int]
         /\ \A q \in Tensor4 : Stiffness(d)[q] = At(d.stiffness, SlotOf(q[1], q[2]), SlotOf(q[3], q[4]))
         /\ \A a, b \in 1 .. 6 : At(d.stiffness, a, b) \in Int
<1>1. ASSUME NEW a \in 1 .. 6, NEW b \in 1 .. 6 PROVE At(d.stiffness, a, b) \in Int
  <2>1. (a - 1) * 6 + b \in 1 .. 36
    OBVIOUS
  <2> QED
    BY <2>1 DEF At
<1>2. ASSUME NEW q \in Tensor4 PROVE At(d.stiffness, SlotOf(q[1], q[2]), SlotOf(q[3], q[4])) \in Int
  <2>1. <<q[1], q[2]>> \in Tensor2 /\ <<q[3], q[4]>> \in Tensor2
    BY DEF Tensor4, Tensor2
  <2>2. SlotOf(q[1], q[2]) \in 1 .. 6 /\ SlotOf(q[3], q[4]) \in 1 .. 6
    BY <2>1, SlotFacts
  <2> QED
    BY <1>1, <2>2
<1> QED
  BY <1>1, <1>2 DEF Stiffness, TangentFromBuffer

\* A stress is a tensor.
LEMMA ContractTyped ==
  ASSUME NEW C \in [Tensor4 -> Int], NEW e \in [Tensor2 -> Int]
  PROVE  Contract(C, e) \in [Tensor2 -> Int]
<1> DEFINE term(p, r, s) == C[<<p[1], p[2], r, s>>] * e[<<r, s>>]
<1>1. ASSUME NEW p \in Tensor2, NEW r \in Axis, NEW s \in Axis PROVE term(p, r, s) \in Int
  <2>1. p[1] \in Axis /\ p[2] \in Axis
    BY DEF Tensor2
  <2>2. C[<<p[1], p[2], r, s>>] \in Int /\ e[<<r, s>>] \in Int
    BY <2>1 DEF Tensor2, Tensor4
  <2> QED
    BY <2>2, ProductTyped
<1> HIDE DEF term
<1>2. ASSUME NEW p \in Tensor2, NEW r \in Axis PROVE SumOver([s \in Axis |-> term(p, r, s)]) \in Int
  BY <1>1, SumTyped
<1>3. ASSUME NEW p \in Tensor2 PROVE SumOver([r \in Axis |-> SumOver([s \in Axis |-> term(p, r, s)])]) \in Int
  BY <1>2, SumTyped
<1> QED
  BY <1>3 DEF Contract, term

\* A value grows into one of its kind.
LEMMA GrowsTyped ==
  ASSUME NEW kind \in StateKind, NEW value \in KindValue(kind), NEW sigma \in [Tensor2 -> Int],
         NEW step \in [Tensor2 -> Int], NEW rate \in [Tensor4 -> Int]
  PROVE  Grows(kind, value, sigma, step, rate) \in KindValue(kind)
<1>1. CASE kind = "scalar"
  BY <1>1 DEF Grows, KindValue
<1>2. CASE kind = "stress"
  BY <1>2 DEF Grows, KindValue, AddTo
<1>3. CASE kind = "strain"
  BY <1>3 DEF Grows, KindValue, AddTo
<1>4. CASE kind = "tangent"
  BY <1>4 DEF Grows, KindValue, AddTo
<1> QED
  BY <1>1, <1>2, <1>3, <1>4 DEF StateKind

\* What the material makes of a history is one.
LEMMA RespondsTyped ==
  ASSUME NEW d, d.stiffness \in [1 .. 36 -> Int], NEW ids, \A id \in ids : KindOf(d, id) \in StateKind,
         NEW h, IsHistoryOf(d, ids, h), NEW e0 \in [Tensor2 -> Int], NEW e1 \in [Tensor2 -> Int]
  PROVE  /\ IsHistoryOf(d, ids, Responds(d, h, e0, e1).hist)
         /\ Responds(d, h, e0, e1).stress = Contract(Stiffness(d), e1)
         /\ Contract(Stiffness(d), e1) \in [Tensor2 -> Int]
<1> DEFINE sigma == Contract(Stiffness(d), e1)
           step  == [p \in Tensor2 |-> e1[p] - e0[p] + IF d.skewed /\ p = <<1, 2>> THEN 1 ELSE 0]
           rate  == [q \in Tensor4 |-> Stiffness(d)[q] + IF d.skewed /\ q = <<1, 2, 1, 1>> THEN 1 ELSE 0]
<1>1. Stiffness(d) \in [Tensor4 -> Int]
  BY StiffnessTyped
<1>2. sigma \in [Tensor2 -> Int]
  BY <1>1, ContractTyped
<1>3. step \in [Tensor2 -> Int]
  OBVIOUS
<1>4. rate \in [Tensor4 -> Int]
  BY <1>1
<1>5. Responds(d, h, e0, e1)
        = [hist |-> [id \in DOMAIN h |-> Grows(KindOf(d, id), h[id], sigma, step, rate)], stress |-> sigma]
  BY DEF Responds
<1> HIDE DEF sigma, step, rate
<1>6. DOMAIN h = ids /\ \A id \in ids : h[id] \in KindValue(KindOf(d, id))
  BY DEF IsHistoryOf
<1>7. \A id \in ids : Grows(KindOf(d, id), h[id], sigma, step, rate) \in KindValue(KindOf(d, id))
  BY <1>2, <1>3, <1>4, <1>6, GrowsTyped
<1>8. Responds(d, h, e0, e1).hist = [id \in ids |-> Grows(KindOf(d, id), h[id], sigma, step, rate)]
  BY <1>5, <1>6
<1>9. Responds(d, h, e0, e1).stress = sigma
  BY <1>5
<1> QED
  BY <1>2, <1>7, <1>8, <1>9 DEF IsHistoryOf, sigma

-----------------------------------------------------------------------------
(***************************************************************************)
(* The strains of a host.                                                  *)
(***************************************************************************)
HostWidth(family) == Len(HostComponents(family))

AbaqusFamily == {"solid3d", "plane_strain", "plane_stress"}

\* The slots of a family are those of the components it has.
LEMMA SlotMapFacts ==
  ASSUME NEW f \in AbaqusFamily
  PROVE  /\ DOMAIN SlotMap(f) = 1 .. HostWidth(f) /\ HostWidth(f) \in 1 .. 6
         /\ DOMAIN HostComponents(f) = 1 .. HostWidth(f)
         /\ \A n \in 1 .. HostWidth(f) : SlotMap(f)[n] \in 1 .. 6 /\ HostComponents(f)[n] = Slot[SlotMap(f)[n]]
         /\ \A m, n \in 1 .. HostWidth(f) : SlotMap(f)[m] = SlotMap(f)[n] => m = n
<1>1. CASE f = "solid3d"
  <2>1. SlotMap(f) = <<1, 2, 3, 4, 5, 6>> /\ HostComponents(f) = Slot
    BY <1>1 DEF SlotMap, HostComponents, Slot
  <2>2. HostWidth(f) = 6 /\ DOMAIN Slot = 1 .. 6
    BY <2>1 DEF HostWidth, Slot
  <2> QED
    BY <2>1, <2>2
<1>2. CASE f = "plane_strain"
  <2>1. SlotMap(f) = <<1, 2, 3, 4>> /\ HostComponents(f) = <<<<1, 1>>, <<2, 2>>, <<3, 3>>, <<1, 2>>>>
    BY <1>2 DEF SlotMap, HostComponents
  <2>2. HostWidth(f) = 4
    BY <2>1 DEF HostWidth
  <2> QED
    BY <2>1, <2>2 DEF Slot
<1>3. CASE f = "plane_stress"
  <2>1. SlotMap(f) = <<1, 2, 4>> /\ HostComponents(f) = <<<<1, 1>>, <<2, 2>>, <<1, 2>>>>
    BY <1>3 DEF SlotMap, HostComponents
  <2>2. HostWidth(f) = 3
    BY <2>1 DEF HostWidth
  <2> QED
    BY <2>1, <2>2 DEF Slot
<1> QED
  BY <1>1, <1>2, <1>3 DEF AbaqusFamily

\* Slots and pairs of axes.
LEMMA SlotsOfAxes ==
  /\ \A k \in 1 .. 6 : Slot[k] \in Tensor2 /\ SlotOf(Slot[k][1], Slot[k][2]) = k
                    /\ (Slot[k][1] # Slot[k][2] <=> IsShear(k)) /\ (Slot[k] = <<3, 3>> <=> k = 3)
  /\ \A p \in Tensor2 : /\ Sorted(p) = Slot[SlotOf(p[1], p[2])] /\ SlotOf(p[1], p[2]) \in 1 .. 6
                        /\ (p[1] # p[2] <=> IsShear(SlotOf(p[1], p[2])))
                        /\ (p = <<3, 3>> <=> SlotOf(p[1], p[2]) = 3)
<1>1. ASSUME NEW k \in 1 .. 6
      PROVE  Slot[k] \in Tensor2 /\ SlotOf(Slot[k][1], Slot[k][2]) = k
             /\ (Slot[k][1] # Slot[k][2] <=> IsShear(k)) /\ (Slot[k] = <<3, 3>> <=> k = 3)
  <2>1. k = 1 \/ k = 2 \/ k = 3 \/ k = 4 \/ k = 5 \/ k = 6
    OBVIOUS
  <2> QED
    BY <2>1 DEF Slot, Tensor2, Axis, SlotOf, IsShear
<1>2. ASSUME NEW p \in Tensor2
      PROVE  /\ Sorted(p) = Slot[SlotOf(p[1], p[2])] /\ SlotOf(p[1], p[2]) \in 1 .. 6
             /\ (p[1] # p[2] <=> IsShear(SlotOf(p[1], p[2])))
             /\ (p = <<3, 3>> <=> SlotOf(p[1], p[2]) = 3)
  <2> DEFINE i == p[1]  j == p[2]
  <2>1. p = <<i, j>> /\ (i = 1 \/ i = 2 \/ i = 3) /\ (j = 1 \/ j = 2 \/ j = 3)
    BY DEF Tensor2, Axis
  <2> HIDE DEF i, j
  <2>2. (IF i <= j THEN <<i, j>> ELSE <<j, i>>) = Slot[SlotOf(i, j)] /\ SlotOf(i, j) \in 1 .. 6
    BY <2>1 DEF SlotOf, Slot
  <2>3. (i # j <=> IsShear(SlotOf(i, j))) /\ ((i = 3 /\ j = 3) <=> SlotOf(i, j) = 3)
    BY <2>1 DEF SlotOf, IsShear
  <2>4. Sorted(p) = IF i <= j THEN <<i, j>> ELSE <<j, i>>
    BY <2>1 DEF Sorted, i, j
  <2> QED
    BY <2>1, <2>2, <2>3, <2>4 DEF i, j
<1> QED
  BY <1>1, <1>2

\* The strain the material sees is the one the host has.
LEMMA StrainAsMeant ==
  ASSUME NEW f \in AbaqusFamily, NEW host \in [1 .. HostWidth(f) -> Int], NEW out \in Int,
         out = 0 \/ f = "plane_stress"
  PROVE  /\ StrainFromBuffer(WidenVector(host, f, out)) = StrainOf(host, f, out)
         /\ StrainOf(host, f, out) \in [Tensor2 -> Int]
<1> DEFINE map == SlotMap(f)  C == HostComponents(f)  B == WidenVector(host, f, out)
           has(k) == \E n \in DOMAIN map : map[n] = k
           at(k) == CHOOSE n \in DOMAIN map : map[n] = k
           index(p) == CHOOSE n \in DOMAIN C : C[n] = Sorted(p)
<1>1. /\ DOMAIN map = 1 .. HostWidth(f) /\ HostWidth(f) \in 1 .. 6 /\ DOMAIN C = 1 .. HostWidth(f)
      /\ \A n \in 1 .. HostWidth(f) : map[n] \in 1 .. 6 /\ C[n] = Slot[map[n]]
      /\ \A m, n \in 1 .. HostWidth(f) : map[m] = map[n] => m = n
  BY SlotMapFacts
<1>2. f = "plane_stress" => ~has(3)
  BY DEF SlotMap
<1>3. has(3) \/ f = "plane_stress"
  <2>1. ASSUME f = "solid3d" \/ f = "plane_strain" PROVE has(3)
    <3>1. 3 \in DOMAIN map /\ map[3] = 3
      BY <2>1 DEF SlotMap
    <3> QED
      BY <3>1
  <2> QED
    BY <2>1 DEF AbaqusFamily
<1>4. \A k \in 1 .. 6 : B[k] = IF f = "plane_stress" /\ k = 3 THEN out
                              ELSE IF has(k) THEN host[at(k)] ELSE 0
  BY DEF WidenVector
<1> HIDE DEF map, C, B
<1>5. ASSUME NEW p \in Tensor2
      PROVE  /\ (IF IsShear(SlotOf(p[1], p[2])) THEN B[SlotOf(p[1], p[2])] \div 2 ELSE B[SlotOf(p[1], p[2])])
                  = (IF \E n \in DOMAIN C : C[n] = Sorted(p)
                     THEN IF p[1] # p[2] /\ f # "calculix" THEN host[index(p)] \div 2 ELSE host[index(p)]
                     ELSE IF p = <<3, 3>> THEN out ELSE 0)
             /\ (IF IsShear(SlotOf(p[1], p[2])) THEN B[SlotOf(p[1], p[2])] \div 2 ELSE B[SlotOf(p[1], p[2])]) \in Int
  <2> DEFINE k == SlotOf(p[1], p[2])
  <2>1. k \in 1 .. 6 /\ Sorted(p) = Slot[k] /\ (p[1] # p[2] <=> IsShear(k)) /\ (p = <<3, 3>> <=> k = 3) /\ f # "calculix"
    BY SlotsOfAxes DEF AbaqusFamily
  <2> HIDE DEF k
  <2>2. \A n \in 1 .. HostWidth(f) : C[n] = Slot[k] <=> map[n] = k
    BY <1>1, <2>1, SlotsOfAxes
  <2>3. CASE has(k)
    <3>1. PICK n \in 1 .. HostWidth(f) : map[n] = k
      BY <1>1, <2>3
    <3>2. at(k) = n
      BY <1>1, <3>1
    <3>3. index(p) = n
      BY <1>1, <2>1, <2>2, <3>1
    <3>4. \E m \in DOMAIN C : C[m] = Sorted(p)
      BY <1>1, <2>1, <2>2, <3>1
    <3>5. B[k] = host[n] /\ host[n] \in Int
      BY <1>2, <1>4, <2>1, <2>3, <3>1, <3>2
    <3> HIDE DEF index
    <3>6. (IF IsShear(k) THEN B[k] \div 2 ELSE B[k]) \in Int
      BY <3>5
    <3> QED
      BY <2>1, <3>3, <3>4, <3>5, <3>6 DEF k
  <2>4. CASE ~has(k)
    <3>1. ~ \E m \in DOMAIN C : C[m] = Sorted(p)
      BY <1>1, <2>1, <2>2, <2>4
    <3>2. B[k] = IF k = 3 THEN out ELSE 0
      BY <1>3, <1>4, <2>1, <2>4
    <3>3. ~IsShear(3) /\ 0 \div 2 = 0
      BY DEF IsShear
    <3>4. (IF IsShear(k) THEN B[k] \div 2 ELSE B[k]) = IF k = 3 THEN out ELSE 0
      BY <3>2, <3>3
    <3> HIDE DEF index
    <3> QED
      BY <2>1, <3>1, <3>4 DEF k
  <2> QED
    BY <2>3, <2>4
<1>6. StrainFromBuffer(B)
        = [p \in Tensor2 |-> IF IsShear(SlotOf(p[1], p[2])) THEN B[SlotOf(p[1], p[2])] \div 2 ELSE B[SlotOf(p[1], p[2])]]
  BY DEF StrainFromBuffer
<1>7. StrainOf(host, f, out)
        = [p \in Tensor2 |-> IF \E n \in DOMAIN C : C[n] = Sorted(p)
                     THEN IF p[1] # p[2] /\ f # "calculix" THEN host[index(p)] \div 2 ELSE host[index(p)]
                     ELSE IF p = <<3, 3>> THEN out ELSE 0]
  BY DEF StrainOf, C
<1> HIDE DEF index
<1>8. StrainFromBuffer(B) = StrainOf(host, f, out)
  BY <1>5, <1>6, <1>7
<1>9. StrainFromBuffer(B) \in [Tensor2 -> Int]
  BY <1>5, <1>6
<1> QED
  BY <1>8, <1>9 DEF B

\* CalculiX passes tensor components, which are made engineering ones and back.
LEMMA CalculixStrain ==
  ASSUME NEW emec \in [1 .. 6 -> Int]
  PROVE  /\ ToEngineering(emec) \in [1 .. 6 -> Int]
         /\ StrainFromBuffer(WidenVector(ToEngineering(emec), "solid3d", 0)) = StrainOf(emec, "calculix", 0)
         /\ StrainOf(emec, "calculix", 0) \in [Tensor2 -> Int]
<1> DEFINE host == ToEngineering(emec)  C == HostComponents("solid3d")
           index(p) == CHOOSE n \in DOMAIN C : C[n] = Sorted(p)
<1>1. host \in [1 .. 6 -> Int] /\ \A k \in 1 .. 6 : host[k] = IF IsShear(k) THEN 2 * emec[k] ELSE emec[k]
  BY DEF ToEngineering
<1>2. "solid3d" \in AbaqusFamily /\ HostWidth("solid3d") = 6 /\ HostComponents("calculix") = C
      /\ C = Slot /\ DOMAIN C = 1 .. 6
  BY DEF AbaqusFamily, HostComponents, HostWidth, Slot
<1> HIDE DEF host
<1>3. /\ StrainFromBuffer(WidenVector(host, "solid3d", 0)) = StrainOf(host, "solid3d", 0)
      /\ StrainOf(host, "solid3d", 0) \in [Tensor2 -> Int]
  <2>1. host \in [1 .. HostWidth("solid3d") -> Int] /\ "solid3d" \in AbaqusFamily /\ 0 \in Int
    BY <1>1, <1>2
  <2> QED
    BY <2>1, StrainAsMeant
<1>4. StrainOf(host, "solid3d", 0)
        = [p \in Tensor2 |-> IF \E n \in DOMAIN C : C[n] = Sorted(p)
                             THEN IF p[1] # p[2] /\ "solid3d" # "calculix" THEN host[index(p)] \div 2 ELSE host[index(p)]
                             ELSE IF p = <<3, 3>> THEN 0 ELSE 0]
  BY DEF StrainOf
<1>5. StrainOf(emec, "calculix", 0)
        = [p \in Tensor2 |-> IF \E n \in DOMAIN C : C[n] = Sorted(p)
                             THEN IF p[1] # p[2] /\ "calculix" # "calculix" THEN emec[index(p)] \div 2 ELSE emec[index(p)]
                             ELSE IF p = <<3, 3>> THEN 0 ELSE 0]
  BY <1>2 DEF StrainOf
<1> HIDE DEF C
<1>6. ASSUME NEW p \in Tensor2
      PROVE  /\ \E n \in DOMAIN C : C[n] = Sorted(p)
             /\ (IF p[1] # p[2] THEN host[index(p)] \div 2 ELSE host[index(p)]) = emec[index(p)]
  <2> DEFINE k == SlotOf(p[1], p[2])
  <2>1. k \in 1 .. 6 /\ Sorted(p) = Slot[k] /\ (p[1] # p[2] <=> IsShear(k))
    BY SlotsOfAxes
  <2> HIDE DEF k
  <2>2. \A n \in 1 .. 6 : Slot[n] = Slot[k] => n = k
    BY <2>1, SlotsOfAxes
  <2>3. index(p) = k
    BY <1>2, <2>1, <2>2
  <2> HIDE DEF index
  <2>4. emec[k] \in Int /\ (2 * emec[k]) \div 2 = emec[k]
    BY <2>1
  <2>5. (IF IsShear(k) THEN host[k] \div 2 ELSE host[k]) = emec[k]
    BY <1>1, <2>1, <2>4
  <2> QED
    BY <1>2, <2>1, <2>3, <2>5
<1> HIDE DEF index
<1>7. StrainOf(host, "solid3d", 0) = StrainOf(emec, "calculix", 0)
  BY <1>4, <1>5, <1>6
<1> QED
  BY <1>1, <1>3, <1>7 DEF host

\* The stresses of a host are the components it has.
LEMMA StressAsMeant ==
  ASSUME NEW f \in AbaqusFamily, NEW sigma
  PROVE  /\ DOMAIN NarrowVector(StressToBuffer(sigma), f) = 1 .. HostWidth(f)
         /\ \A n \in 1 .. HostWidth(f) :
              NarrowVector(StressToBuffer(sigma), f)[n] = sigma[HostComponents(f)[n]]
<1>1. /\ DOMAIN SlotMap(f) = 1 .. HostWidth(f)
      /\ \A n \in 1 .. HostWidth(f) : SlotMap(f)[n] \in 1 .. 6 /\ HostComponents(f)[n] = Slot[SlotMap(f)[n]]
  BY SlotMapFacts
<1>2. \A k \in 1 .. 6 : StressToBuffer(sigma)[k] = sigma[Slot[k]]
  BY DEF StressToBuffer
<1> QED
  BY <1>1, <1>2 DEF NarrowVector

-----------------------------------------------------------------------------
(***************************************************************************)
(* The matrix of a host.                                                   *)
(***************************************************************************)
\* The stress that twice a strain of one component causes.
UnitStrain(k) == [p \in Tensor2 |-> IF Sorted(p) # Slot[k] THEN 0 ELSE IF IsShear(k) THEN 1 ELSE 2]

ContractTerm(C, e, p, r, s) == C[<<p[1], p[2], r, s>>] * e[<<r, s>>]

\* A contraction, written out.
LEMMA ContractTerms ==
  ASSUME NEW C, NEW e, NEW p \in Tensor2
  PROVE  Contract(C, e)[p] =
           (ContractTerm(C, e, p, 1, 1) + ContractTerm(C, e, p, 1, 2) + ContractTerm(C, e, p, 1, 3))
           + (ContractTerm(C, e, p, 2, 1) + ContractTerm(C, e, p, 2, 2) + ContractTerm(C, e, p, 2, 3))
           + (ContractTerm(C, e, p, 3, 1) + ContractTerm(C, e, p, 3, 2) + ContractTerm(C, e, p, 3, 3))
<1> DEFINE term(r, s) == ContractTerm(C, e, p, r, s)
<1>1. Contract(C, e)[p] = SumOver([r \in Axis |-> SumOver([s \in Axis |-> term(r, s)])])
  BY DEF Contract, ContractTerm
<1>2. ASSUME NEW r PROVE SumOver([s \in Axis |-> term(r, s)]) = term(r, 1) + term(r, 2) + term(r, 3)
  <2> HIDE DEF term
  <2> QED
    BY DEF SumOver, Axis
<1> DEFINE row(r) == SumOver([s \in Axis |-> term(r, s)])
<1>3. SumOver([r \in Axis |-> row(r)]) = row(1) + row(2) + row(3)
  <2> HIDE DEF row
  <2> QED
    BY DEF SumOver, Axis
<1>4. row(1) = term(1, 1) + term(1, 2) + term(1, 3) /\ row(2) = term(2, 1) + term(2, 2) + term(2, 3)
      /\ row(3) = term(3, 1) + term(3, 2) + term(3, 3)
  BY <1>2
<1> HIDE DEF row, term
<1>5. Contract(C, e)[p] = (term(1, 1) + term(1, 2) + term(1, 3)) + (term(2, 1) + term(2, 2) + term(2, 3))
                          + (term(3, 1) + term(3, 2) + term(3, 3))
  BY <1>1, <1>3, <1>4 DEF row
<1> QED
  BY <1>5 DEF term

\* A material that is linear answers a unit strain with a column of its stiffness.
LEMMA UnitResponse ==
  ASSUME NEW d, d.stiffness \in [1 .. 36 -> Int], NEW k \in 1 .. 6, NEW m \in 1 .. 6
  PROVE  Contract(Stiffness(d), UnitStrain(k))[Slot[m]] = 2 * At(d.stiffness, m, k)
<1> DEFINE C == Stiffness(d)  e == UnitStrain(k)  A == At(d.stiffness, m, k)  p == Slot[m]
           t(r, s) == ContractTerm(C, e, p, r, s)
<1>1. p \in Tensor2 /\ SlotOf(p[1], p[2]) = m /\ A \in Int
  BY SlotsOfAxes, StiffnessTyped
<1>2. \A r, s \in Axis : e[<<r, s>>] = IF Sorted(<<r, s>>) # Slot[k] THEN 0 ELSE IF IsShear(k) THEN 1 ELSE 2
  BY DEF UnitStrain, Tensor2
<1>3. ASSUME NEW r \in Axis, NEW s \in Axis
      PROVE  /\ C[<<p[1], p[2], r, s>>] \in Int
             /\ SlotOf(r, s) = k => C[<<p[1], p[2], r, s>>] = A
             /\ Sorted(<<r, s>>) = Slot[k] <=> SlotOf(r, s) = k
  <2> DEFINE q == <<p[1], p[2], r, s>>
  <2>1. q \in Tensor4 /\ q[1] = p[1] /\ q[2] = p[2] /\ q[3] = r /\ q[4] = s
    BY <1>1 DEF Tensor4, Tensor2
  <2>2. C[q] = At(d.stiffness, SlotOf(q[1], q[2]), SlotOf(q[3], q[4])) /\ C[q] \in Int
    BY <2>1, StiffnessTyped
  <2>3. C[q] = At(d.stiffness, m, SlotOf(r, s))
    BY <1>1, <2>1, <2>2
  <2>4. <<r, s>> \in Tensor2 /\ <<r, s>>[1] = r /\ <<r, s>>[2] = s
    BY DEF Tensor2
  <2>5. Sorted(<<r, s>>) = Slot[SlotOf(r, s)] /\ SlotOf(r, s) \in 1 .. 6
    BY <2>4, SlotsOfAxes
  <2>6. Slot[SlotOf(r, s)] = Slot[k] => SlotOf(r, s) = k
    BY <2>5, SlotsOfAxes
  <2> QED
    BY <2>2, <2>3, <2>5, <2>6
<1>4. Contract(C, e)[p] = (t(1, 1) + t(1, 2) + t(1, 3)) + (t(2, 1) + t(2, 2) + t(2, 3))
                          + (t(3, 1) + t(3, 2) + t(3, 3))
  <2>1. p \in Tensor2
    BY <1>1
  <2> HIDE DEF p, C, e
  <2> QED
    BY <2>1, ContractTerms
<1>5. ASSUME NEW r \in Axis, NEW s \in Axis
      PROVE  t(r, s) = IF SlotOf(r, s) # k THEN 0 ELSE IF IsShear(k) THEN A ELSE 2 * A
  <2> DEFINE x == C[<<p[1], p[2], r, s>>]  y == e[<<r, s>>]
  <2>1. x \in Int /\ (SlotOf(r, s) = k => x = A)
    BY <1>3
  <2>2. y = IF SlotOf(r, s) # k THEN 0 ELSE IF IsShear(k) THEN 1 ELSE 2
    BY <1>2, <1>3
  <2>4. t(r, s) = x * y
    BY DEF ContractTerm
  <2> HIDE DEF x, y, A
  <2>3. x * y = IF SlotOf(r, s) # k THEN 0 ELSE IF IsShear(k) THEN A ELSE 2 * A
    BY <1>1, <2>1, <2>2
  <2> QED
    BY <2>3, <2>4
<1> HIDE DEF t, A, C, e, p
<1>6. /\ SlotOf(1, 1) = 1 /\ SlotOf(2, 2) = 2 /\ SlotOf(3, 3) = 3
      /\ SlotOf(1, 2) = 4 /\ SlotOf(2, 1) = 4 /\ SlotOf(1, 3) = 5 /\ SlotOf(3, 1) = 5
      /\ SlotOf(2, 3) = 6 /\ SlotOf(3, 2) = 6
  BY DEF SlotOf
<1>7. Contract(C, e)[p] = 2 * A
  <2>1. /\ t(1, 1) = IF 1 # k THEN 0 ELSE IF IsShear(k) THEN A ELSE 2 * A
        /\ t(2, 2) = IF 2 # k THEN 0 ELSE IF IsShear(k) THEN A ELSE 2 * A
        /\ t(3, 3) = IF 3 # k THEN 0 ELSE IF IsShear(k) THEN A ELSE 2 * A
        /\ t(1, 2) = IF 4 # k THEN 0 ELSE IF IsShear(k) THEN A ELSE 2 * A
        /\ t(2, 1) = IF 4 # k THEN 0 ELSE IF IsShear(k) THEN A ELSE 2 * A
        /\ t(1, 3) = IF 5 # k THEN 0 ELSE IF IsShear(k) THEN A ELSE 2 * A
        /\ t(3, 1) = IF 5 # k THEN 0 ELSE IF IsShear(k) THEN A ELSE 2 * A
        /\ t(2, 3) = IF 6 # k THEN 0 ELSE IF IsShear(k) THEN A ELSE 2 * A
        /\ t(3, 2) = IF 6 # k THEN 0 ELSE IF IsShear(k) THEN A ELSE 2 * A
    BY <1>5, <1>6 DEF Axis
  <2>2. k = 1 \/ k = 2 \/ k = 3 \/ k = 4 \/ k = 5 \/ k = 6
    OBVIOUS
  <2>3. A \in Int
    BY <1>1
  <2> QED
    BY <1>4, <2>1, <2>2, <2>3 DEF IsShear
<1> QED
  BY <1>7 DEF A, C, e, p

\* The columns of a matrix of n rows.
LEMMA ColumnMajor ==
  ASSUME NEW n \in Nat \ {0}, NEW a \in 1 .. n, NEW b \in 1 .. n
  PROVE  /\ a + n * (b - 1) \in 1 .. n * n
         /\ ((a + n * (b - 1) - 1) % n) + 1 = a /\ ((a + n * (b - 1) - 1) \div n) + 1 = b
<1> DEFINE x == (b - 1) * n + (a - 1)
<1>1. a + n * (b - 1) - 1 = x /\ x \in Int /\ n * (b - 1) = (b - 1) * n /\ a + n * (b - 1) = x + 1
  OBVIOUS
<1>2. x \div n = b - 1 /\ x % n = a - 1
  <2>1. b - 1 \in Int /\ a - 1 \in 0 .. n - 1 /\ n \in Nat \ {0}
    OBVIOUS
  <2> QED
    BY <2>1, Division
<1>3. x + 1 \in 1 .. n * n
  <2>1. b - 1 \in 0 .. n - 1
    OBVIOUS
  <2>2. (b - 1) * n >= 0 /\ (b - 1) * n <= (n - 1) * n /\ (n - 1) * n + n = n * n
    <3>1. \A i \in Nat : i * n \in Nat
      OBVIOUS
    <3>2. (n - 1) * n = (b - 1) * n + (n - b) * n
      OBVIOUS
    <3>3. b - 1 \in Nat /\ n - b \in Nat
      OBVIOUS
    <3>4. (b - 1) * n \in Nat /\ (n - b) * n \in Nat
      BY <3>1, <3>3
    <3>5. (n - 1) * n + n = n * n
      OBVIOUS
    <3> DEFINE y == (b - 1) * n  z == (n - b) * n  w == (n - 1) * n
    <3> HIDE DEF y, z, w
    <3>6. y >= 0 /\ y <= w
      BY <3>2, <3>4 DEF y, z, w
    <3> QED
      BY <3>5, <3>6 DEF y, w
  <2> DEFINE y == (b - 1) * n  w == n * n
  <2>3. y \in Int /\ w \in Int /\ y >= 0 /\ y + n <= w
    BY <2>2
  <2> HIDE DEF y, w
  <2>4. (y + (a - 1)) + 1 \in 1 .. w
    BY <2>3
  <2> QED
    BY <2>4 DEF y, w
<1> HIDE DEF x
<1>4. (x % n) + 1 = a /\ (x \div n) + 1 = b
  BY <1>2
<1> QED
  BY <1>1, <1>3, <1>4

\* The buffer of a tangent has the stiffness of its slots.
LEMMA BufferOfStiffness ==
  ASSUME NEW d, d.stiffness \in [1 .. 36 -> Int], NEW k \in 1 .. 6, NEW m \in 1 .. 6
  PROVE  /\ At(TangentToBuffer(Stiffness(d)), k, m) = At(d.stiffness, k, m)
         /\ Stiffness(d)[<<Slot[k][1], Slot[k][2], Slot[m][1], Slot[m][2]>>] = At(d.stiffness, k, m)
<1> DEFINE q == <<Slot[k][1], Slot[k][2], Slot[m][1], Slot[m][2]>>
<1>1. /\ Slot[k] \in Tensor2 /\ SlotOf(Slot[k][1], Slot[k][2]) = k
      /\ Slot[m] \in Tensor2 /\ SlotOf(Slot[m][1], Slot[m][2]) = m
  BY SlotsOfAxes
<1>2. q \in Tensor4 /\ q[1] = Slot[k][1] /\ q[2] = Slot[k][2] /\ q[3] = Slot[m][1] /\ q[4] = Slot[m][2]
  BY <1>1 DEF Tensor2, Tensor4
<1>3. Stiffness(d)[q] = At(d.stiffness, k, m)
  <2>1. Stiffness(d)[q] = At(d.stiffness, SlotOf(q[1], q[2]), SlotOf(q[3], q[4]))
    BY <1>2, StiffnessTyped
  <2> QED
    BY <1>1, <1>2, <2>1
<1>4. At(TangentToBuffer(Stiffness(d)), k, m) = Stiffness(d)[q]
  BY TangentSlots DEF Pairs
<1> QED
  BY <1>3, <1>4

\* A strain of one component of the host is a strain of its slot.
LEMMA ProbeIsUnit ==
  ASSUME NEW f \in AbaqusFamily, NEW n \in 1 .. HostWidth(f)
  PROVE  Probe(f, n) = UnitStrain(SlotMap(f)[n])
<1>1. SlotMap(f)[n] \in 1 .. 6 /\ HostComponents(f)[n] = Slot[SlotMap(f)[n]]
  BY SlotMapFacts
<1>2. Slot[SlotMap(f)[n]][1] # Slot[SlotMap(f)[n]][2] <=> IsShear(SlotMap(f)[n])
  BY <1>1, SlotsOfAxes
<1> QED
  BY <1>1, <1>2 DEF Probe, UnitStrain

\* The matrix of a host, column by column.
LEMMA MatrixEntry ==
  ASSUME NEW f \in AbaqusFamily, NEW in, NEW a \in 1 .. HostWidth(f), NEW b \in 1 .. HostWidth(f)
  PROVE  NarrowMatrix(in, f)[a + HostWidth(f) * (b - 1)]
           = At(in, SlotMap(f)[a], SlotMap(f)[b])
             - (IF f = "plane_stress"
                THEN (At(in, SlotMap(f)[a], 3) * At(in, 3, SlotMap(f)[b])) \div At(in, 3, 3) ELSE 0)
<1> DEFINE n == HostWidth(f)  k == a + n * (b - 1)  map == SlotMap(f)
           entry(x, y) == At(in, x, y) - (IF f = "plane_stress"
                                          THEN (At(in, x, 3) * At(in, 3, y)) \div At(in, 3, 3) ELSE 0)
<1>1. n \in 1 .. 6 /\ Len(map) = n
  <2>1. n \in 1 .. 6 /\ DOMAIN map = 1 .. n
    BY SlotMapFacts
  <2>2. Len(map) \in Nat /\ DOMAIN map = 1 .. Len(map)
    <3>1. f = "solid3d" \/ f = "plane_strain" \/ f = "plane_stress"
      BY DEF AbaqusFamily
    <3>2. map \in Seq(Int)
      BY <3>1 DEF SlotMap
    <3> QED
      BY <3>2
  <2> QED
    BY <2>1, <2>2
<1>2. NarrowMatrix(in, f)
        = [m \in 1 .. Len(map) * Len(map) |->
             entry(map[((m - 1) % Len(map)) + 1], map[((m - 1) \div Len(map)) + 1])]
  BY DEF NarrowMatrix
<1>3. n \in Nat \ {0}
  BY <1>1
<1> HIDE DEF entry, map, n
<1>4. /\ k \in 1 .. n * n
      /\ ((k - 1) % n) + 1 = a /\ ((k - 1) \div n) + 1 = b
  <2>1. a \in 1 .. n /\ b \in 1 .. n
    BY DEF n
  <2> QED
    BY <1>3, <2>1, ColumnMajor
<1> HIDE DEF k
<1>5. NarrowMatrix(in, f)[k] = entry(map[a], map[b])
  BY <1>1, <1>2, <1>4
<1> QED
  BY <1>5 DEF entry, map, k, n

\* Where integers are divided the quotient is exact: the row of the strain out of the plane
\* is a multiple of its stiffness.
ExactRow(d) ==
  /\ At(d.stiffness, 3, 3) \in Nat
  /\ At(d.stiffness, 3, 3) > 0 => \A k \in 1 .. 6 : \E m \in Int : At(d.stiffness, 3, k) = m * At(d.stiffness, 3, 3)

\* What a strain out of the plane adds to the stress.
LEMMA AddedStrain ==
  ASSUME NEW d, d.stiffness \in [1 .. 36 -> Int], NEW e \in [Tensor2 -> Int], NEW x \in Int, NEW m \in 1 .. 6
  PROVE  Contract(Stiffness(d), [e EXCEPT ![<<3, 3>>] = x])[Slot[m]]
           = Contract(Stiffness(d), e)[Slot[m]] + At(d.stiffness, m, 3) * (x - e[<<3, 3>>])
<1> DEFINE C == Stiffness(d)  h == [e EXCEPT ![<<3, 3>>] = x]  p == Slot[m]  A == At(d.stiffness, m, 3)
           t(r, s) == ContractTerm(C, e, p, r, s)  u(r, s) == ContractTerm(C, h, p, r, s)
<1>1. p \in Tensor2 /\ Slot[3] = <<3, 3>> /\ <<3, 3>> \in Tensor2 /\ e[<<3, 3>>] \in Int
  BY SlotsOfAxes DEF Slot, Tensor2, Axis
<1>2. C[<<p[1], p[2], 3, 3>>] = A /\ A \in Int
  <2>1. Slot[3][1] = 3 /\ Slot[3][2] = 3 /\ 3 \in 1 .. 6
    BY DEF Slot
  <2>2. Stiffness(d)[<<Slot[m][1], Slot[m][2], Slot[3][1], Slot[3][2]>>] = At(d.stiffness, m, 3)
    BY <2>1, BufferOfStiffness
  <2>3. At(d.stiffness, m, 3) \in Int
    BY <2>1, StiffnessTyped
  <2> QED
    BY <2>1, <2>2, <2>3
<1>3. ASSUME NEW r \in Axis, NEW s \in Axis
      PROVE  t(r, s) \in Int /\ (<<r, s>> # <<3, 3>> => u(r, s) = t(r, s))
  <2>1. C[<<p[1], p[2], r, s>>] \in Int /\ e[<<r, s>>] \in Int /\ <<r, s>> \in Tensor2
    <3>1. <<p[1], p[2], r, s>> \in Tensor4
      BY <1>1 DEF Tensor2, Tensor4
    <3> QED
      BY <3>1, StiffnessTyped DEF Tensor2
  <2>2. t(r, s) \in Int
    BY <2>1, ProductTyped DEF ContractTerm
  <2>3. <<r, s>> # <<3, 3>> => h[<<r, s>>] = e[<<r, s>>]
    BY <2>1
  <2> QED
    BY <2>2, <2>3 DEF ContractTerm
<1>4. u(3, 3) = t(3, 3) + A * (x - e[<<3, 3>>])
  <2> DEFINE y == e[<<3, 3>>]
  <2>1. h[<<3, 3>>] = x
    BY <1>1
  <2>2. u(3, 3) = A * x /\ t(3, 3) = A * y
    BY <1>2, <2>1 DEF ContractTerm
  <2> HIDE DEF y, A
  <2>3. A * x = A * y + A * (x - y)
    BY <1>1, <1>2 DEF y
  <2> QED
    BY <2>2, <2>3 DEF y
<1>5. Contract(C, e)[p] = (t(1, 1) + t(1, 2) + t(1, 3)) + (t(2, 1) + t(2, 2) + t(2, 3))
                          + (t(3, 1) + t(3, 2) + t(3, 3))
  BY <1>1, ContractTerms
<1>6. Contract(C, h)[p] = (u(1, 1) + u(1, 2) + u(1, 3)) + (u(2, 1) + u(2, 2) + u(2, 3))
                          + (u(3, 1) + u(3, 2) + u(3, 3))
  BY <1>1, ContractTerms
<1> DEFINE D == A * (x - e[<<3, 3>>])
<1>7. D \in Int
  BY <1>1, <1>2
<1> HIDE DEF t, u, C, h, p, A, D
<1>8. /\ u(1, 1) = t(1, 1) /\ u(1, 2) = t(1, 2) /\ u(1, 3) = t(1, 3)
      /\ u(2, 1) = t(2, 1) /\ u(2, 2) = t(2, 2) /\ u(2, 3) = t(2, 3)
      /\ u(3, 1) = t(3, 1) /\ u(3, 2) = t(3, 2)
  BY <1>3 DEF Axis
<1>9. \A r, s \in Axis : t(r, s) \in Int
  BY <1>3
<1>10. Contract(C, h)[p] = Contract(C, e)[p] + D
  BY <1>4, <1>5, <1>6, <1>7, <1>8, <1>9 DEF Axis, D
<1> QED
  BY <1>10 DEF C, h, p, A, D

\* A multiple, divided.
LEMMA ExactQuotient ==
  ASSUME NEW c \in Nat \ {0}, NEW m \in Int
  PROVE  (m * c) \div c = m /\ (2 * (m * c)) \div c = 2 * m
<1>1. 0 \in 0 .. c - 1 /\ m * c + 0 = m * c /\ 2 * m \in Int /\ (2 * m) * c + 0 = 2 * (m * c)
  OBVIOUS
<1>2. (m * c + 0) \div c = m
  BY <1>1, Division
<1>3. ((2 * m) * c + 0) \div c = 2 * m
  BY <1>1, Division
<1> QED
  BY <1>1, <1>2, <1>3

\* The matrix of a host of Abaqus gives the stress that a strain of the host causes, in
\* plane stress with the strain out of the plane that leaves none there: for every
\* stiffness, one that is not symmetric among them (narrow_matrix, condensed).
THEOREM MatrixAsMeant ==
  ASSUME NEW d, d.stiffness \in [1 .. 36 -> Int], d.family \in AbaqusFamily,
         d.family = "plane_stress" => ExactRow(d) /\ At(d.stiffness, 3, 3) > 0,
         NEW l
  PROVE  TangentIsOf(d, l, NarrowMatrix(TangentToBuffer(Stiffness(d)), d.family))
<1> DEFINE f == d.family  n == HostWidth(f)  T == NarrowMatrix(TangentToBuffer(Stiffness(d)), f)
           C == Stiffness(d)  A(x, y) == At(d.stiffness, x, y)
           response(b) == Contract(C, Relaxed(d, Probe(f, b)))
<1>1. ASSUME NEW a \in 1 .. n, NEW b \in 1 .. n
      PROVE  2 * T[a + n * (b - 1)] = response(b)[HostComponents(f)[a]]
  <2> DEFINE x == SlotMap(f)[a]  y == SlotMap(f)[b]  e == UnitStrain(y)
  <2>1. x \in 1 .. 6 /\ y \in 1 .. 6 /\ HostComponents(f)[a] = Slot[x] /\ 3 \in 1 .. 6
    <3>1. \A i \in 1 .. n : SlotMap(f)[i] \in 1 .. 6 /\ HostComponents(f)[i] = Slot[SlotMap(f)[i]]
      BY SlotMapFacts
    <3> HIDE DEF n, f
    <3> QED
      BY <3>1
  <2>2. A(x, y) \in Int /\ A(x, 3) \in Int /\ A(3, y) \in Int /\ A(3, 3) \in Int
    BY <2>1, StiffnessTyped
  <2>3. T[a + n * (b - 1)] = A(x, y) - (IF f = "plane_stress" THEN (A(x, 3) * A(3, y)) \div A(3, 3) ELSE 0)
    <3> DEFINE B == TangentToBuffer(C)
    <3>1. At(B, x, y) = A(x, y) /\ At(B, x, 3) = A(x, 3) /\ At(B, 3, y) = A(3, y) /\ At(B, 3, 3) = A(3, 3)
      BY <2>1, BufferOfStiffness
    <3>2. T[a + n * (b - 1)] = At(B, x, y) - (IF f = "plane_stress" THEN (At(B, x, 3) * At(B, 3, y)) \div At(B, 3, 3) ELSE 0)
      BY MatrixEntry
    <3> HIDE DEF B, x, y, T
    <3> QED
      BY <3>1, <3>2
  <2>4. Probe(f, b) = e
    BY ProbeIsUnit
  <2>5. Contract(C, e)[Slot[x]] = 2 * A(x, y) /\ Contract(C, e)[Slot[3]] = 2 * A(3, y)
    BY <2>1, UnitResponse
  <2>6. CASE f # "plane_stress"
    <3>1. Relaxed(d, e) = e
      BY <2>6 DEF Relaxed
    <3>2. T[a + n * (b - 1)] = A(x, y)
      <4> HIDE DEF T, A, x, y
      <4> QED
        BY <2>2, <2>3, <2>6
    <3>3. response(b)[HostComponents(f)[a]] = Contract(C, e)[Slot[x]]
      BY <2>1, <2>4, <3>1
    <3> HIDE DEF T, response, x, y, e, A
    <3> QED
      BY <2>5, <3>2, <3>3
  <2>7. CASE f = "plane_stress"
    <3>1. PICK m \in Int : A(3, y) = m * A(3, 3)
      BY <2>1, <2>7 DEF ExactRow
    <3>2. A(3, 3) \in Nat \ {0}
      BY <2>7 DEF ExactRow
    <3>3. e \in [Tensor2 -> Int] /\ e[<<3, 3>>] = 0 /\ Slot[3] = <<3, 3>>
      <4>1. y # 3
        <5>1. SlotMap(f) = <<1, 2, 4>>
          BY <2>7 DEF SlotMap
        <5>2. DOMAIN SlotMap(f) = 1 .. n
          BY SlotMapFacts
        <5>3. b \in DOMAIN SlotMap(f)
          BY <5>2
        <5> QED
          BY <5>1, <5>3
      <4>2. Slot[3] = <<3, 3>> /\ <<3, 3>> \in Tensor2 /\ Sorted(<<3, 3>>) = <<3, 3>>
        BY DEF Slot, Tensor2, Axis, Sorted
      <4>3. Slot[y] # <<3, 3>>
        BY <2>1, <4>1, SlotsOfAxes
      <4> HIDE DEF y
      <4>4. e \in [Tensor2 -> Int] /\ e[<<3, 3>>] = 0
        BY <4>2, <4>3 DEF UnitStrain
      <4> QED
        BY <4>2, <4>4
    <3>4. C[<<3, 3, 3, 3>>] = A(3, 3)
      <4>1. Slot[3][1] = 3 /\ Slot[3][2] = 3
        BY <3>3
      <4>2. C[<<Slot[3][1], Slot[3][2], Slot[3][1], Slot[3][2]>>] = A(3, 3)
        BY <2>1, BufferOfStiffness
      <4> QED
        BY <4>1, <4>2
    <3>5. Contract(C, e)[<<3, 3>>] \div C[<<3, 3, 3, 3>>] = 2 * m
      <4>1. Contract(C, e)[<<3, 3>>] = 2 * (m * A(3, 3))
        BY <2>5, <3>1, <3>3
      <4>2. (2 * (m * A(3, 3))) \div A(3, 3) = 2 * m
        BY <3>2, ExactQuotient
      <4> HIDE DEF C, e, A
      <4> QED
        BY <3>4, <4>1, <4>2
    <3>6. Relaxed(d, e) = [e EXCEPT ![<<3, 3>>] = e[<<3, 3>>] - 2 * m]
      <4>1. <<3, 3>> \in DOMAIN e
        BY <3>3 DEF Tensor2, Axis
      <4>2. Relaxed(d, e) = [e EXCEPT ![<<3, 3>>] = @ - (Contract(C, e)[<<3, 3>>] \div C[<<3, 3, 3, 3>>])]
        BY <2>7 DEF Relaxed
      <4> HIDE DEF C, e
      <4> QED
        BY <3>5, <4>1, <4>2
    <3>7. 0 - 2 * m \in Int /\ e[<<3, 3>>] - 2 * m = 0 - 2 * m
      BY <3>3
    <3>8. Contract(C, Relaxed(d, e))[Slot[x]] = 2 * A(x, y) + A(x, 3) * ((0 - 2 * m) - 0)
      <4>1. Contract(C, [e EXCEPT ![<<3, 3>>] = 0 - 2 * m])[Slot[x]]
              = Contract(C, e)[Slot[x]] + A(x, 3) * ((0 - 2 * m) - e[<<3, 3>>])
        BY <2>1, <3>3, <3>7, AddedStrain
      <4> HIDE DEF C, e, A, x, y
      <4> QED
        BY <2>5, <3>3, <3>6, <3>7, <4>1
    <3>9. (A(x, 3) * A(3, y)) \div A(3, 3) = A(x, 3) * m
      <4> DEFINE p == A(x, 3)  c == A(3, 3)
      <4>1. p \in Int /\ c \in Nat \ {0} /\ p * m \in Int
        BY <2>2, <3>2
      <4> HIDE DEF p, c
      <4>2. p * (m * c) = (p * m) * c
        BY <4>1
      <4>3. ((p * m) * c) \div c = p * m
        BY <4>1, ExactQuotient
      <4>4. (p * (m * c)) \div c = p * m
        BY <4>2, <4>3
      <4> QED
        BY <3>1, <4>4 DEF p, c
    <3>10. T[a + n * (b - 1)] = A(x, y) - A(x, 3) * m
      <4> HIDE DEF T, A, x, y
      <4> QED
        BY <2>3, <2>7, <3>9
    <3>11. response(b)[HostComponents(f)[a]] = Contract(C, Relaxed(d, e))[Slot[x]]
      BY <2>1, <2>4
    <3> DEFINE u == A(x, y)  v == A(x, 3)
    <3>12. 2 * (u - v * m) = 2 * u + v * ((0 - 2 * m) - 0)
      <4>1. u \in Int /\ v \in Int
        BY <2>2
      <4> HIDE DEF u, v
      <4> QED
        BY <4>1
    <3> HIDE DEF T, response, x, y, e, A, C
    <3> QED
      BY <3>8, <3>10, <3>11, <3>12 DEF u, v
  <2> QED
    BY <2>6, <2>7
<1>2. d.family # "calculix" /\ Len(HostComponents(d.family)) = n
  BY DEF AbaqusFamily, HostWidth
<1> HIDE DEF T, response, C
<1>3. TangentIsOf(d, l, T) <=> \A a, b \in 1 .. n : 2 * T[a + n * (b - 1)] = response(b)[HostComponents(f)[a]]
  BY <1>2 DEF TangentIsOf, response, C
<1>4. TangentIsOf(d, l, T)
  BY <1>1, <1>3
<1> QED
  BY <1>4 DEF T, C

\* The columns of a triangle.
Triangle(j) == (j * (j + 1)) \div 2

\* The sizes of triangles.
LEMMA TriangleFacts ==
  /\ Triangle(0) = 0 /\ Triangle(1) = 1 /\ Triangle(2) = 3 /\ Triangle(3) = 6
  /\ Triangle(4) = 10 /\ Triangle(5) = 15 /\ Triangle(6) = 21
  /\ \A j \in 1 .. 6 : (j * (j - 1)) \div 2 = Triangle(j - 1)
  /\ \A j \in 0 .. 5 : ((j + 1) * (j + 2)) \div 2 = Triangle(j + 1)
<1>1. /\ Triangle(0) = 0 /\ Triangle(1) = 1 /\ Triangle(2) = 3 /\ Triangle(3) = 6
      /\ Triangle(4) = 10 /\ Triangle(5) = 15 /\ Triangle(6) = 21
  BY DEF Triangle
<1>2. ASSUME NEW j \in 1 .. 6 PROVE (j * (j - 1)) \div 2 = Triangle(j - 1)
  <2>1. j * (j - 1) = (j - 1) * ((j - 1) + 1)
    OBVIOUS
  <2> QED
    BY <2>1 DEF Triangle
<1>3. ASSUME NEW j \in 0 .. 5 PROVE ((j + 1) * (j + 2)) \div 2 = Triangle(j + 1)
  <2>1. (j + 1) * (j + 2) = (j + 1) * ((j + 1) + 1)
    OBVIOUS
  <2> QED
    BY <2>1 DEF Triangle
<1> QED
  BY <1>1, <1>2, <1>3

\* Where the columns of a triangle end.
LEMMA ColumnOfTriangle ==
  ASSUME NEW j \in 1 .. 6, NEW i \in 1 .. j
  PROVE  /\ i + Triangle(j - 1) \in 1 .. 21
         /\ \A c \in 0 .. 5 : (Triangle(c) < i + Triangle(j - 1) /\ i + Triangle(j - 1) <= Triangle(c + 1)) <=> c = j - 1
<1> DEFINE T(c) == Triangle(c)
<1> HIDE DEF T
<1>1. T(0) = 0 /\ T(1) = 1 /\ T(2) = 3 /\ T(3) = 6 /\ T(4) = 10 /\ T(5) = 15 /\ T(6) = 21
  BY TriangleFacts DEF T
<1>2. j = 1 \/ j = 2 \/ j = 3 \/ j = 4 \/ j = 5 \/ j = 6
  OBVIOUS
<1> DEFINE n == i + T(j - 1)
<1>3. n \in 1 .. 21 /\ T(j - 1) < n /\ n <= T(j) /\ n \in Int
  BY <1>1, <1>2
<1>4. ASSUME NEW c \in 0 .. 5 PROVE (T(c) < n /\ n <= T(c + 1)) <=> c = j - 1
  <2>1. c = 0 \/ c = 1 \/ c = 2 \/ c = 3 \/ c = 4 \/ c = 5
    OBVIOUS
  <2>2. ASSUME c = j - 1 PROVE T(c) < n /\ n <= T(c + 1)
    <3>1. (j - 1) + 1 = j
      OBVIOUS
    <3> QED
      BY <1>3, <2>2, <3>1
  <2>3. ASSUME T(c) < n, n <= T(c + 1) PROVE c = j - 1
    <3> HIDE DEF n
    <3> QED
      BY <1>1, <1>2, <1>3, <2>1, <2>3
  <2> QED
    BY <2>2, <2>3
<1> QED
  BY <1>3, <1>4 DEF T

InTriangle(i, j) == i + (j * (j - 1)) \div 2
InSquare(i, j) == i + 6 * (j - 1)

\* An entry of the packed triangle is a sum of two of the square.
LEMMA TriangleEntry ==
  ASSUME NEW M, NEW j \in 1 .. 6, NEW i \in 1 .. j
  PROVE  PackedStiffness(M)[InTriangle(i, j)] = M[InSquare(i, j)] + M[InSquare(j, i)]
<1> DEFINE n == i + Triangle(j - 1)
           column(m) == CHOOSE c \in 0 .. 5 : (c * (c + 1)) \div 2 < m /\ m <= ((c + 1) * (c + 2)) \div 2
           row(m) == m - 1 - ((column(m) * (column(m) + 1)) \div 2)
<1>1. n = InTriangle(i, j) /\ Triangle(j - 1) \in Int
  <2>1. j - 1 \in 0 .. 5
    OBVIOUS
  <2>2. j - 1 = 0 \/ j - 1 = 1 \/ j - 1 = 2 \/ j - 1 = 3 \/ j - 1 = 4 \/ j - 1 = 5
    OBVIOUS
  <2>3. Triangle(j - 1) \in Int
    BY <2>2, TriangleFacts
  <2> QED
    BY <2>3, TriangleFacts DEF InTriangle
<1>2. n \in 1 .. 21
  BY ColumnOfTriangle
<1>3. column(n) = j - 1
  <2>1. \A c \in 0 .. 5 : (c * (c + 1)) \div 2 = Triangle(c) /\ ((c + 1) * (c + 2)) \div 2 = Triangle(c + 1)
    BY TriangleFacts DEF Triangle
  <2>2. \A c \in 0 .. 5 : (Triangle(c) < n /\ n <= Triangle(c + 1)) <=> c = j - 1
    BY ColumnOfTriangle
  <2>3. j - 1 \in 0 .. 5
    OBVIOUS
  <2> HIDE DEF n
  <2>4. \A c \in 0 .. 5 : ((c * (c + 1)) \div 2 < n /\ n <= ((c + 1) * (c + 2)) \div 2) <=> c = j - 1
    BY <2>1, <2>2
  <2> QED
    BY <2>3, <2>4
<1>4. PackedStiffness(M)
        = [m \in 1 .. 21 |-> M[row(m) + column(m) * 6 + 1] + M[column(m) + row(m) * 6 + 1]]
  BY DEF PackedStiffness
<1>5. row(n) = i - 1
  <2>1. row(n) = n - 1 - Triangle(j - 1)
    BY <1>3 DEF Triangle
  <2> HIDE DEF row, column
  <2> QED
    BY <1>1, <2>1
<1> HIDE DEF column, row, n
<1>6. PackedStiffness(M)[n] = M[(i - 1) + (j - 1) * 6 + 1] + M[(j - 1) + (i - 1) * 6 + 1]
  BY <1>2, <1>3, <1>4, <1>5
<1>7. (i - 1) + (j - 1) * 6 + 1 = InSquare(i, j) /\ (j - 1) + (i - 1) * 6 + 1 = InSquare(j, i)
  BY DEF InSquare
<1> DEFINE x == (i - 1) + (j - 1) * 6 + 1  y == (j - 1) + (i - 1) * 6 + 1
<1>8. PackedStiffness(M)[n] = M[x] + M[y] /\ x = InSquare(i, j) /\ y = InSquare(j, i)
  BY <1>6, <1>7
<1> HIDE DEF x, y
<1> QED
  BY <1>1, <1>8

\* The packed stiffness of CalculiX is the symmetric part of what its strains cause, for every
\* stiffness (calculix_dispatch).
THEOREM PackedAsMeant ==
  ASSUME NEW d, d.stiffness \in [1 .. 36 -> Int], d.family = "calculix", NEW l
  PROVE  TangentIsOf(d, l, PackedStiffness(NarrowMatrix(TangentToBuffer(Stiffness(d)), "solid3d")))
<1> DEFINE f == "solid3d"  M == NarrowMatrix(TangentToBuffer(Stiffness(d)), f)  T == PackedStiffness(M)
           C == Stiffness(d)  A(x, y) == At(d.stiffness, x, y)  c == HostComponents(d.family)
           response(b) == Contract(C, Relaxed(d, Probe(d.family, b)))
<1>1. f \in AbaqusFamily /\ HostWidth(f) = 6 /\ c = Slot /\ Len(c) = 6 /\ HostComponents(f) = Slot
  BY DEF AbaqusFamily, HostWidth, HostComponents, Slot
<1>2. SlotMap(f) = <<1, 2, 3, 4, 5, 6>>
  BY DEF SlotMap
<1>3. \A k \in 1 .. 6 : SlotMap(f)[k] = k
  BY <1>2
<1>4. \A a, b \in 1 .. 6 : A(a, b) \in Int
  BY StiffnessTyped
<1>5. ASSUME NEW a \in 1 .. 6, NEW b \in 1 .. 6 PROVE M[InSquare(a, b)] = A(a, b)
  <2> DEFINE B == TangentToBuffer(C)
  <2>1. At(B, a, b) = A(a, b)
    BY BufferOfStiffness
  <2>2. M[a + HostWidth(f) * (b - 1)] = At(B, SlotMap(f)[a], SlotMap(f)[b]) - 0
    <3>1. a \in 1 .. HostWidth(f) /\ b \in 1 .. HostWidth(f) /\ f # "plane_stress"
      BY <1>1
    <3> QED
      BY <1>1, <3>1, MatrixEntry
  <2>3. a + HostWidth(f) * (b - 1) = InSquare(a, b)
    BY <1>1 DEF InSquare
  <2> HIDE DEF B, M, A
  <2> QED
    BY <1>3, <1>4, <2>1, <2>2, <2>3
<1>6. ASSUME NEW a \in 1 .. 6, NEW b \in 1 .. 6 PROVE response(b)[c[a]] = 2 * A(a, b)
  <2>1. Probe(d.family, b) = UnitStrain(b)
    <3>1. Slot[b][1] # Slot[b][2] <=> IsShear(b)
      BY SlotsOfAxes
    <3> QED
      BY <1>1, <3>1 DEF Probe, UnitStrain
  <2>2. Relaxed(d, UnitStrain(b)) = UnitStrain(b)
    BY DEF Relaxed
  <2>3. Contract(C, UnitStrain(b))[Slot[a]] = 2 * A(a, b)
    BY UnitResponse
  <2> QED
    BY <1>1, <2>1, <2>2, <2>3
<1>7. ASSUME NEW j \in 1 .. 6, NEW i \in 1 .. j
      PROVE  2 * T[InTriangle(i, j)] = response(j)[c[i]] + response(i)[c[j]]
  <2>1. i \in 1 .. 6
    OBVIOUS
  <2>2. T[InTriangle(i, j)] = M[InSquare(i, j)] + M[InSquare(j, i)]
    <3> HIDE DEF M
    <3> QED
      BY TriangleEntry
  <2>3. M[InSquare(i, j)] = A(i, j) /\ M[InSquare(j, i)] = A(j, i)
    BY <1>5, <2>1
  <2>4. response(j)[c[i]] = 2 * A(i, j) /\ response(i)[c[j]] = 2 * A(j, i)
    BY <1>6, <2>1
  <2>5. A(i, j) \in Int /\ A(j, i) \in Int
    BY <1>4, <2>1
  <2> HIDE DEF T, M, A, response, c
  <2> QED
    BY <2>2, <2>3, <2>4, <2>5
<1> HIDE DEF T, response, c, C
<1>8. TangentIsOf(d, l, T) <=> (l.stressOnly \/ \A j \in 1 .. 6 : \A i \in 1 .. j :
                                 2 * T[InTriangle(i, j)] = response(j)[c[i]] + response(i)[c[j]])
  BY DEF TangentIsOf, response, C, c, InTriangle
<1>9. TangentIsOf(d, l, T)
  BY <1>7, <1>8
<1> QED
  BY <1>9 DEF T, C

-----------------------------------------------------------------------------
(***************************************************************************)
(* A call: what it reads.                                                  *)
(***************************************************************************)
\* The ids of the properties a deck keeps in STATEV.
HostedIds(d) == {h.id : h \in Hosted(d)}

\* The decks of the lemmas below.
IsArrays(d) == ArrayParameters(d) /\ MapConstructs(d)

\* A property the map has has a kind it can store.
LEMMA HostedKinds ==
  ASSUME NEW d, IsArrays(d)
  PROVE  \A id \in HostedIds(d) : KindOf(d, id) \in StateKind
<1> SUFFICES ASSUME NEW id \in HostedIds(d) PROVE KindOf(d, id) \in StateKind
  OBVIOUS
<1>1. PICK e \in Hosted(d) : e.id = id
  BY DEF HostedIds
<1> DEFINE k == CHOOSE h \in d.histories : h.id = id
<1>2. k \in d.histories /\ k.id = id
  BY <1>1 DEF Hosted
<1>3. id \notin d.exclusions
  BY <1>1 DEF Hosted
<1> HIDE DEF k
<1>4. k.kind \in StateKind
  BY <1>2, <1>3 DEF IsArrays, MapConstructs
<1> QED
  BY <1>4 DEF KindOf, k

\* The layout of a process.
LEMMA LayoutOfLoad ==
  ASSUME NEW d, IsArrays(d), NEW l, IsOrderOf(d, l.order)
  PROVE  /\ IsLayoutOf(d, Layout(d, l.order)) /\ Ids(Layout(d, l.order)) = HostedIds(d)
         /\ \A id \in HostedIds(d) : KindOf(d, id) \in StateKind
         /\ d.stiffness \in [1 .. 36 -> Int]
<1>1. IsLayoutOf(d, Layout(d, l.order))
  BY LayoutOfDeck DEF IsArrays
<1>2. Ids(Layout(d, l.order)) = HostedIds(d)
  BY <1>1 DEF IsLayoutOf, Ids, HostedIds
<1>3. \A id \in HostedIds(d) : KindOf(d, id) \in StateKind
  BY <1>1, <1>2, KindOfEntry
<1> QED
  BY <1>1, <1>2, <1>3 DEF IsArrays, ArrayParameters

\* DROT is a tensor, and without rotation the identity.
LEMMA RotationTyped ==
  /\ \A drot \in [1 .. 9 -> Int] : RotationFromBuffer(drot) \in [Tensor2 -> Int]
  /\ RotationFromBuffer(NoRotation) = Identity /\ NoRotation \in [1 .. 9 -> Int]
<1>1. ASSUME NEW drot \in [1 .. 9 -> Int] PROVE RotationFromBuffer(drot) \in [Tensor2 -> Int]
  <2>1. ASSUME NEW p \in Tensor2 PROVE drot[p[1] + 3 * (p[2] - 1)] \in Int
    <3>1. p[1] \in {1, 2, 3} /\ p[2] \in {1, 2, 3}
      BY DEF Tensor2, Axis
    <3>2. p[1] + 3 * (p[2] - 1) \in 1 .. 9
      BY <3>1
    <3> QED
      BY <3>2
  <2> QED
    BY <2>1 DEF RotationFromBuffer
<1>2. ASSUME NEW p \in Tensor2 PROVE NoRotation[p[1] + 3 * (p[2] - 1)] = IF p[1] = p[2] THEN 1 ELSE 0
  <2>1. p[1] \in {1, 2, 3} /\ p[2] \in {1, 2, 3}
    BY DEF Tensor2, Axis
  <2> QED
    BY <2>1 DEF NoRotation
<1>3. RotationFromBuffer(NoRotation) = Identity
  BY <1>2 DEF RotationFromBuffer, Identity
<1>4. NoRotation \in [1 .. 9 -> Int]
  BY DEF NoRotation
<1> QED
  BY <1>1, <1>3, <1>4

\* What the material answers to the tensors of the call.
Answers(d, held, R, e0, e1, answer) ==
  /\ answer.hist = Responds(d, TurnedBy(d, held, R), e0, e1).hist
  /\ IsHistoryOf(d, HostedIds(d), answer.hist)
  /\ answer.stress6 = StressToBuffer(Contract(Stiffness(d), e1))
  /\ answer.tangent36 = TangentToBuffer(Stiffness(d))

\* evaluate_canonical gives the answer of the material to the tensors of its buffers.
LEMMA CanonicalAnswers ==
  ASSUME NEW d, IsArrays(d), NEW l, IsOrderOf(d, l.order), l.drot \in [1 .. 9 -> Int],
         NEW block, NEW held, IsHistoryOf(d, HostedIds(d), held),
         UnpackHistory(Layout(d, l.order), block) = held,
         NEW old6, NEW new6, NEW e0 \in [Tensor2 -> Int], NEW e1 \in [Tensor2 -> Int],
         StrainFromBuffer(old6) = e0, StrainFromBuffer(new6) = e1
  PROVE  Answers(d, held, RotationFromBuffer(l.drot), e0, e1, EvaluateCanonical(d, l, block, old6, new6))
<1> DEFINE layout == Layout(d, l.order)
           R == RotationFromBuffer(l.drot)
           answer == Responds(d, TurnedBy(d, held, R), e0, e1)
           result == [hist |-> answer.hist, stress6 |-> StressToBuffer(answer.stress),
                      tangent36 |-> TangentToBuffer(Stiffness(d))]
<1>1. /\ IsLayoutOf(d, layout) /\ Ids(layout) = HostedIds(d) /\ d.stiffness \in [1 .. 36 -> Int]
      /\ \A id \in HostedIds(d) : KindOf(d, id) \in StateKind
  BY LayoutOfLoad
<1>2. RotateHistory(layout, held, l.drot) = TurnedBy(d, held, R)
  BY <1>1, RotateHistoryTurns
<1>3. IsHistoryOf(d, HostedIds(d), TurnedBy(d, held, R))
  BY <1>1, RotationTyped, TurnedFacts
<1>4. EvaluateCanonical(d, l, block, old6, new6) = result
  BY <1>2 DEF EvaluateCanonical
<1>5. IsHistoryOf(d, HostedIds(d), answer.hist) /\ answer.stress = Contract(Stiffness(d), e1)
  BY <1>1, <1>3, RespondsTyped
<1> HIDE DEF answer
<1>6. /\ result.hist = answer.hist /\ result.stress6 = StressToBuffer(answer.stress)
      /\ result.tangent36 = TangentToBuffer(Stiffness(d))
  OBVIOUS
<1> QED
  BY <1>4, <1>5, <1>6 DEF Answers, answer

-----------------------------------------------------------------------------
(***************************************************************************)
(* A call: what it writes.                                                 *)
(***************************************************************************)
\* The graph a call is given.
IsGraph(g) == {"hist", "stress", "tangent"} \subseteq DOMAIN g /\ {"statev", "held", "out"} \subseteq DOMAIN g.hist

\* What is in STATEV comes back.
Keeps(layout, block, hist) == AllStorable(layout, hist) /\ Carries(layout, block, hist)

\* What a call that returns has made of the graph g; b is STATEV after it.
Writes(d, l, ec, answer, block, g, out, b) ==
  /\ MapWidth(Layout(d, l.order)) <= Len(block)
  /\ b \in Seq(Int) /\ Len(b) = Len(block)
  /\ Keeps(Layout(d, l.order), b, answer.hist)
  /\ "graph" \in DOMAIN out
  /\ out.graph = [g EXCEPT !.hist.statev = b, !.stress = NarrowVector(answer.stress6, ec),
                           !.tangent = NarrowMatrix(answer.tangent36, ec)]

\* A refusal and a cut-back are no return.
LEMMA NoReturn ==
  ASSUME NEW g, NEW out, out \in Refused(g) \/ out \in CutBack(g)
  PROVE  out.end # "returned"
BY DEF Refused, CutBack

\* A call that returns has packed the new history.
LEMMA StoreWrites ==
  ASSUME NEW d, IsArrays(d), NEW l, IsOrderOf(d, l.order), NEW g, NEW ec, NEW block \in Seq(Int),
         MapWidth(Layout(d, l.order)) <= Len(block), NEW answer, IsHistoryOf(d, HostedIds(d), answer.hist),
         NEW out \in StoreArrays(d, l, g, ec, block, answer), out.end = "returned"
  PROVE  Writes(d, l, ec, answer, block, g, out, PackHistory(Layout(d, l.order), block, answer.hist))
<1> DEFINE layout == Layout(d, l.order)
           b == PackHistory(layout, block, answer.hist)
           h == [g EXCEPT !.hist.statev = b]
           result == [g EXCEPT !.hist.statev = b, !.stress = NarrowVector(answer.stress6, ec),
                               !.tangent = NarrowMatrix(answer.tangent36, ec)]
<1>1. out \in IF ~AllStorable(layout, answer.hist) THEN Refused(h)
              ELSE {[end |-> "returned", graph |-> result]}
  BY DEF StoreArrays
<1> HIDE DEF h, result
<1>2. AllStorable(layout, answer.hist) /\ out = [end |-> "returned", graph |-> result]
  BY <1>1, NoReturn
<1>3. IsLayoutOf(d, layout) /\ Ids(layout) = HostedIds(d) /\ IsLayout(layout)
  BY LayoutOfLoad DEF IsLayoutOf
<1>4. IsHistory(layout, answer.hist)
  BY <1>3, HistoryOfDeck
<1>5. b \in Seq(Int) /\ Len(b) = Len(block)
  BY <1>3, <1>4, PackedType
<1>6. Carries(layout, b, answer.hist)
  <2>1. \A n \in 1 .. Len(layout) : \A a \in 1 .. KindWidth(layout[n].kind) :
          PackHistory(layout, block, answer.hist)[EntryOffset(layout, n) + a]
            = PackEntry(layout[n].kind, answer.hist[layout[n].id])[a]
    <3>1. MapWidth(layout) <= Len(block)
      OBVIOUS
    <3> HIDE DEF layout
    <3> QED
      BY <1>2, <1>3, <3>1, PackedSlots
  <2> HIDE DEF layout
  <2> QED
    BY <2>1 DEF Carries
<1>7. out.graph = result /\ "graph" \in DOMAIN out
  BY <1>2
<1> HIDE DEF b, layout
<1>8. Keeps(layout, b, answer.hist)
  BY <1>2, <1>6 DEF Keeps
<1> QED
  BY <1>5, <1>7, <1>8 DEF Writes, result, b, layout

\* What the host finds after a call of a family f of Abaqus.
Tells(d, f, held, R, e0, e1, g, out, b) ==
  /\ out.graph.stress = NarrowVector(StressToBuffer(Contract(Stiffness(d), e1)), f)
  /\ out.graph.tangent = NarrowMatrix(TangentToBuffer(Stiffness(d)), f)
  /\ out.graph.hist = [g.hist EXCEPT !.statev = b]
  /\ DOMAIN out.graph = DOMAIN g

Stored(d, l, held, R, e0, e1, block, b) ==
  /\ b \in Seq(Int) /\ Len(b) = Len(block) /\ MapWidth(Layout(d, l.order)) <= Len(block)
  /\ IsHistoryOf(d, HostedIds(d), Responds(d, TurnedBy(d, held, R), e0, e1).hist)
  /\ Keeps(Layout(d, l.order), b, Responds(d, TurnedBy(d, held, R), e0, e1).hist)

\* And the host finds the answer of the material.
LEMMA WrittenTells ==
  ASSUME NEW d, NEW l, NEW f, NEW answer, NEW block, NEW g, IsGraph(g), NEW out, NEW b,
         Writes(d, l, f, answer, block, g, out, b),
         NEW held, NEW R, NEW e0, NEW e1, Answers(d, held, R, e0, e1, answer)
  PROVE  Tells(d, f, held, R, e0, e1, g, out, b) /\ Stored(d, l, held, R, e0, e1, block, b)
<1> DEFINE s == NarrowVector(answer.stress6, f)  t == NarrowMatrix(answer.tangent36, f)
           r == [g EXCEPT !.hist.statev = b, !.stress = s, !.tangent = t]
<1>1. out.graph = r
  BY DEF Writes
<1> HIDE DEF s, t
<1>2. r.stress = s /\ r.tangent = t /\ r.hist = [g.hist EXCEPT !.statev = b] /\ DOMAIN r = DOMAIN g
  BY DEF IsGraph
<1> HIDE DEF r
<1> QED
  BY <1>1, <1>2 DEF Writes, Answers, Tells, Stored, s, t

\* Another process reads it as well.
LEMMA KeptReturns ==
  ASSUME NEW d, IsArrays(d), NEW l, IsOrderOf(d, l.order), NEW hist, IsHistoryOf(d, HostedIds(d), hist),
         NEW b, Keeps(Layout(d, l.order), b, hist)
  PROVE  \A k \in d.loads : UnpackHistory(Layout(d, k.order), b) = hist
<1>1. /\ IsLayout(Layout(d, l.order)) /\ IsLayoutOf(d, Layout(d, l.order))
      /\ Ids(Layout(d, l.order)) = HostedIds(d)
  BY LayoutOfLoad DEF IsLayoutOf
<1>2. UnpackHistory(Layout(d, l.order), b) = hist
  BY <1>1, HistoryOfDeck, CarriedReturns DEF Keeps
<1>3. ASSUME NEW k \in d.loads PROVE Layout(d, k.order) = Layout(d, l.order)
  <2>1. IsOrderOf(d, k.order)
    BY DEF IsArrays, ArrayParameters
  <2> QED
    BY <2>1, LayoutIsOfNames
<1> QED
  BY <1>2, <1>3

\* material_point_evaluator::evaluate.
LEMMA SolidCallTells ==
  ASSUME NEW d, IsArrays(d), NEW l, IsOrderOf(d, l.order), l.drot \in [1 .. 9 -> Int],
         NEW f \in {"solid3d", "plane_strain"}, NEW g, IsGraph(g), NEW block \in Seq(Int),
         NEW held, IsHistoryOf(d, HostedIds(d), held),
         MapWidth(Layout(d, l.order)) <= Len(block) => UnpackHistory(Layout(d, l.order), block) = held,
         NEW e0 \in [Tensor2 -> Int], NEW e1 \in [Tensor2 -> Int],
         StrainFromBuffer(WidenVector(l.stran, f, 0)) = e0,
         StrainFromBuffer(WidenVector(EndArray(l), f, 0)) = e1,
         NEW out \in SolidCall(d, l, g, f, block), out.end = "returned"
  PROVE  \E b : /\ Tells(d, f, held, RotationFromBuffer(l.drot), e0, e1, g, out, b)
                /\ Stored(d, l, held, RotationFromBuffer(l.drot), e0, e1, block, b)
<1> DEFINE layout == Layout(d, l.order)  R == RotationFromBuffer(l.drot)
           old6 == WidenVector(l.stran, f, 0)  new6 == WidenVector(EndArray(l), f, 0)
           answer == EvaluateCanonical(d, l, block, old6, new6)
           b == PackHistory(layout, block, answer.hist)
<1>1. MapWidth(layout) \in Nat /\ Len(block) \in Nat
  <2>1. IsLayout(layout)
    BY LayoutOfLoad DEF IsLayoutOf
  <2> QED
    BY <2>1, EntryFits
<1>2. ~ (Len(block) < MapWidth(layout)) /\ out \in StoreArrays(d, l, g, f, block, answer)
  <2>1. out \in IF Len(block) < MapWidth(layout) THEN Refused(g) ELSE StoreArrays(d, l, g, f, block, answer)
    BY DEF SolidCall
  <2> QED
    BY <2>1, NoReturn
<1>3. MapWidth(layout) <= Len(block)
  <2> HIDE DEF layout
  <2> QED
    BY <1>1, <1>2
<1>4. Answers(d, held, R, e0, e1, answer)
  BY <1>3, CanonicalAnswers
<1>5. IsHistoryOf(d, HostedIds(d), answer.hist)
  BY <1>4 DEF Answers
<1> HIDE DEF answer
<1>6. Writes(d, l, f, answer, block, g, out, b)
  BY <1>2, <1>3, <1>5, StoreWrites
<1> HIDE DEF b
<1>7. Tells(d, f, held, R, e0, e1, g, out, b) /\ Stored(d, l, held, R, e0, e1, block, b)
  BY <1>4, <1>6, WrittenTells
<1> QED
  BY <1>7

-----------------------------------------------------------------------------
(***************************************************************************)
(* plane_stress_evaluator: the strain out of the plane.                    *)
(***************************************************************************)
OutOf(e, x) == [e EXCEPT ![<<3, 3>>] = x]

\* The strain out of the plane is one component.
LEMMA OutOfPlane ==
  ASSUME NEW host \in [1 .. HostWidth("plane_stress") -> Int], NEW x \in Int
  PROVE  /\ StrainOf(host, "plane_stress", x) = OutOf(StrainOf(host, "plane_stress", 0), x)
         /\ StrainOf(host, "plane_stress", 0)[<<3, 3>>] = 0
<1> DEFINE E(y) == StrainOf(host, "plane_stress", y)
           components == HostComponents("plane_stress")
           has(p) == \E n \in DOMAIN components : components[n] = Sorted(p)
<1>1. components = <<<<1, 1>>, <<2, 2>>, <<1, 2>>>>
  BY DEF HostComponents
<1>2. ~ has(<<3, 3>>)
  <2>1. Sorted(<<3, 3>>) = <<3, 3>>
    BY DEF Sorted
  <2>2. DOMAIN components = {1, 2, 3} /\ components[1] = <<1, 1>> /\ components[2] = <<2, 2>> /\ components[3] = <<1, 2>>
    BY <1>1
  <2>3. \A n \in {1, 2, 3} : components[n] # <<3, 3>>
    BY <2>2
  <2> QED
    BY <2>1, <2>2, <2>3
<1>3. \A y \in Int : E(y) \in [Tensor2 -> Int]
  <2>1. "plane_stress" \in AbaqusFamily
    BY DEF AbaqusFamily
  <2> QED
    BY <2>1, StrainAsMeant
<1>4. \A y, p : p \in Tensor2 => E(y)[p] = IF has(p) THEN E(0)[p] ELSE IF p = <<3, 3>> THEN y ELSE 0
  <2> SUFFICES ASSUME NEW y, NEW p \in Tensor2
               PROVE  E(y)[p] = IF has(p) THEN E(0)[p] ELSE IF p = <<3, 3>> THEN y ELSE 0
    OBVIOUS
  <2> DEFINE in == IF p[1] # p[2] /\ "plane_stress" # "calculix"
                   THEN host[CHOOSE n \in DOMAIN components : components[n] = Sorted(p)] \div 2
                   ELSE host[CHOOSE n \in DOMAIN components : components[n] = Sorted(p)]
  <2>1. \A z : E(z)[p] = IF has(p) THEN in ELSE IF p = <<3, 3>> THEN z ELSE 0
    BY DEF StrainOf
  <2> HIDE DEF in, has, E
  <2> QED
    BY <2>1
<1> HIDE DEF E, has
<1>5. <<3, 3>> \in Tensor2
  BY DEF Tensor2, Axis
<1>6. E(0)[<<3, 3>>] = 0
  BY <1>2, <1>4, <1>5
<1>7. E(x)[<<3, 3>>] = x /\ \A p \in Tensor2 : p # <<3, 3>> => E(x)[p] = E(0)[p]
  <2>1. \A p \in Tensor2 : E(x)[p] = IF has(p) THEN E(0)[p] ELSE IF p = <<3, 3>> THEN x ELSE 0
    BY <1>4
  <2>2. \A p \in Tensor2 : E(0)[p] = IF has(p) THEN E(0)[p] ELSE IF p = <<3, 3>> THEN 0 ELSE 0
    BY <1>4
  <2> QED
    BY <1>2, <1>5, <2>1, <2>2
<1>8. E(x) = OutOf(E(0), x)
  BY <1>3, <1>5, <1>7 DEF OutOf
<1> QED
  BY <1>6, <1>8 DEF E

\* The stress that is left there is the quotient's.
LEMMA RelaxedStress ==
  ASSUME NEW d, d.stiffness \in [1 .. 36 -> Int], At(d.stiffness, 3, 3) \in Nat \ {0}, d.family = "plane_stress",
         NEW e \in [Tensor2 -> Int], e[<<3, 3>>] = 0, NEW x \in Int,
         Contract(Stiffness(d), OutOf(e, x))[<<3, 3>>] = 0
  PROVE  Relaxed(d, e) = OutOf(e, x)
<1> DEFINE c == At(d.stiffness, 3, 3)  s == Contract(Stiffness(d), e)[<<3, 3>>]
<1>1. Slot[3] = <<3, 3>> /\ 3 \in 1 .. 6 /\ <<3, 3>> \in Tensor2
  BY DEF Slot, Tensor2, Axis
<1>2. Contract(Stiffness(d), [e EXCEPT ![<<3, 3>>] = x])[Slot[3]]
        = Contract(Stiffness(d), e)[Slot[3]] + At(d.stiffness, 3, 3) * (x - e[<<3, 3>>])
  BY <1>1, AddedStrain
<1>3. s \in Int
  BY <1>1, StiffnessTyped, ContractTyped
<1>4. Stiffness(d)[<<3, 3, 3, 3>>] = c
  <2>1. Stiffness(d)[<<Slot[3][1], Slot[3][2], Slot[3][1], Slot[3][2]>>] = c
    BY <1>1, BufferOfStiffness
  <2> QED
    BY <1>1, <2>1
<1> HIDE DEF c, s
<1>5. s + c * (x - 0) = 0
  BY <1>1, <1>2 DEF c, s, OutOf
<1>6. c \in Nat \ {0}
  BY DEF c
<1>7. s = (0 - x) * c
  BY <1>3, <1>5, <1>6
<1>8. ((0 - x) * c) \div c = 0 - x
  BY <1>6, ExactQuotient
<1>9. 0 - (s \div c) = x
  BY <1>7, <1>8
<1>10. Relaxed(d, e) = [e EXCEPT ![<<3, 3>>] = e[<<3, 3>>] - (s \div c)]
  BY <1>1, <1>4 DEF Relaxed, s
<1> QED
  BY <1>9, <1>10 DEF OutOf

\* A slot after the map may change.
LEMMA WriteSlot ==
  ASSUME NEW d, IsArrays(d), NEW l, IsOrderOf(d, l.order), NEW f, NEW answer, NEW block, NEW g, IsGraph(g),
         NEW w, NEW b, Writes(d, l, f, answer, block, g, w, b),
         NEW k \in DOMAIN b, k > MapWidth(Layout(d, l.order)), NEW x \in Int
  PROVE  Writes(d, l, f, answer, block, g, [w EXCEPT !.graph.hist.statev[k] = x], [b EXCEPT ![k] = x])
<1> DEFINE layout == Layout(d, l.order)  c == [b EXCEPT ![k] = x]
           s == NarrowVector(answer.stress6, f)  t == NarrowMatrix(answer.tangent36, f)
           G(v) == [g EXCEPT !.hist.statev = v, !.stress = s, !.tangent = t]
           out == [w EXCEPT !.graph.hist.statev[k] = x]
<1>1. /\ MapWidth(layout) <= Len(block) /\ b \in Seq(Int) /\ Len(b) = Len(block)
      /\ Keeps(layout, b, answer.hist) /\ "graph" \in DOMAIN w /\ w.graph = G(b)
  BY DEF Writes
<1>2. IsLayout(layout)
  BY LayoutOfLoad DEF IsLayoutOf
<1>3. c \in Seq(Int) /\ Len(c) = Len(b) /\ DOMAIN b = 1 .. Len(b) /\ \A i \in DOMAIN b : i # k => c[i] = b[i]
  BY <1>1
<1>4. Carries(layout, c, answer.hist)
  <2>1. ASSUME NEW n \in 1 .. Len(layout), NEW a \in 1 .. KindWidth(layout[n].kind)
        PROVE  c[EntryOffset(layout, n) + a] = b[EntryOffset(layout, n) + a]
    <3>1. /\ EntryOffset(layout, n) \in Nat /\ KindWidth(layout[n].kind) \in Nat /\ MapWidth(layout) \in Nat
          /\ EntryOffset(layout, n) + KindWidth(layout[n].kind) <= MapWidth(layout)
      BY <1>2, LayoutFacts, EntryFits
    <3> DEFINE i == EntryOffset(layout, n) + a
    <3>2. i \in 1 .. MapWidth(layout)
      BY <2>1, <3>1
    <3>3. i \in DOMAIN b /\ i # k
      <4>1. k \in Int /\ Len(b) \in Int /\ MapWidth(layout) <= Len(b)
        BY <1>1, <1>3
      <4> HIDE DEF i, layout
      <4> QED
        BY <1>3, <3>1, <3>2, <4>1 DEF layout
    <3> HIDE DEF i
    <3>4. c[i] = b[i]
      BY <1>3, <3>3
    <3> QED
      BY <3>4 DEF i
  <2> HIDE DEF c
  <2> QED
    BY <1>1, <2>1 DEF Keeps, Carries
<1>5. Keeps(layout, c, answer.hist)
  BY <1>1, <1>4 DEF Keeps
<1>6. "graph" \in DOMAIN out /\ out.graph = [G(b) EXCEPT !.hist.statev[k] = x]
  <2> HIDE DEF G
  <2> QED
    BY <1>1
<1> HIDE DEF s, t
<1>7. [G(b) EXCEPT !.hist.statev[k] = x] = G(c)
  <2>1. G(b).hist = [g.hist EXCEPT !.statev = b] /\ G(b).hist.statev = b
    BY DEF IsGraph
  <2>2. [G(b).hist EXCEPT !.statev[k] = x] = [g.hist EXCEPT !.statev = c]
    <3> HIDE DEF G
    <3>1. [G(b).hist EXCEPT !.statev[k] = x] = [G(b).hist EXCEPT !.statev = c]
      BY <2>1
    <3>2. [[g.hist EXCEPT !.statev = b] EXCEPT !.statev = c] = [g.hist EXCEPT !.statev = c]
      OBVIOUS
    <3> QED
      BY <2>1, <3>1, <3>2
  <2>3. [G(b) EXCEPT !.hist = [g.hist EXCEPT !.statev = c]] = G(c)
    <3> HIDE DEF c
    <3> QED
      BY DEF IsGraph
  <2>4. [G(b) EXCEPT !.hist.statev[k] = x] = [G(b) EXCEPT !.hist = [G(b).hist EXCEPT !.statev[k] = x]]
    OBVIOUS
  <2> HIDE DEF G, c
  <2> QED
    BY <2>2, <2>3, <2>4
<1> HIDE DEF G, c, out
<1>8. out.graph = G(c)
  BY <1>6, <1>7
<1> QED
  BY <1>1, <1>3, <1>5, <1>6, <1>8 DEF Writes, G, c, out, s, t, layout

\* Slots and steps of an iteration.
LEMMA SlotArithmetic ==
  /\ \A e, s \in Int, c \in Nat \ {0} : e - s \div c \in Int
  /\ \A N \in Nat, n \in Int : n \in 1 .. N => n - 1 \in 0 .. N /\ n \in 0 .. N /\ n # 0
  /\ \A w \in Nat : w + 1 > w /\ w + 1 \in Int /\ \A L \in Nat : w + 1 <= L => w + 1 \in 1 .. L
  /\ \A m \in Nat : m - 1 \in Int
OBVIOUS

\* plane_stress_evaluator::evaluate: the strain out of the plane it stores leaves no stress
\* there.
LEMMA PlaneStressTells ==
  ASSUME NEW d, IsArrays(d), At(d.stiffness, 3, 3) \in Nat,
         NEW l, IsOrderOf(d, l.order), l.drot \in [1 .. 9 -> Int],
         l.stran \in [1 .. HostWidth("plane_stress") -> Int], EndArray(l) \in [1 .. HostWidth("plane_stress") -> Int],
         NEW g, IsGraph(g), NEW block \in Seq(Int), NEW o \in Int,
         NEW held, IsHistoryOf(d, HostedIds(d), held),
         MapWidth(Layout(d, l.order)) + 1 <= Len(block) =>
           UnpackHistory(Layout(d, l.order), block) = held /\ block[MapWidth(Layout(d, l.order)) + 1] = o,
         NEW out \in PlaneStressCall(d, l, g, block), out.end = "returned"
  PROVE  \E b, x :
           LET f  == "plane_stress"
               e0 == StrainOf(l.stran, f, o)
               e1 == StrainOf(EndArray(l), f, x)
               R  == RotationFromBuffer(l.drot)
           IN  /\ x \in Int /\ At(d.stiffness, 3, 3) # 0 /\ Contract(Stiffness(d), e1)[<<3, 3>>] = 0
               /\ MapWidth(Layout(d, l.order)) + 1 <= Len(block) /\ b[MapWidth(Layout(d, l.order)) + 1] = x
               /\ Tells(d, f, held, R, e0, e1, g, out, b)
               /\ Stored(d, l, held, R, e0, e1, block, b)
<1> DEFINE layout == Layout(d, l.order)
           slot  == MapWidth(layout) + 1
           f == "plane_stress"
           R == RotationFromBuffer(l.drot)
           N == d.maxIter - 1
           c33 == At(d.stiffness, 3, 3)
           old6  == WidenVector(l.stran, "plane_stress", block[slot])
           trial(e) == EvaluateCanonical(d, l, block, old6, WidenVector(EndArray(l), "plane_stress", e))
           iterate[n \in 0 .. d.maxIter - 1] ==
             IF n = 0 THEN block[slot]
             ELSE LET e == iterate[n - 1] IN e - trial(e).stress6[3] \div c33
           solved(n) == trial(iterate[n]).stress6[3] = 0
           done == {n \in 0 .. d.maxIter - 1 : solved(n)}
           last == CHOOSE n \in done : \A m \in done : n <= m
           stored(w) == IF w.end = "returned"
                        THEN [w EXCEPT !.graph.hist.statev[slot] = iterate[last]] ELSE w
           E(x) == StrainOf(EndArray(l), f, x)
<1>1. MapWidth(layout) \in Nat /\ Len(block) \in Nat /\ slot \in Int /\ IsLayout(layout)
  <2>1. IsLayout(layout)
    BY LayoutOfLoad DEF IsLayoutOf
  <2> HIDE DEF layout
  <2>2. MapWidth(layout) \in Nat
    BY <2>1, EntryFits
  <2>3. Len(block) \in Nat
    OBVIOUS
  <2>4. slot \in Int
    BY <2>2, SlotArithmetic
  <2> QED
    BY <2>1, <2>2, <2>3, <2>4
<1>2. /\ ~ (Len(block) < slot) /\ c33 # 0 /\ done # {}
      /\ out \in {stored(w) : w \in StoreArrays(d, l, g, "plane_stress", block, trial(iterate[last]))}
  <2>1. out \in IF Len(block) < slot \/ OutOfPlaneRotation(l.drot) THEN Refused(g)
                ELSE IF c33 = 0 \/ done = {} THEN CutBack(g)
                ELSE {stored(w) : w \in StoreArrays(d, l, g, "plane_stress", block, trial(iterate[last]))}
    BY DEF PlaneStressCall
  <2> HIDE DEF done, stored, c33, last, iterate
  <2> QED
    BY <2>1, NoReturn
<1>3. slot <= Len(block)
  <2>1. ~ (Len(block) < slot)
    BY <1>2
  <2> HIDE DEF slot
  <2> QED
    BY <1>1, <2>1
<1>4. UnpackHistory(layout, block) = held /\ block[slot] = o /\ MapWidth(layout) <= Len(block)
  <2>1. UnpackHistory(layout, block) = held /\ block[slot] = o
    BY <1>3
  <2> HIDE DEF layout
  <2> QED
    BY <1>1, <1>3, <2>1
<1>5. c33 \in Nat \ {0} /\ d.stiffness \in [1 .. 36 -> Int] /\ N \in Int
  <2>1. d.maxIter \in Nat /\ d.stiffness \in [1 .. 36 -> Int]
    BY DEF IsArrays, ArrayParameters
  <2>2. c33 # 0
    BY <1>2
  <2>3. N \in Int
    BY <2>1, SlotArithmetic
  <2>4. c33 \in Nat
    OBVIOUS
  <2> HIDE DEF c33, N
  <2> QED
    BY <2>1, <2>2, <2>3, <2>4
<1>6. \A x \in Int : StrainFromBuffer(WidenVector(EndArray(l), f, x)) = E(x) /\ E(x) \in [Tensor2 -> Int]
  <2>1. f \in AbaqusFamily
    BY DEF AbaqusFamily
  <2> QED
    BY <2>1, StrainAsMeant
<1>7. StrainFromBuffer(old6) = StrainOf(l.stran, f, o) /\ StrainOf(l.stran, f, o) \in [Tensor2 -> Int]
  <2>1. f \in AbaqusFamily
    BY DEF AbaqusFamily
  <2> QED
    BY <1>4, <2>1, StrainAsMeant
<1>8. \A x \in Int : Answers(d, held, R, StrainOf(l.stran, f, o), E(x), trial(x))
  <2> SUFFICES ASSUME NEW x \in Int PROVE Answers(d, held, R, StrainOf(l.stran, f, o), E(x), trial(x))
    OBVIOUS
  <2> HIDE DEF E, old6
  <2> QED
    BY <1>4, <1>6, <1>7, CanonicalAnswers
<1>9. \A x \in Int : trial(x).stress6[3] = Contract(Stiffness(d), E(x))[<<3, 3>>] /\ trial(x).stress6[3] \in Int
  <2> SUFFICES ASSUME NEW x \in Int
               PROVE  /\ trial(x).stress6[3] = Contract(Stiffness(d), E(x))[<<3, 3>>]
                      /\ trial(x).stress6[3] \in Int
    OBVIOUS
  <2>1. trial(x).stress6 = StressToBuffer(Contract(Stiffness(d), E(x)))
    BY <1>8 DEF Answers
  <2>2. \A t : StressToBuffer(t)[3] = t[<<3, 3>>]
    <3>1. Slot[3] = <<3, 3>> /\ 3 \in 1 .. 6
      BY DEF Slot
    <3>2. \A t : StressToBuffer(t)[3] = t[Slot[3]]
      BY <3>1 DEF StressToBuffer
    <3> QED
      BY <3>1, <3>2
  <2>3. Contract(Stiffness(d), E(x)) \in [Tensor2 -> Int] /\ <<3, 3>> \in Tensor2
    <3>1. E(x) \in [Tensor2 -> Int] /\ Stiffness(d) \in [Tensor4 -> Int]
      BY <1>5, <1>6, StiffnessTyped
    <3>2. <<3, 3>> \in Tensor2
      BY DEF Tensor2, Axis
    <3> HIDE DEF E
    <3> QED
      BY <3>1, <3>2, ContractTyped
  <2> HIDE DEF trial, E
  <2> QED
    BY <2>1, <2>2, <2>3
<1> HIDE DEF E, trial
<1>10. ASSUME N \in Nat PROVE \A n \in 0 .. N : iterate[n] \in Int
  <2> DEFINE F(e) == e - trial(e).stress6[3] \div c33
             G == [ie \in (1 .. N) \X Int |-> F(ie[2])]
  <2>1. \A e \in Int : F(e) \in Int
    <3> SUFFICES ASSUME NEW e \in Int PROVE F(e) \in Int
      OBVIOUS
    <3> DEFINE s == trial(e).stress6[3]
    <3>1. s \in Int /\ c33 \in Nat \ {0}
      BY <1>5, <1>9
    <3> HIDE DEF c33, s
    <3>2. e - s \div c33 \in Int
      BY <3>1, SlotArithmetic
    <3> QED
      BY <3>2 DEF s
  <2> HIDE DEF F
  <2>2. G \in [(1 .. N) \X Int -> Int]
    BY <2>1
  <2>3. block[slot] \in Int
    BY <1>4
  <2>4. PICK h \in [0 .. N -> Int] : Recursive(h, N, block[slot], G)
    BY <1>10, <2>2, <2>3, RecursiveFunction
  <2>5. ASSUME NEW n \in 0 .. N PROVE h[n] = IF n = 0 THEN block[slot] ELSE F(h[n - 1])
    <3>1. CASE n = 0
      BY <2>4, <3>1 DEF Recursive
    <3>2. CASE n \in 1 .. N
      <4> HIDE DEF N
      <4>1. n - 1 \in 0 .. N /\ n \in Int
        <5>1. n \in Int
          BY <3>2
        <5> QED
          BY <1>10, <3>2, <5>1, SlotArithmetic
      <4>2. h[n] = G[<<n, h[n - 1]>>] /\ h[n - 1] \in Int
        BY <2>4, <3>2, <4>1 DEF Recursive
      <4>3. <<n, h[n - 1]>> \in (1 .. N) \X Int
        BY <3>2, <4>2
      <4>4. h[n] = F(h[n - 1])
        BY <4>2, <4>3
      <4>5. n # 0
        BY <3>2
      <4> HIDE DEF N, slot
      <4> QED
        BY <4>4, <4>5
    <3> QED
      BY <3>1, <3>2
  <2>6. h = [n \in 0 .. N |-> IF n = 0 THEN block[slot] ELSE F(h[n - 1])]
    <3> HIDE DEF G
    <3> QED
      BY <2>5
  <2>7. h = [n \in 0 .. d.maxIter - 1 |->
               IF n = 0 THEN block[slot]
               ELSE LET e == h[n - 1] IN e - trial(e).stress6[3] \div c33]
    BY <2>6 DEF F
  <2>8. iterate = [n \in 0 .. d.maxIter - 1 |->
               IF n = 0 THEN block[slot]
               ELSE LET e == iterate[n - 1] IN e - trial(e).stress6[3] \div c33]
    <3> HIDE DEF slot, c33
    <3> QED
      BY <2>7
  <2> HIDE DEF iterate
  <2>9. iterate = [n \in 0 .. N |-> IF n = 0 THEN block[slot] ELSE F(iterate[n - 1])]
    BY <2>8 DEF F
  <2> HIDE DEF N, slot, c33
  <2>10. iterate[0] = block[slot] /\ \A n \in 1 .. N : iterate[n] = F(iterate[n - 1])
    <3>1. \A n \in 0 .. N : iterate[n] = IF n = 0 THEN block[slot] ELSE F(iterate[n - 1])
      BY <2>9
    <3>2. 0 \in 0 .. N /\ \A n \in 1 .. N : n \in 0 .. N /\ n # 0
      BY <1>10
    <3> QED
      BY <3>1, <3>2
  <2> DEFINE T == {n \in 0 .. N : iterate[n] \in Int}
  <2>11. 0 \in T
    BY <1>10, <2>3, <2>10
  <2>12. ASSUME NEW i \in 0 .. N - 1, i \in T PROVE i + 1 \in T
    <3>1. i + 1 \in 1 .. N /\ (i + 1) - 1 = i /\ i + 1 \in 0 .. N
      <4>1. i \in 0 .. N - 1
        OBVIOUS
      <4> QED
        BY <1>10, <4>1
    <3>2. iterate[i + 1] = F(iterate[i])
      BY <2>10, <3>1
    <3>3. iterate[i] \in Int
      BY <2>12
    <3>4. iterate[i + 1] \in Int
      BY <2>1, <3>2, <3>3
    <3> QED
      BY <3>1, <3>4
  <2> HIDE DEF T
  <2>13. \A n \in 0 .. N : n \in T
    BY <1>10, <2>11, <2>12, UpTo
  <2> QED
    BY <2>13 DEF T
<1> DEFINE x == iterate[last]
<1>11. last \in done
  <2>1. done \in SUBSET Nat
    <3> HIDE DEF solved
    <3> QED
      OBVIOUS
  <2> HIDE DEF done
  <2>2. \E n \in done : \A m \in done : n <= m
    <3>1. PICK n \in done : \A m \in done : ~(<<m, n>> \in OpToRel(<, Nat))
      BY <1>2, <2>1, NatLessThanWellFounded, WFMin
    <3>2. ASSUME NEW m \in done PROVE n <= m
      <4>1. n \in Nat /\ m \in Nat
        BY <2>1
      <4>2. ~ (m < n)
        BY <3>1, <4>1 DEF OpToRel
      <4> QED
        BY <4>1, <4>2
    <3> QED
      BY <3>1, <3>2
  <2> QED
    BY <2>2
<1>12. last \in 0 .. N /\ N \in Nat /\ trial(x).stress6[3] = 0
  <2> HIDE DEF last, iterate
  <2> QED
    BY <1>5, <1>11
<1>13. x \in Int
  <2> HIDE DEF last, iterate
  <2> QED
    BY <1>10, <1>12
<1>14. PICK w \in StoreArrays(d, l, g, f, block, trial(x)) : out = stored(w)
  <2> HIDE DEF stored, x
  <2> QED
    BY <1>2 DEF x
<1> HIDE DEF x
<1>15. w.end = "returned" /\ out = [w EXCEPT !.graph.hist.statev[slot] = x]
  <2>1. out = IF w.end = "returned" THEN [w EXCEPT !.graph.hist.statev[slot] = x] ELSE w
    BY <1>14 DEF x
  <2> QED
    BY <2>1
<1> HIDE DEF iterate, last, done
<1> DEFINE answer == trial(x)
           b0 == PackHistory(layout, block, answer.hist)
           b == [b0 EXCEPT ![slot] = x]
<1>16. Answers(d, held, R, StrainOf(l.stran, f, o), E(x), answer)
  BY <1>8, <1>13
<1> HIDE DEF answer
<1>17. Writes(d, l, f, answer, block, g, w, b0)
  <2>1. IsHistoryOf(d, HostedIds(d), answer.hist)
    BY <1>16 DEF Answers
  <2>2. w \in StoreArrays(d, l, g, f, block, answer)
    BY <1>14 DEF answer
  <2> QED
    BY <1>4, <1>15, <2>1, <2>2, StoreWrites
<1> HIDE DEF b0
<1>18. b0 \in Seq(Int) /\ Len(b0) = Len(block) /\ slot \in DOMAIN b0 /\ slot > MapWidth(layout)
  <2>1. b0 \in Seq(Int) /\ Len(b0) = Len(block)
    BY <1>17 DEF Writes
  <2>2. MapWidth(layout) \in Nat /\ slot = MapWidth(layout) + 1
    BY <1>1
  <2> HIDE DEF layout, slot
  <2>3. slot \in 1 .. Len(block) /\ slot > MapWidth(layout)
    BY <1>1, <1>3, <2>2, SlotArithmetic
  <2>4. DOMAIN b0 = 1 .. Len(block)
    BY <2>1
  <2> QED
    BY <2>1, <2>3, <2>4
<1>19. Writes(d, l, f, answer, block, g, out, b) /\ b[slot] = x
  <2>1. Writes(d, l, f, answer, block, g, [w EXCEPT !.graph.hist.statev[slot] = x], [b0 EXCEPT ![slot] = x])
    <3> HIDE DEF slot
    <3> QED
      BY <1>13, <1>17, <1>18, WriteSlot
  <2> HIDE DEF slot
  <2> QED
    BY <1>15, <1>18, <2>1
<1> HIDE DEF b
<1>20. /\ Tells(d, f, held, R, StrainOf(l.stran, f, o), E(x), g, out, b)
       /\ Stored(d, l, held, R, StrainOf(l.stran, f, o), E(x), block, b)
  BY <1>16, <1>19, WrittenTells
<1>21. Contract(Stiffness(d), E(x))[<<3, 3>>] = 0
  BY <1>9, <1>12, <1>13
<1> QED
  BY <1>2, <1>3, <1>13, <1>19, <1>20, <1>21 DEF E

-----------------------------------------------------------------------------
(***************************************************************************)
(* The blocks of the integration points in the state array.                *)
(***************************************************************************)
PointOf(m, i, e) == (i - 1) + m * (e - 1)

\* Products with one factor.
LEMMA ProductGrows ==
  ASSUME NEW a \in Nat, NEW b \in Nat, a <= b, NEW c \in Nat
  PROVE  c * a \in Nat /\ c * b \in Nat /\ c * a <= c * b
<1>1. c * (b - a) \in Nat
  OBVIOUS
<1>2. c * (b - a) = c * b - c * a
  OBVIOUS
<1>3. c * a \in Nat /\ c * b \in Nat
  OBVIOUS
<1> QED
  BY <1>1, <1>2, <1>3

\* The points of a mesh are numbered from zero.
LEMMA PointIsBelow ==
  ASSUME NEW m \in Nat \ {0}, NEW E \in Nat \ {0}, NEW i \in 1 .. m, NEW e \in 1 .. E
  PROVE  PointOf(m, i, e) \in Nat /\ PointOf(m, i, e) + 1 <= m * E
<1>1. m * (e - 1) \in Nat /\ m * (E - 1) \in Nat /\ m * (e - 1) <= m * (E - 1)
  <2>1. e - 1 \in Nat /\ E - 1 \in Nat /\ e - 1 <= E - 1
    OBVIOUS
  <2> QED
    BY <2>1, ProductGrows
<1>2. m * (E - 1) = m * E - m
  OBVIOUS
<1> DEFINE x == m * (e - 1)  y == m * (E - 1)  z == m * E
<1>3. x \in Nat /\ y \in Nat /\ x <= y /\ y = z - m /\ z \in Nat
  BY <1>1, <1>2
<1> HIDE DEF x, y, z
<1>4. (i - 1) + x \in Nat /\ (i - 1) + x + 1 <= z
  BY <1>3
<1> QED
  BY <1>4 DEF PointOf, x, z

\* No two have one number.
LEMMA PointsDiffer ==
  ASSUME NEW m \in Nat \ {0}, NEW i \in 1 .. m, NEW j \in 1 .. m, NEW e \in Nat \ {0}, NEW f \in Nat \ {0},
         PointOf(m, i, e) = PointOf(m, j, f)
  PROVE  i = j /\ e = f
<1>1. i - 1 \in 0 .. m - 1 /\ j - 1 \in 0 .. m - 1 /\ e - 1 \in Int /\ f - 1 \in Int
  OBVIOUS
<1> DEFINE x(k, g) == (g - 1) * m + (k - 1)
<1>2. x(i, e) = x(j, f)
  <2>1. x(i, e) = PointOf(m, i, e) /\ x(j, f) = PointOf(m, j, f)
    BY DEF PointOf
  <2> HIDE DEF x
  <2> QED
    BY <2>1
<1>3. x(i, e) \div m = e - 1 /\ x(i, e) % m = i - 1 /\ x(j, f) \div m = f - 1 /\ x(j, f) % m = j - 1
  BY <1>1, Division
<1> HIDE DEF x
<1>4. e - 1 = f - 1 /\ i - 1 = j - 1
  BY <1>2, <1>3
<1> QED
  BY <1>4

OffsetAt(d, p) == d.nstatv * PointOf(d.mi1, p[1], p[2])

\* The state array of a deck.
IsStatev(d, statev) == statev \in Seq(Int) /\ Len(statev) = d.nstatv * d.mi1 * d.elements

\* The blocks of two points do not overlap, and are inside of the state array.
LEMMA PlacesApart ==
  ASSUME NEW d, IsArrays(d), NEW statev, IsStatev(d, statev), NEW p \in Places(d)
  PROVE  /\ d.nstatv \in Nat /\ OffsetAt(d, p) \in Nat /\ OffsetAt(d, p) + d.nstatv <= Len(statev)
         /\ \A q \in Places(d) : p # q => \/ OffsetAt(d, p) + d.nstatv <= OffsetAt(d, q)
                                          \/ OffsetAt(d, q) + d.nstatv <= OffsetAt(d, p)
<1> DEFINE n == d.nstatv  m == d.mi1  E == d.elements  r(q) == PointOf(m, q[1], q[2])
<1>1. n \in Nat /\ m \in Nat \ {0} /\ E \in Nat \ {0}
  BY DEF IsArrays, ArrayParameters
<1>2. \A q \in Places(d) : q = <<q[1], q[2]>> /\ q[1] \in 1 .. m /\ q[2] \in 1 .. E
  BY DEF Places
<1>3. Len(statev) = (n * m) * E
  BY DEF IsStatev
<1> HIDE DEF n, m, E
<1>4. \A q \in Places(d) : r(q) \in Nat /\ r(q) + 1 <= m * E
  BY <1>1, <1>2, PointIsBelow
<1>5. \A q \in Places(d) : p # q => r(p) # r(q)
  <2> SUFFICES ASSUME NEW q \in Places(d), r(p) = r(q) PROVE p = q
    OBVIOUS
  <2>1. p[1] \in 1 .. m /\ q[1] \in 1 .. m /\ p[2] \in Nat \ {0} /\ q[2] \in Nat \ {0}
    BY <1>1, <1>2
  <2>2. p[1] = q[1] /\ p[2] = q[2]
    BY <1>1, <2>1, PointsDiffer
  <2> QED
    BY <1>2, <2>2
<1> HIDE DEF r
<1>6. \A a, b \in Nat : a + 1 <= b => n * a \in Nat /\ n * b \in Nat /\ n * a + n <= n * b
  <2> SUFFICES ASSUME NEW a \in Nat, NEW b \in Nat, a + 1 <= b
               PROVE  n * a \in Nat /\ n * b \in Nat /\ n * a + n <= n * b
    OBVIOUS
  <2>1. n * (a + 1) <= n * b /\ n * b \in Nat /\ n * a \in Nat
    <3>1. a + 1 \in Nat /\ a <= b
      OBVIOUS
    <3> QED
      BY <1>1, <3>1, ProductGrows
  <2>2. n * (a + 1) = n * a + n
    BY <1>1
  <2> QED
    BY <2>1, <2>2
<1>7. m * E \in Nat /\ n * (m * E) = (n * m) * E
  BY <1>1
<1>8. \A q \in Places(d) : OffsetAt(d, q) = n * r(q)
  BY DEF OffsetAt, n, m, r
<1>9. OffsetAt(d, p) \in Nat /\ OffsetAt(d, p) + n <= Len(statev)
  <2>1. r(p) \in Nat /\ r(p) + 1 <= m * E
    BY <1>4
  <2>2. n * r(p) \in Nat /\ n * r(p) + n <= n * (m * E)
    BY <1>6, <1>7, <2>1
  <2> QED
    BY <1>3, <1>7, <1>8, <2>2
<1>10. ASSUME NEW q \in Places(d), p # q
       PROVE  OffsetAt(d, p) + n <= OffsetAt(d, q) \/ OffsetAt(d, q) + n <= OffsetAt(d, p)
  <2>1. r(p) \in Nat /\ r(q) \in Nat /\ r(p) # r(q)
    BY <1>4, <1>5, <1>10
  <2>2. r(p) + 1 <= r(q) \/ r(q) + 1 <= r(p)
    BY <2>1
  <2>3. n * r(p) + n <= n * r(q) \/ n * r(q) + n <= n * r(p)
    BY <1>6, <2>1, <2>2
  <2> QED
    BY <1>8, <2>3
<1> QED
  BY <1>1, <1>9, <1>10 DEF n

\* The block of a point, slot by slot.
LEMMA BlockOfPlace ==
  ASSUME NEW d, IsArrays(d), NEW statev, IsStatev(d, statev), NEW p \in Places(d)
  PROVE  /\ BlockAt(d, p, statev) \in Seq(Int) /\ Len(BlockAt(d, p, statev)) = d.nstatv
         /\ \A k \in 1 .. d.nstatv : BlockAt(d, p, statev)[k] = statev[OffsetAt(d, p) + k]
<1> DEFINE o == OffsetAt(d, p)  n == d.nstatv
<1>1. n \in Nat /\ o \in Nat /\ o + n <= Len(statev)
  BY PlacesApart
<1>2. BlockAt(d, p, statev) = SubSeq(statev, o + 1, o + n)
  BY DEF BlockAt, Block, PointOffset, OffsetAt, PointOf
<1>3. statev \in Seq(Int)
  BY DEF IsStatev
<1> HIDE DEF o, n
<1>4. \A i \in (o + 1) .. (o + n) : statev[i] \in Int
  BY <1>1, <1>3
<1>5. o + 1 \in Int /\ o + n \in Int /\ (o + n) - (o + 1) + 1 = n /\ (o + 1 <= o + n <=> n # 0)
      /\ \A k \in 1 .. n : (o + 1) + k - 1 = o + k
  BY <1>1
<1> DEFINE a == o + 1  b == o + n
<1>6. a \in Int /\ b \in Int /\ b - a + 1 = n /\ (a <= b <=> n # 0) /\ \A k \in 1 .. n : a + k - 1 = o + k
  BY <1>1
<1>7. \A i \in a .. b : statev[i] \in Int
  BY <1>4
<1> HIDE DEF a, b
<1>8. /\ SubSeq(statev, a, b) \in Seq(Int)
      /\ Len(SubSeq(statev, a, b)) = IF a <= b THEN b - a + 1 ELSE 0
      /\ \A i \in 1 .. b - a + 1 : SubSeq(statev, a, b)[i] = statev[a + i - 1]
  BY <1>6, <1>7, SubSeqProperties
<1>9. /\ SubSeq(statev, a, b) \in Seq(Int) /\ Len(SubSeq(statev, a, b)) = n
      /\ \A k \in 1 .. n : SubSeq(statev, a, b)[k] = statev[o + k]
  BY <1>1, <1>6, <1>8
<1> QED
  BY <1>2, <1>9 DEF a, b, n, o

\* What is written in the block of one point is in it, and no other point's.
LEMMA OverwrittenAt ==
  ASSUME NEW d, IsArrays(d), NEW statev, IsStatev(d, statev), NEW p \in Places(d), NEW l, PointOffset(d, l) = OffsetAt(d, p),
         NEW b \in Seq(Int), Len(b) = d.nstatv
  PROVE  /\ IsStatev(d, Overwritten(d, l, statev, b))
         /\ BlockAt(d, p, Overwritten(d, l, statev, b)) = b
         /\ \A q \in Places(d) : q # p => BlockAt(d, q, Overwritten(d, l, statev, b)) = BlockAt(d, q, statev)
<1> DEFINE o == OffsetAt(d, p)  n == d.nstatv  w == Overwritten(d, l, statev, b)
<1>1. n \in Nat /\ o \in Nat /\ o + n <= Len(statev)
  BY PlacesApart
<1>2. statev \in Seq(Int) /\ DOMAIN statev = 1 .. Len(statev) /\ Len(statev) \in Nat /\ DOMAIN b = 1 .. n
  BY DEF IsStatev
<1>3. w = [k \in DOMAIN statev |-> IF k - o \in DOMAIN b THEN b[k - o] ELSE statev[k]]
  BY DEF Overwritten
<1> HIDE DEF o, n, w
<1>4. w \in Seq(Int) /\ Len(w) = Len(statev)
  <2>1. \A k \in DOMAIN statev : w[k] \in Int
    <3> SUFFICES ASSUME NEW k \in DOMAIN statev PROVE w[k] \in Int
      OBVIOUS
    <3>1. w[k] = IF k - o \in DOMAIN b THEN b[k - o] ELSE statev[k]
      BY <1>3
    <3>2. statev[k] \in Int
      BY <1>2
    <3>3. \A i \in DOMAIN b : b[i] \in Int
      OBVIOUS
    <3> QED
      BY <3>1, <3>2, <3>3
  <2>2. w \in [1 .. Len(statev) -> Int]
    BY <1>2, <1>3, <2>1
  <2> QED
    BY <1>2, <2>2
<1>5. IsStatev(d, w)
  BY <1>4 DEF IsStatev
<1>6. BlockAt(d, p, w) = b
  <2> DEFINE c == BlockAt(d, p, w)
  <2>1. c \in Seq(Int) /\ Len(c) = n /\ \A k \in 1 .. n : c[k] = w[o + k]
    BY <1>5, BlockOfPlace DEF n, o
  <2> HIDE DEF c
  <2>2. \A k \in 1 .. n : w[o + k] = b[k]
    <3> SUFFICES ASSUME NEW k \in 1 .. n PROVE w[o + k] = b[k]
      OBVIOUS
    <3>1. o + k \in DOMAIN statev /\ (o + k) - o = k /\ k \in DOMAIN b
      BY <1>1, <1>2
    <3> QED
      BY <1>3, <3>1
  <2>3. Len(b) = n /\ b \in Seq(Int)
    BY DEF n
  <2>4. c = [k \in 1 .. n |-> c[k]] /\ b = [k \in 1 .. n |-> b[k]]
    BY <2>1, <2>3
  <2> QED
    BY <2>1, <2>2, <2>4 DEF c
<1>7. ASSUME NEW q \in Places(d), q # p PROVE BlockAt(d, q, w) = BlockAt(d, q, statev)
  <2> DEFINE c == BlockAt(d, q, w)  e == BlockAt(d, q, statev)  v == OffsetAt(d, q)
  <2>1. c \in Seq(Int) /\ Len(c) = n /\ \A k \in 1 .. n : c[k] = w[v + k]
    BY <1>5, BlockOfPlace DEF n
  <2>2. e \in Seq(Int) /\ Len(e) = n /\ \A k \in 1 .. n : e[k] = statev[v + k]
    BY BlockOfPlace DEF n
  <2>3. /\ v \in Nat /\ v + n <= Len(statev)
        /\ v + n <= o \/ o + n <= v
    BY <1>7, PlacesApart DEF n, o
  <2> HIDE DEF c, e, v
  <2>4. \A k \in 1 .. n : w[v + k] = statev[v + k]
    <3> SUFFICES ASSUME NEW k \in 1 .. n PROVE w[v + k] = statev[v + k]
      OBVIOUS
    <3>1. v + k \in DOMAIN statev /\ ~ ((v + k) - o \in DOMAIN b)
      BY <1>1, <1>2, <2>3
    <3> QED
      BY <1>3, <3>1
  <2>5. c = [k \in 1 .. n |-> c[k]] /\ e = [k \in 1 .. n |-> e[k]]
    BY <2>1, <2>2
  <2>6. c = e
    BY <2>1, <2>2, <2>4, <2>5
  <2> QED
    BY <2>6 DEF c, e
<1> QED
  BY <1>5, <1>6, <1>7 DEF w

-----------------------------------------------------------------------------
(***************************************************************************)
(* A call leaves the graph its fields, however it ends.                    *)
(***************************************************************************)
HasFields(g, out) == {"end", "graph"} \subseteq DOMAIN out /\ DOMAIN out.graph = DOMAIN g

\* By a refusal.
LEMMA RefusedFields ==
  ASSUME NEW g, NEW out, out \in Refused(g) \/ out \in CutBack(g)
  PROVE  HasFields(g, out)
<1> DEFINE h == [g EXCEPT !.stress = 0, !.tangent = 0]
<1>1. out = [end |-> "refused", graph |-> h] \/ out = [end |-> "cutback", graph |-> h]
  BY DEF Refused, CutBack
<1>2. DOMAIN h = DOMAIN g
  OBVIOUS
<1> HIDE DEF h
<1>3. {"end", "graph"} \subseteq DOMAIN out /\ out.graph = h
  BY <1>1
<1> QED
  BY <1>2, <1>3 DEF HasFields

\* By what is stored.
LEMMA StoreFields ==
  ASSUME NEW d, NEW l, NEW g, NEW ec, NEW block, NEW answer, NEW out \in StoreArrays(d, l, g, ec, block, answer)
  PROVE  HasFields(g, out)
<1> DEFINE layout == Layout(d, l.order)
           b == PackHistory(layout, block, answer.hist)
           h == [g EXCEPT !.hist.statev = b]
           s == NarrowVector(answer.stress6, ec)  t == NarrowMatrix(answer.tangent36, ec)
           result == [g EXCEPT !.hist.statev = b, !.stress = s, !.tangent = t]
<1>1. out \in IF ~AllStorable(layout, answer.hist) THEN Refused(h)
              ELSE {[end |-> "returned", graph |-> result]}
  BY DEF StoreArrays
<1> HIDE DEF b, s, t
<1>2. DOMAIN h = DOMAIN g /\ DOMAIN result = DOMAIN g
  OBVIOUS
<1> HIDE DEF h, result, layout
<1>3. CASE out \in Refused(h)
  BY <1>2, <1>3, RefusedFields DEF HasFields
<1>4. CASE out = [end |-> "returned", graph |-> result]
  BY <1>2, <1>4 DEF HasFields
<1> QED
  BY <1>1, <1>3, <1>4

\* By the evaluator of solids.
LEMMA SolidFields ==
  ASSUME NEW d, NEW l, NEW g, NEW ec, NEW block, NEW out \in SolidCall(d, l, g, ec, block)
  PROVE  HasFields(g, out)
<1> DEFINE answer == EvaluateCanonical(d, l, block, WidenVector(l.stran, ec, 0), WidenVector(EndArray(l), ec, 0))
<1>1. out \in Refused(g) \/ out \in StoreArrays(d, l, g, ec, block, answer)
  BY DEF SolidCall
<1> HIDE DEF answer
<1> QED
  BY <1>1, RefusedFields, StoreFields

\* What changes inside a graph is not its fields.
LEMMA InnerFields ==
  ASSUME NEW g, NEW out, HasFields(g, out)
  PROVE  /\ \A k, x : HasFields(g, [out EXCEPT !.graph.hist.statev[k] = x])
         /\ \A a, b : HasFields(g, [out EXCEPT !.graph.hist.statev = a, !.graph.tangent = b])
         /\ \A a, b : HasFields(g, [out EXCEPT !.graph.hist.held = a, !.graph.hist.out = b])
<1>1. ASSUME NEW k, NEW x PROVE HasFields(g, [out EXCEPT !.graph.hist.statev[k] = x])
  <2>1. [out EXCEPT !.graph.hist.statev[k] = x].graph = [out.graph EXCEPT !.hist.statev[k] = x]
    BY DEF HasFields
  <2> QED
    BY <2>1 DEF HasFields
<1>2. ASSUME NEW a, NEW b PROVE HasFields(g, [out EXCEPT !.graph.hist.statev = a, !.graph.tangent = b])
  <2>1. [out EXCEPT !.graph.hist.statev = a, !.graph.tangent = b].graph
          = [out.graph EXCEPT !.hist.statev = a, !.tangent = b]
    BY DEF HasFields
  <2> QED
    BY <2>1 DEF HasFields
<1>3. ASSUME NEW a, NEW b PROVE HasFields(g, [out EXCEPT !.graph.hist.held = a, !.graph.hist.out = b])
  <2>1. [out EXCEPT !.graph.hist.held = a, !.graph.hist.out = b].graph
          = [out.graph EXCEPT !.hist.held = a, !.hist.out = b]
    BY DEF HasFields
  <2> QED
    BY <2>1 DEF HasFields
<1> QED
  BY <1>1, <1>2, <1>3

\* By that of plane stress.
LEMMA PlaneStressFields ==
  ASSUME NEW d, NEW l, NEW g, NEW block, NEW out \in PlaneStressCall(d, l, g, block)
  PROVE  HasFields(g, out)
<1> DEFINE slot  == MapWidth(Layout(d, l.order)) + 1
           old6  == WidenVector(l.stran, "plane_stress", block[slot])
           trial(e) == EvaluateCanonical(d, l, block, old6, WidenVector(EndArray(l), "plane_stress", e))
           c33 == At(d.stiffness, 3, 3)
           iterate[n \in 0 .. d.maxIter - 1] ==
             IF n = 0 THEN block[slot]
             ELSE LET e == iterate[n - 1] IN e - trial(e).stress6[3] \div c33
           solved(n) == trial(iterate[n]).stress6[3] = 0
           done == {n \in 0 .. d.maxIter - 1 : solved(n)}
           last == CHOOSE n \in done : \A m \in done : n <= m
           x == iterate[last]
           stored(w) == IF w.end = "returned" THEN [w EXCEPT !.graph.hist.statev[slot] = x] ELSE w
           answer == trial(x)
<1>1. \/ out \in Refused(g) \/ out \in CutBack(g)
      \/ out \in {stored(w) : w \in StoreArrays(d, l, g, "plane_stress", block, answer)}
  <2>1. out \in IF Len(block) < slot \/ OutOfPlaneRotation(l.drot) THEN Refused(g)
                ELSE IF c33 = 0 \/ done = {} THEN CutBack(g)
                ELSE {stored(w) : w \in StoreArrays(d, l, g, "plane_stress", block, answer)}
    BY DEF PlaneStressCall
  <2> HIDE DEF done, stored, c33, answer
  <2> QED
    BY <2>1
<1> HIDE DEF x, answer, slot
<1>2. ASSUME NEW w \in StoreArrays(d, l, g, "plane_stress", block, answer) PROVE HasFields(g, stored(w))
  <2>1. HasFields(g, w)
    BY StoreFields
  <2>2. HasFields(g, [w EXCEPT !.graph.hist.statev[slot] = x])
    BY <2>1, InnerFields
  <2> QED
    BY <2>1, <2>2
<1> HIDE DEF stored
<1> QED
  BY <1>1, <1>2, RefusedFields

\* By the dispatch of CalculiX.
LEMMA CalculixFields ==
  ASSUME NEW d, NEW l, NEW g, "hist" \in DOMAIN g, NEW out \in CalculixCall(d, l, g)
  PROVE  HasFields(g, out)
<1> DEFINE stran == ToEngineering(l.emec0)
           arrays == [order |-> l.order, drot |-> NoRotation, stran |-> stran,
                      dstran |-> [k \in 1 .. 6 |-> ToEngineering(l.emec)[k] - stran[k]]]
           statev(w) == Overwritten(d, l, g.hist.statev, w.graph.hist.statev)
           tangent(w) == IF w.end # "returned" \/ l.stressOnly THEN 0 ELSE PackedStiffness(w.graph.tangent)
           whole(w) == [w EXCEPT !.graph.hist.statev = statev(w), !.graph.tangent = tangent(w)]
           block == Block(d, l, g.hist.statev)
           h == [g EXCEPT !.hist.statev = block]
<1>1. out \in Refused(g) \/ out \in {whole(w) : w \in SolidCall(d, arrays, h, "solid3d", block)}
  BY DEF CalculixCall
<1> HIDE DEF arrays, block, statev, tangent
<1>2. DOMAIN h = DOMAIN g
  OBVIOUS
<1> HIDE DEF h
<1>3. ASSUME NEW w \in SolidCall(d, arrays, h, "solid3d", block) PROVE HasFields(g, whole(w))
  <2>1. HasFields(h, w)
    BY SolidFields
  <2>2. HasFields(g, w)
    BY <1>2, <2>1 DEF HasFields
  <2> QED
    BY <2>2, InnerFields
<1> HIDE DEF whole
<1> QED
  BY <1>1, <1>3, RefusedFields

\* By each family.
LEMMA CallFields ==
  ASSUME NEW d, IsArrays(d), NEW l, NEW g, "hist" \in DOMAIN g, NEW w \in ArrayCall(d, l, g)
  PROVE  HasFields(g, w)
<1>1. d.family \in {"solid3d", "plane_strain", "plane_stress", "calculix"}
  BY DEF IsArrays, ArrayParameters
<1>2. CASE d.family = "calculix"
  BY <1>2, CalculixFields DEF ArrayCall
<1>3. CASE d.family = "plane_stress"
  <2>1. w \in PlaneStressCall(d, l, g, g.hist.statev)
    BY <1>3 DEF ArrayCall
  <2> QED
    BY <2>1, PlaneStressFields
<1>4. CASE d.family \in {"solid3d", "plane_strain"}
  <2>1. w \in SolidCall(d, l, g, d.family, g.hist.statev)
    BY <1>4 DEF ArrayCall
  <2> QED
    BY <2>1, SolidFields
<1> QED
  BY <1>1, <1>2, <1>3, <1>4

\* And by what is held.
LEMMA ArrayFields ==
  ASSUME NEW d, IsArrays(d), NEW o, NEW l, NEW g, "hist" \in DOMAIN g, NEW out \in ArrayCompute(d, o, g, l)
  PROVE  HasFields(g, out)
<1> DEFINE M == Meant(d, o, l)
           meant(w) == [w EXCEPT !.graph.hist.held = M.held, !.graph.hist.out = M.out]
<1>1. PICK w \in ArrayCall(d, l, g) : out = IF w.end = "returned" THEN meant(w) ELSE w
  BY DEF ArrayCompute
<1> HIDE DEF M
<1>2. HasFields(g, w)
  BY CallFields
<1> QED
  BY <1>1, <1>2, InnerFields

-----------------------------------------------------------------------------
(***************************************************************************)
(* What the host has between two calls.                                    *)
(***************************************************************************)
Fits(d, layout) == MapWidth(layout) + (IF d.family = "plane_stress" THEN 1 ELSE 0) <= d.nstatv

\* The state array is what is held, as far as the host has room for it.
IsStored(d, hist) ==
  /\ {"statev", "held", "out"} \subseteq DOMAIN hist
  /\ IsStatev(d, hist.statev)
  /\ hist.out \in Int /\ (d.family # "plane_stress" => hist.out = 0)
  /\ DOMAIN hist.held = Places(d)
  /\ \A p \in Places(d) : IsHistoryOf(d, HostedIds(d), hist.held[p])
  /\ \A l \in d.loads : Fits(d, Layout(d, l.order)) => StateIsHeld(d, hist)

\* What a call makes of the values at the point p.
New(d, o, l, p, x) == Responds(d, Turned(d, l, o.held[p]), StartStrain(d, o, l), EndStrain(d, l, x)).hist

\* What a call w has made of the history o at the point p, before the host takes it as
\* what is held: v is the state array and x the strain out of the plane.
CallMeans(d, o, l, w, p, v, x) ==
  LET e1  == EndStrain(d, l, x)
      new == New(d, o, l, p, x)
  IN  /\ p = PlaceOf(d, l) /\ p \in Places(d)
      /\ x \in Int /\ (d.family # "plane_stress" => x = 0)
      /\ Relaxed(d, EndStrain(d, l, 0)) = e1 /\ (d.family = "plane_stress" => e1[<<3, 3>>] = x)
      /\ w.graph.hist = [o EXCEPT !.statev = v] /\ IsStatev(d, v)
      /\ IsHistoryOf(d, HostedIds(d), new)
      /\ Fits(d, Layout(d, l.order)) /\ Keeps(Layout(d, l.order), BlockAt(d, p, v), new)
      /\ d.family = "plane_stress" => BlockAt(d, p, v)[MapWidth(Layout(d, l.order)) + 1] = x
      /\ \A q \in Places(d) : q # p => BlockAt(d, q, v) = BlockAt(d, q, o.statev)

\* And what it has told the host.
CallTells(d, l, w, x) ==
  /\ \A n \in DOMAIN w.graph.stress :
       w.graph.stress[n] = Contract(Stiffness(d), EndStrain(d, l, x))[HostComponents(d.family)[n]]
  /\ TangentIsOf(d, l, w.graph.tangent)

\* What a call means changes what is held at its point.
LEMMA MeantFacts ==
  ASSUME NEW d, NEW o, IsStored(d, o), NEW l, NEW w, NEW p, NEW v, NEW x, CallMeans(d, o, l, w, p, v, x)
  PROVE  Meant(d, o, l).held = [o.held EXCEPT ![p] = New(d, o, l, p, x)] /\ Meant(d, o, l).out = x
<1> DEFINE e1 == EndStrain(d, l, x)
           new(e) == Responds(d, Turned(d, l, o.held[p]), StartStrain(d, o, l), e).hist
           outOf(e) == IF d.family = "plane_stress" THEN e[<<3, 3>>] ELSE 0
           e == Relaxed(d, EndStrain(d, l, 0))
<1>1. /\ e = e1 /\ (d.family = "plane_stress" => e1[<<3, 3>>] = x) /\ p = PlaceOf(d, l) /\ p \in Places(d)
      /\ (d.family # "plane_stress" => x = 0)
  BY DEF CallMeans
<1>2. {"statev", "held", "out"} \subseteq DOMAIN o /\ DOMAIN o.held = Places(d)
  BY DEF IsStored
<1>3. Meant(d, o, l) = [o EXCEPT !.held[p] = Responds(d, Turned(d, l, @), StartStrain(d, o, l), e).hist,
                                 !.out = outOf(e)]
  BY <1>1 DEF Meant
<1> HIDE DEF e, e1, outOf
<1>4. Meant(d, o, l).held = [o.held EXCEPT ![p] = new(e)] /\ Meant(d, o, l).out = outOf(e)
  BY <1>1, <1>2, <1>3
<1>5. outOf(e) = x
  BY <1>1 DEF outOf
<1> QED
  BY <1>1, <1>4, <1>5 DEF e1, New

\* The host has the state array v, and what the call means is held.
Taken(d, o, l, v, hist) ==
  hist = [[o EXCEPT !.statev = v] EXCEPT !.held = Meant(d, o, l).held, !.out = Meant(d, o, l).out]

\* After a call that returns the state array is what is held again, at every point and for
\* every process.
LEMMA StoredAgain ==
  ASSUME NEW d, IsArrays(d), NEW o, IsStored(d, o), NEW l \in d.loads,
         NEW w, NEW p, NEW v, NEW x, CallMeans(d, o, l, w, p, v, x),
         NEW hist, Taken(d, o, l, v, hist)
  PROVE  IsStored(d, hist) /\ StateIsHeld(d, hist) /\ hist.out = x
<1> DEFINE new == New(d, o, l, p, x)  layout == Layout(d, l.order)
<1>1. /\ p \in Places(d) /\ x \in Int /\ (d.family # "plane_stress" => x = 0)
      /\ IsStatev(d, v) /\ IsHistoryOf(d, HostedIds(d), new)
      /\ Fits(d, layout) /\ Keeps(layout, BlockAt(d, p, v), new)
      /\ d.family = "plane_stress" => BlockAt(d, p, v)[MapWidth(layout) + 1] = x
      /\ \A q \in Places(d) : q # p => BlockAt(d, q, v) = BlockAt(d, q, o.statev)
  BY DEF CallMeans, New
<1>2. Meant(d, o, l).held = [o.held EXCEPT ![p] = new] /\ Meant(d, o, l).out = x
  BY MeantFacts
<1>3. /\ {"statev", "held", "out"} \subseteq DOMAIN o /\ DOMAIN o.held = Places(d)
      /\ \A q \in Places(d) : IsHistoryOf(d, HostedIds(d), o.held[q])
      /\ StateIsHeld(d, o)
  BY <1>1 DEF IsStored
<1> HIDE DEF new
<1>4. /\ DOMAIN hist = DOMAIN o /\ hist.statev = v /\ hist.held = [o.held EXCEPT ![p] = new] /\ hist.out = x
  <2> DEFINE M == Meant(d, o, l)
  <2>1. M.held = [o.held EXCEPT ![p] = new] /\ M.out = x
    BY <1>2
  <2> HIDE DEF M
  <2>2. hist = [[o EXCEPT !.statev = v] EXCEPT !.held = M.held, !.out = M.out]
    BY DEF M, Taken
  <2> QED
    BY <1>3, <2>1, <2>2
<1>5. DOMAIN hist.held = Places(d) /\ hist.held[p] = new /\ \A q \in Places(d) : q # p => hist.held[q] = o.held[q]
  BY <1>1, <1>3, <1>4
<1>6. \A q \in Places(d) : IsHistoryOf(d, HostedIds(d), hist.held[q])
  BY <1>1, <1>3, <1>5
<1>7. IsOrderOf(d, l.order) /\ \A k \in d.loads : Layout(d, k.order) = layout
  <2>1. \A k \in d.loads : IsOrderOf(d, k.order)
    BY DEF IsArrays, ArrayParameters
  <2> QED
    BY <2>1, LayoutIsOfNames
<1>8. ASSUME NEW k \in d.loads, NEW q \in Places(d)
      PROVE  /\ UnpackHistory(Layout(d, k.order), BlockAt(d, q, v)) = hist.held[q]
             /\ d.family = "plane_stress" => BlockAt(d, q, v)[MapWidth(Layout(d, k.order)) + 1] = x
  <2>1. Layout(d, k.order) = layout
    BY <1>7
  <2>2. CASE q = p
    <3>1. UnpackHistory(Layout(d, k.order), BlockAt(d, p, v)) = new
      BY <1>1, <1>7, KeptReturns
    <3> QED
      BY <1>1, <1>5, <2>1, <2>2, <3>1
  <2>3. CASE q # p
    <3>1. BlockAt(d, q, v) = BlockAt(d, q, o.statev) /\ hist.held[q] = o.held[q]
      BY <1>1, <1>5, <2>3
    <3>2. UnpackHistory(Layout(d, k.order), BlockAt(d, q, o.statev)) = o.held[q]
      BY <1>3 DEF StateIsHeld
    <3>3. d.family # "plane_stress"
      <4>1. d.family # "calculix" => Places(d) = {<<1, 1>>}
        <5>1. d.family # "calculix" => d.mi1 = 1 /\ d.elements = 1
          BY DEF IsArrays, ArrayParameters
        <5>2. (1 .. 1) \X (1 .. 1) = {<<1, 1>>}
          OBVIOUS
        <5> QED
          BY <5>1, <5>2 DEF Places
      <4> QED
        BY <1>1, <1>8, <2>3, <4>1
    <3> QED
      BY <3>1, <3>2, <3>3
  <2> QED
    BY <2>2, <2>3
<1> HIDE DEF layout
<1>9. StateIsHeld(d, hist)
  BY <1>4, <1>8 DEF StateIsHeld
<1>10. IsStored(d, hist)
  BY <1>1, <1>3, <1>4, <1>5, <1>6, <1>9 DEF IsStored
<1> QED
  BY <1>4, <1>9, <1>10

-----------------------------------------------------------------------------
(***************************************************************************)
(* The calls of Abaqus.                                                    *)
(***************************************************************************)
\* Abaqus passes the array of one point.
LEMMA OnePlace ==
  ASSUME NEW d, IsArrays(d), d.family # "calculix", NEW statev, IsStatev(d, statev)
  PROVE  /\ <<1, 1>> \in Places(d) /\ Places(d) = {<<1, 1>>}
         /\ Len(statev) = d.nstatv /\ BlockAt(d, <<1, 1>>, statev) = statev
<1>1. d.mi1 = 1 /\ d.elements = 1 /\ d.nstatv \in Nat
  BY DEF IsArrays, ArrayParameters
<1>2. Places(d) = {<<1, 1>>}
  <2>1. (1 .. 1) \X (1 .. 1) = {<<1, 1>>}
    OBVIOUS
  <2> QED
    BY <1>1, <2>1 DEF Places
<1>3. statev \in Seq(Int) /\ Len(statev) = d.nstatv
  <2>1. d.nstatv * 1 * 1 = d.nstatv
    BY <1>1
  <2> QED
    BY <1>1, <2>1 DEF IsStatev
<1>4. OffsetAt(d, <<1, 1>>) = 0
  <2>1. PointOf(1, 1, 1) = 0
    BY DEF PointOf
  <2>2. d.nstatv * 0 = 0
    BY <1>1
  <2> QED
    BY <1>1, <2>1, <2>2 DEF OffsetAt
<1>5. BlockAt(d, <<1, 1>>, statev) = statev
  <2> DEFINE b == BlockAt(d, <<1, 1>>, statev)  n == d.nstatv
  <2>1. b \in Seq(Int) /\ Len(b) = n /\ \A k \in 1 .. n : b[k] = statev[0 + k]
    BY <1>2, <1>4, BlockOfPlace
  <2>2. statev \in Seq(Int) /\ Len(statev) = n /\ n \in Nat
    BY <1>1, <1>3
  <2> HIDE DEF b, n
  <2>3. b = [k \in 1 .. n |-> b[k]] /\ statev = [k \in 1 .. n |-> statev[k]]
    BY <2>1, <2>2
  <2>4. \A k \in 1 .. n : b[k] = statev[k]
    BY <2>1
  <2>5. b = statev
    BY <2>3, <2>4
  <2> QED
    BY <2>5 DEF b
<1> QED
  BY <1>2, <1>3, <1>5

\* The strains and the rotation a load passes.
LEMMA LoadTyped ==
  ASSUME NEW d, IsArrays(d), d.family # "calculix", NEW l \in d.loads
  PROVE  /\ d.family \in AbaqusFamily /\ IsOrderOf(d, l.order) /\ l.drot \in [1 .. 9 -> Int]
         /\ l.stran \in [1 .. HostWidth(d.family) -> Int] /\ EndArray(l) \in [1 .. HostWidth(d.family) -> Int]
         /\ \A held : Turned(d, l, held) = TurnedBy(d, held, RotationFromBuffer(l.drot))
         /\ \A x : EndStrain(d, l, x) = StrainOf(EndArray(l), d.family, x)
         /\ \A o : StartStrain(d, o, l) = StrainOf(l.stran, d.family, o.out)
         /\ PlaceOf(d, l) = <<1, 1>>
<1>1. /\ d.family \in AbaqusFamily /\ IsOrderOf(d, l.order) /\ HostLoad(d, l)
  BY DEF IsArrays, ArrayParameters, AbaqusFamily
<1>2. /\ l.stran \in [1 .. HostWidth(d.family) -> Int] /\ l.dstran \in [1 .. HostWidth(d.family) -> Int]
      /\ l.drot \in [1 .. 9 -> Int]
  BY <1>1 DEF HostLoad, HostWidth
<1>3. EndArray(l) \in [1 .. HostWidth(d.family) -> Int]
  <2> DEFINE W == 1 .. HostWidth(d.family)
  <2>1. l.stran \in [W -> Int] /\ l.dstran \in [W -> Int]
    BY <1>2
  <2> HIDE DEF W
  <2>2. \A k \in W : l.stran[k] + l.dstran[k] \in Int
    BY <2>1
  <2>3. EndArray(l) \in [W -> Int]
    BY <2>1, <2>2 DEF EndArray
  <2> QED
    BY <2>3 DEF W
<1>4. ASSUME NEW held PROVE Turned(d, l, held) = TurnedBy(d, held, RotationFromBuffer(l.drot))
  <2> DEFINE R == [p \in Tensor2 |-> IF d.family = "calculix" THEN Identity[p] ELSE l.drot[p[1] + 3 * (p[2] - 1)]]
  <2>1. R = RotationFromBuffer(l.drot)
    BY DEF RotationFromBuffer
  <2>2. Turned(d, l, held) = [id \in DOMAIN held |-> RotateEntry(KindOf(d, id), held[id], R)]
    BY DEF Turned
  <2> HIDE DEF R
  <2> QED
    BY <2>1, <2>2 DEF TurnedBy
<1>5. \A x : EndStrain(d, l, x) = StrainOf(EndArray(l), d.family, x)
  BY DEF EndStrain
<1>6. \A o : StartStrain(d, o, l) = StrainOf(l.stran, d.family, o.out)
  BY DEF StartStrain
<1> QED
  BY <1>1, <1>2, <1>3, <1>4, <1>5, <1>6 DEF PlaceOf

\* The stresses and the matrix of a call of Abaqus.
LEMMA TellsMeans ==
  ASSUME NEW d, IsArrays(d), d.family # "calculix", NEW l \in d.loads,
         d.family = "plane_stress" => ExactRow(d) /\ At(d.stiffness, 3, 3) > 0,
         NEW held, NEW R, NEW e0, NEW x, NEW g, NEW w, NEW b,
         Tells(d, d.family, held, R, e0, EndStrain(d, l, x), g, w, b)
  PROVE  CallTells(d, l, w, x)
<1> DEFINE f == d.family  sigma == Contract(Stiffness(d), EndStrain(d, l, x))
<1>1. f \in AbaqusFamily /\ d.stiffness \in [1 .. 36 -> Int]
  BY LoadTyped DEF IsArrays, ArrayParameters
<1>2. /\ w.graph.stress = NarrowVector(StressToBuffer(sigma), f)
      /\ w.graph.tangent = NarrowMatrix(TangentToBuffer(Stiffness(d)), f)
  BY DEF Tells
<1> HIDE DEF sigma
<1>3. /\ DOMAIN NarrowVector(StressToBuffer(sigma), f) = 1 .. HostWidth(f)
      /\ \A n \in 1 .. HostWidth(f) : NarrowVector(StressToBuffer(sigma), f)[n] = sigma[HostComponents(f)[n]]
  BY <1>1, StressAsMeant
<1>4. TangentIsOf(d, l, w.graph.tangent)
  BY <1>1, <1>2, MatrixAsMeant
<1>5. \A n \in DOMAIN w.graph.stress : w.graph.stress[n] = sigma[HostComponents(f)[n]]
  BY <1>2, <1>3
<1> QED
  BY <1>4, <1>5 DEF CallTells, sigma

\* Solids and plane strain.
LEMMA SolidMeans ==
  ASSUME NEW d, IsArrays(d), d.family \in {"solid3d", "plane_strain"}, NEW o, IsStored(d, o), NEW l \in d.loads,
         NEW g, IsGraph(g), g.hist = o, NEW w \in SolidCall(d, l, g, d.family, g.hist.statev), w.end = "returned"
  PROVE  \E v : CallMeans(d, o, l, w, <<1, 1>>, v, 0) /\ CallTells(d, l, w, 0)
<1> DEFINE f == d.family  p == <<1, 1>>  held == o.held[p]  block == o.statev
           R == RotationFromBuffer(l.drot)
           e0 == StrainOf(l.stran, f, 0)  e1 == StrainOf(EndArray(l), f, 0)
           layout == Layout(d, l.order)
<1>1. /\ f # "calculix" /\ f # "plane_stress" /\ f \in AbaqusFamily /\ IsOrderOf(d, l.order)
      /\ l.drot \in [1 .. 9 -> Int]
      /\ l.stran \in [1 .. HostWidth(f) -> Int] /\ EndArray(l) \in [1 .. HostWidth(f) -> Int]
      /\ Turned(d, l, held) = TurnedBy(d, held, R)
      /\ EndStrain(d, l, 0) = e1 /\ StartStrain(d, o, l) = StrainOf(l.stran, f, o.out) /\ PlaceOf(d, l) = p
  <2>1. f # "calculix" /\ f # "plane_stress"
    OBVIOUS
  <2> QED
    BY <2>1, LoadTyped
<1>2. /\ IsStatev(d, block) /\ o.out = 0 /\ IsHistoryOf(d, HostedIds(d), held)
      /\ Places(d) = {p} /\ p \in Places(d) /\ Len(block) = d.nstatv /\ BlockAt(d, p, block) = block
      /\ block \in Seq(Int)
  <2>1. IsStatev(d, block) /\ o.out = 0 /\ \A q \in Places(d) : IsHistoryOf(d, HostedIds(d), o.held[q])
    BY <1>1 DEF IsStored
  <2>2. Places(d) = {p} /\ p \in Places(d) /\ Len(block) = d.nstatv /\ BlockAt(d, p, block) = block
    BY <1>1, <2>1, OnePlace
  <2> QED
    BY <2>1, <2>2 DEF IsStatev
<1>3. MapWidth(layout) <= Len(block) => UnpackHistory(layout, block) = held
  <2> SUFFICES ASSUME MapWidth(layout) <= Len(block) PROVE UnpackHistory(layout, block) = held
    OBVIOUS
  <2>1. Fits(d, layout)
    <3>1. MapWidth(layout) \in Nat
      <4>1. IsLayout(layout)
        BY <1>1, LayoutOfLoad DEF IsLayoutOf
      <4> QED
        BY <4>1, EntryFits
    <3> HIDE DEF layout
    <3>2. MapWidth(layout) + 0 <= d.nstatv
      BY <1>2, <3>1
    <3> QED
      BY <1>1, <3>2 DEF Fits
  <2>2. StateIsHeld(d, o)
    BY <2>1 DEF IsStored
  <2> QED
    BY <1>2, <2>2 DEF StateIsHeld
<1>4. /\ StrainFromBuffer(WidenVector(l.stran, f, 0)) = e0 /\ e0 \in [Tensor2 -> Int]
      /\ StrainFromBuffer(WidenVector(EndArray(l), f, 0)) = e1 /\ e1 \in [Tensor2 -> Int]
  <2>1. 0 \in Int
    OBVIOUS
  <2> HIDE DEF f
  <2> QED
    BY <1>1, <2>1, StrainAsMeant
<1>5. w \in SolidCall(d, l, g, f, block) /\ f \in {"solid3d", "plane_strain"}
  OBVIOUS
<1> HIDE DEF e0, e1, layout, f, held, block
<1>6. PICK v : Tells(d, f, held, R, e0, e1, g, w, v) /\ Stored(d, l, held, R, e0, e1, block, v)
  BY <1>1, <1>2, <1>3, <1>4, <1>5, SolidCallTells DEF layout
<1>7. StartStrain(d, o, l) = e0
  BY <1>1, <1>2 DEF e0
<1>8. New(d, o, l, p, 0) = Responds(d, TurnedBy(d, held, R), e0, e1).hist
  BY <1>1, <1>7 DEF New, held
<1>9. IsStatev(d, v) /\ BlockAt(d, p, v) = v
  <2>1. v \in Seq(Int) /\ Len(v) = Len(block)
    BY <1>6 DEF Stored
  <2>2. IsStatev(d, v)
    BY <1>2, <2>1 DEF IsStatev
  <2> QED
    BY <1>1, <2>2, OnePlace DEF f
<1>10. Fits(d, layout)
  <2>1. MapWidth(layout) <= d.nstatv
    BY <1>2, <1>6 DEF Stored, layout
  <2>2. MapWidth(layout) \in Nat
    <3>1. IsLayout(layout)
      BY <1>1, LayoutOfLoad DEF IsLayoutOf, layout
    <3> QED
      BY <3>1, EntryFits
  <2>3. MapWidth(layout) + 0 <= d.nstatv
    BY <2>1, <2>2
  <2> QED
    BY <1>1, <2>3 DEF Fits, f
<1>11. w.graph.hist = [o EXCEPT !.statev = v]
  BY <1>6 DEF Tells
<1>12. Relaxed(d, EndStrain(d, l, 0)) = EndStrain(d, l, 0)
  BY <1>1 DEF Relaxed, f
<1>13. /\ IsHistoryOf(d, HostedIds(d), New(d, o, l, p, 0))
       /\ Keeps(Layout(d, l.order), BlockAt(d, p, v), New(d, o, l, p, 0))
  BY <1>6, <1>8, <1>9 DEF Stored
<1>14. CallMeans(d, o, l, w, p, v, 0)
  <2>1. Fits(d, Layout(d, l.order))
    BY <1>10 DEF layout
  <2>2. d.family # "plane_stress" /\ 0 \in Int
    BY <1>1 DEF f
  <2>3. \A q \in Places(d) : q # p => BlockAt(d, q, v) = BlockAt(d, q, o.statev)
    BY <1>2
  <2>4. p = PlaceOf(d, l) /\ p \in Places(d)
    BY <1>1, <1>2
  <2>5. IsStatev(d, v)
    BY <1>9
  <2> HIDE DEF p
  <2> QED
    BY <1>11, <1>12, <1>13, <2>1, <2>2, <2>3, <2>4, <2>5 DEF CallMeans
<1>15. CallTells(d, l, w, 0)
  BY <1>1, <1>6, TellsMeans DEF f
<1> QED
  BY <1>14, <1>15

\* Plane stress.
LEMMA PlaneStressMeans ==
  ASSUME NEW d, IsArrays(d), d.family = "plane_stress", ExactRow(d), NEW o, IsStored(d, o), NEW l \in d.loads,
         NEW g, IsGraph(g), g.hist = o, NEW w \in PlaneStressCall(d, l, g, g.hist.statev), w.end = "returned"
  PROVE  \E v, x : CallMeans(d, o, l, w, <<1, 1>>, v, x) /\ CallTells(d, l, w, x)
<1> DEFINE f == "plane_stress"  p == <<1, 1>>  held == o.held[p]  block == o.statev
           R == RotationFromBuffer(l.drot)
           e0 == StrainOf(l.stran, f, o.out)  E(x) == StrainOf(EndArray(l), f, x)
           layout == Layout(d, l.order)  slot == MapWidth(layout) + 1
<1>1. /\ d.family = f /\ f \in AbaqusFamily /\ IsOrderOf(d, l.order)
      /\ l.drot \in [1 .. 9 -> Int]
      /\ l.stran \in [1 .. HostWidth(f) -> Int] /\ EndArray(l) \in [1 .. HostWidth(f) -> Int]
      /\ Turned(d, l, held) = TurnedBy(d, held, R)
      /\ StartStrain(d, o, l) = e0 /\ PlaceOf(d, l) = p
      /\ \A x : EndStrain(d, l, x) = E(x)
  <2>1. d.family # "calculix"
    OBVIOUS
  <2> QED
    BY <2>1, LoadTyped
<1>2. /\ IsStatev(d, block) /\ o.out \in Int /\ IsHistoryOf(d, HostedIds(d), held)
      /\ Places(d) = {p} /\ p \in Places(d) /\ Len(block) = d.nstatv /\ BlockAt(d, p, block) = block
      /\ block \in Seq(Int)
  <2>1. IsStatev(d, block) /\ o.out \in Int /\ \A q \in Places(d) : IsHistoryOf(d, HostedIds(d), o.held[q])
    BY DEF IsStored
  <2>2. Places(d) = {p} /\ p \in Places(d) /\ Len(block) = d.nstatv /\ BlockAt(d, p, block) = block
    <3>1. d.family # "calculix"
      OBVIOUS
    <3> QED
      BY <2>1, <3>1, OnePlace
  <2> QED
    BY <2>1, <2>2 DEF IsStatev
<1>3. slot <= Len(block) => UnpackHistory(layout, block) = held /\ block[slot] = o.out
  <2> SUFFICES ASSUME slot <= Len(block) PROVE UnpackHistory(layout, block) = held /\ block[slot] = o.out
    OBVIOUS
  <2>1. Fits(d, layout)
    BY <1>2 DEF Fits
  <2>2. StateIsHeld(d, o)
    BY <2>1 DEF IsStored
  <2>3. /\ UnpackHistory(layout, BlockAt(d, p, o.statev)) = held
        /\ BlockAt(d, p, o.statev)[MapWidth(layout) + 1] = o.out
    <3> HIDE DEF layout, p
    <3> QED
      BY <1>1, <1>2, <2>2 DEF StateIsHeld, layout, f
  <2> QED
    BY <1>2, <2>3
<1>4. At(d.stiffness, 3, 3) \in Nat /\ d.stiffness \in [1 .. 36 -> Int]
  BY DEF ExactRow, IsArrays, ArrayParameters
<1>5. w \in PlaneStressCall(d, l, g, block)
  OBVIOUS
<1> HIDE DEF held, block, R
<1>6. PICK v, x : /\ x \in Int /\ At(d.stiffness, 3, 3) # 0 /\ Contract(Stiffness(d), E(x))[<<3, 3>>] = 0
                  /\ slot <= Len(block) /\ v[slot] = x
                  /\ Tells(d, f, held, R, e0, E(x), g, w, v)
                  /\ Stored(d, l, held, R, e0, E(x), block, v)
  BY <1>1, <1>2, <1>3, <1>4, <1>5, PlaneStressTells DEF R
<1>7. E(x) = OutOf(E(0), x) /\ E(0)[<<3, 3>>] = 0 /\ E(0) \in [Tensor2 -> Int] /\ E(x)[<<3, 3>>] = x
  <2>1. E(x) = OutOf(E(0), x) /\ E(0)[<<3, 3>>] = 0
    BY <1>1, <1>6, OutOfPlane
  <2>2. E(0) \in [Tensor2 -> Int]
    <3>1. 0 \in Int
      OBVIOUS
    <3> HIDE DEF f
    <3> QED
      BY <1>1, <3>1, StrainAsMeant
  <2>3. <<3, 3>> \in Tensor2
    BY DEF Tensor2, Axis
  <2> HIDE DEF E
  <2>4. OutOf(E(0), x)[<<3, 3>>] = x
    BY <2>2, <2>3 DEF OutOf
  <2> QED
    BY <2>1, <2>2, <2>4
<1>8. Relaxed(d, E(0)) = E(x)
  <2>1. At(d.stiffness, 3, 3) \in Nat \ {0}
    BY <1>4, <1>6
  <2> HIDE DEF E
  <2>2. Contract(Stiffness(d), OutOf(E(0), x))[<<3, 3>>] = 0
    BY <1>6, <1>7
  <2>3. Relaxed(d, E(0)) = OutOf(E(0), x)
    BY <1>4, <1>6, <1>7, <2>1, <2>2, RelaxedStress
  <2> QED
    BY <1>7, <2>3
<1> HIDE DEF E, e0, slot, layout, f
<1>9. New(d, o, l, p, x) = Responds(d, TurnedBy(d, held, R), e0, E(x)).hist
  BY <1>1 DEF New, held
<1>10. IsStatev(d, v) /\ BlockAt(d, p, v) = v
  <2>1. v \in Seq(Int) /\ Len(v) = Len(block)
    BY <1>6 DEF Stored
  <2>2. IsStatev(d, v)
    BY <1>2, <2>1 DEF IsStatev
  <2>3. d.family # "calculix"
    OBVIOUS
  <2> QED
    BY <2>2, <2>3, OnePlace
<1>11. Fits(d, Layout(d, l.order))
  BY <1>2, <1>6 DEF Fits, slot, layout
<1>12. w.graph.hist = [o EXCEPT !.statev = v]
  BY <1>6 DEF Tells
<1>13. /\ IsHistoryOf(d, HostedIds(d), New(d, o, l, p, x))
       /\ Keeps(Layout(d, l.order), BlockAt(d, p, v), New(d, o, l, p, x))
  BY <1>6, <1>9, <1>10 DEF Stored
<1>14. BlockAt(d, p, v)[MapWidth(Layout(d, l.order)) + 1] = x
  BY <1>6, <1>10 DEF slot, layout
<1>15. CallMeans(d, o, l, w, p, v, x)
  <2>1. Relaxed(d, EndStrain(d, l, 0)) = EndStrain(d, l, x) /\ EndStrain(d, l, x)[<<3, 3>>] = x
    BY <1>1, <1>7, <1>8
  <2>2. \A q \in Places(d) : q # p => BlockAt(d, q, v) = BlockAt(d, q, o.statev)
    BY <1>2
  <2>3. p = PlaceOf(d, l) /\ p \in Places(d)
    BY <1>1, <1>2
  <2>4. IsStatev(d, v) /\ x \in Int
    BY <1>6, <1>10
  <2> HIDE DEF p
  <2> QED
    BY <1>11, <1>12, <1>13, <1>14, <2>1, <2>2, <2>3, <2>4 DEF CallMeans
<1>16. CallTells(d, l, w, x)
  <2>1. At(d.stiffness, 3, 3) > 0
    BY <1>4, <1>6
  <2>2. Tells(d, d.family, held, R, e0, EndStrain(d, l, x), g, w, v) /\ d.family # "calculix"
    BY <1>1, <1>6
  <2> QED
    BY <2>1, <2>2, TellsMeans
<1> QED
  BY <1>15, <1>16

-----------------------------------------------------------------------------
(***************************************************************************)
(* The calls of CalculiX.                                                  *)
(***************************************************************************)
\* What a load of CalculiX passes, and where.
LEMMA CalculixLoadTyped ==
  ASSUME NEW d, IsArrays(d), d.family = "calculix", NEW l \in d.loads, Located(d, l)
  PROVE  /\ IsOrderOf(d, l.order) /\ l.emec0 \in [1 .. 6 -> Int] /\ l.emec \in [1 .. 6 -> Int]
         /\ PlaceOf(d, l) \in Places(d) /\ PlaceOf(d, l) = <<l.iint, l.iel>>
         /\ PointOffset(d, l) = OffsetAt(d, PlaceOf(d, l))
         /\ \A statev : Block(d, l, statev) = BlockAt(d, PlaceOf(d, l), statev)
         /\ \A held : Turned(d, l, held) = TurnedBy(d, held, Identity)
         /\ \A o : StartStrain(d, o, l) = StrainOf(l.emec0, "calculix", 0)
         /\ \A x : EndStrain(d, l, x) = StrainOf(l.emec, "calculix", 0)
         /\ HostComponents(d.family) = HostComponents("solid3d")
<1>1. IsOrderOf(d, l.order) /\ HostLoad(d, l) /\ d.nstatv \in Nat /\ d.mi1 \in Nat /\ d.elements \in Nat
  BY DEF IsArrays, ArrayParameters
<1>2. /\ l.emec0 \in [1 .. 6 -> Int] /\ l.emec \in [1 .. 6 -> Int] /\ l.iint \in Int /\ l.iel \in Int
      /\ l.iel <= d.elements /\ (d.nstatv = 0 => <<l.iint, l.iel>> \in Places(d))
  BY <1>1 DEF HostLoad
<1>3. PlaceOf(d, l) = <<l.iint, l.iel>>
  BY DEF PlaceOf
<1>4. <<l.iint, l.iel>> \in Places(d)
  <2>1. CASE d.nstatv = 0
    BY <1>2, <2>1
  <2>2. CASE d.nstatv > 0
    <3>1. l.iel >= 1 /\ l.iint \in 1 .. d.mi1
      BY <2>2 DEF Located
    <3>2. l.iel \in 1 .. d.elements
      BY <1>1, <1>2, <3>1
    <3> QED
      BY <3>1, <3>2 DEF Places
  <2> QED
    BY <1>1, <2>1, <2>2
<1>5. PointOffset(d, l) = OffsetAt(d, PlaceOf(d, l))
  BY <1>3 DEF PointOffset, OffsetAt, PointOf
<1>6. \A statev : Block(d, l, statev) = BlockAt(d, PlaceOf(d, l), statev)
  <2> DEFINE p == PlaceOf(d, l)
  <2>1. \A statev : BlockAt(d, p, statev) = SubSeq(statev, OffsetAt(d, p) + 1, OffsetAt(d, p) + d.nstatv)
    BY DEF BlockAt, Block, PointOffset, OffsetAt, PointOf
  <2>2. \A statev : Block(d, l, statev) = SubSeq(statev, PointOffset(d, l) + 1, PointOffset(d, l) + d.nstatv)
    BY DEF Block
  <2> QED
    BY <1>5, <2>1, <2>2
<1>7. ASSUME NEW held PROVE Turned(d, l, held) = TurnedBy(d, held, Identity)
  <2> DEFINE R == [p \in Tensor2 |-> IF d.family = "calculix" THEN Identity[p] ELSE l.drot[p[1] + 3 * (p[2] - 1)]]
  <2>1. R = Identity
    <3>1. R = [p \in Tensor2 |-> Identity[p]]
      OBVIOUS
    <3>2. Identity = [p \in Tensor2 |-> Identity[p]]
      BY IdentityFacts
    <3> QED
      BY <3>1, <3>2
  <2>2. Turned(d, l, held) = [id \in DOMAIN held |-> RotateEntry(KindOf(d, id), held[id], R)]
    BY DEF Turned
  <2> HIDE DEF R
  <2> QED
    BY <2>1, <2>2 DEF TurnedBy
<1>8. /\ \A o : StartStrain(d, o, l) = StrainOf(l.emec0, "calculix", 0)
      /\ \A x : EndStrain(d, l, x) = StrainOf(l.emec, "calculix", 0)
  BY DEF StartStrain, EndStrain
<1>9. HostComponents(d.family) = HostComponents("solid3d")
  BY DEF HostComponents
<1> QED
  BY <1>1, <1>2, <1>3, <1>4, <1>5, <1>6, <1>7, <1>8, <1>9

\* CalculiX.
LEMMA CalculixMeans ==
  ASSUME NEW d, IsArrays(d), d.family = "calculix", NEW o, IsStored(d, o), NEW l \in d.loads,
         NEW g, IsGraph(g), g.hist = o, NEW w \in CalculixCall(d, l, g), w.end = "returned"
  PROVE  \E v : CallMeans(d, o, l, w, PlaceOf(d, l), v, 0) /\ CallTells(d, l, w, 0)
<1> DEFINE stran == ToEngineering(l.emec0)
           arrays == [order |-> l.order, drot |-> NoRotation, stran |-> stran,
                      dstran |-> [k \in 1 .. 6 |-> ToEngineering(l.emec)[k] - stran[k]]]
           statev(u) == Overwritten(d, l, g.hist.statev, u.graph.hist.statev)
           tangent(u) == IF u.end # "returned" \/ l.stressOnly THEN 0 ELSE PackedStiffness(u.graph.tangent)
           whole(u) == [u EXCEPT !.graph.hist.statev = statev(u), !.graph.tangent = tangent(u)]
           block == Block(d, l, g.hist.statev)
           h == [g EXCEPT !.hist.statev = block]
           p == PlaceOf(d, l)  held == o.held[p]
           e0 == StrainOf(l.emec0, "calculix", 0)  e1 == StrainOf(l.emec, "calculix", 0)
           layout == Layout(d, l.order)
<1>1. Located(d, l) /\ w \in {whole(u) : u \in SolidCall(d, arrays, h, "solid3d", block)}
  <2>1. w \in IF Unsupported(l) \/ ~Located(d, l) THEN Refused(g)
              ELSE {whole(u) : u \in SolidCall(d, arrays, h, "solid3d", block)}
    BY DEF CalculixCall
  <2> HIDE DEF whole, arrays, h, block
  <2> QED
    BY <2>1, NoReturn
<1>2. /\ IsOrderOf(d, l.order) /\ l.emec0 \in [1 .. 6 -> Int] /\ l.emec \in [1 .. 6 -> Int]
      /\ p \in Places(d) /\ PointOffset(d, l) = OffsetAt(d, p)
      /\ \A s : Block(d, l, s) = BlockAt(d, p, s)
      /\ Turned(d, l, held) = TurnedBy(d, held, Identity)
      /\ StartStrain(d, o, l) = e0 /\ \A x : EndStrain(d, l, x) = e1
      /\ HostComponents(d.family) = HostComponents("solid3d")
  BY <1>1, CalculixLoadTyped
<1>3. IsStatev(d, o.statev) /\ IsHistoryOf(d, HostedIds(d), held) /\ block = BlockAt(d, p, o.statev)
  BY <1>2 DEF IsStored
<1>4. block \in Seq(Int) /\ Len(block) = d.nstatv
  BY <1>2, <1>3, BlockOfPlace
<1>5. PICK u \in SolidCall(d, arrays, h, "solid3d", block) : w = whole(u)
  <2> HIDE DEF whole, arrays, h, block
  <2> QED
    BY <1>1
<1>6. HasFields(h, u)
  <2> HIDE DEF arrays, h, block
  <2> QED
    BY SolidFields
<1>7. /\ arrays.order = l.order /\ arrays.drot = NoRotation /\ arrays.stran = ToEngineering(l.emec0)
      /\ EndArray(arrays) = ToEngineering(l.emec)
  <2>1. ToEngineering(l.emec) \in [1 .. 6 -> Int] /\ stran \in [1 .. 6 -> Int]
    BY <1>2, CalculixStrain
  <2> DEFINE end == ToEngineering(l.emec)
  <2>2. arrays.order = l.order /\ arrays.drot = NoRotation /\ arrays.stran = stran
        /\ arrays.dstran = [k \in 1 .. 6 |-> end[k] - stran[k]]
    OBVIOUS
  <2> HIDE DEF end, stran, arrays
  <2>3. EndArray(arrays) = [k \in 1 .. 6 |-> stran[k] + arrays.dstran[k]]
    BY <2>1, <2>2 DEF EndArray
  <2>4. \A k \in 1 .. 6 : stran[k] + arrays.dstran[k] = end[k]
    <3> SUFFICES ASSUME NEW k \in 1 .. 6 PROVE stran[k] + arrays.dstran[k] = end[k]
      OBVIOUS
    <3>1. stran[k] \in Int /\ end[k] \in Int /\ arrays.dstran[k] = end[k] - stran[k]
      BY <2>1, <2>2 DEF end
    <3> QED
      BY <3>1
  <2>5. EndArray(arrays) = end
    BY <2>1, <2>3, <2>4 DEF end
  <2> QED
    BY <2>2, <2>5 DEF end, stran
<1>8. /\ StrainFromBuffer(WidenVector(arrays.stran, "solid3d", 0)) = e0 /\ e0 \in [Tensor2 -> Int]
      /\ StrainFromBuffer(WidenVector(EndArray(arrays), "solid3d", 0)) = e1 /\ e1 \in [Tensor2 -> Int]
  <2> HIDE DEF arrays
  <2> QED
    BY <1>2, <1>7, CalculixStrain
<1>9. MapWidth(layout) \in Nat
  <2>1. IsLayout(layout)
    BY <1>2, LayoutOfLoad DEF IsLayoutOf
  <2> QED
    BY <2>1, EntryFits
<1>10. MapWidth(layout) <= Len(block) => Fits(d, layout) /\ UnpackHistory(layout, block) = held
  <2> SUFFICES ASSUME MapWidth(layout) <= Len(block) PROVE Fits(d, layout) /\ UnpackHistory(layout, block) = held
    OBVIOUS
  <2>1. MapWidth(layout) + 0 <= d.nstatv
    <3> HIDE DEF layout, block
    <3> QED
      BY <1>4, <1>9
  <2>2. Fits(d, layout)
    BY <2>1 DEF Fits
  <2>3. StateIsHeld(d, o)
    BY <2>2 DEF IsStored
  <2>4. UnpackHistory(layout, BlockAt(d, p, o.statev)) = held
    <3> HIDE DEF p
    <3> QED
      BY <1>2, <2>3 DEF StateIsHeld
  <2> QED
    BY <1>3, <2>2, <2>4
<1>11. IsGraph(h) /\ h.hist = [o EXCEPT !.statev = block] /\ DOMAIN h = DOMAIN g
  <2> HIDE DEF block
  <2> QED
    BY DEF IsGraph
<1>12. u.end = "returned" /\ w.graph.hist = [u.graph.hist EXCEPT !.statev = statev(u)]
       /\ w.graph.stress = u.graph.stress /\ w.graph.tangent = tangent(u)
  <2> DEFINE s == statev(u)  t == tangent(u)
  <2>1. w = [u EXCEPT !.graph.hist.statev = s, !.graph.tangent = t]
    BY <1>5
  <2>2. {"end", "graph"} \subseteq DOMAIN u /\ {"hist", "stress", "tangent"} \subseteq DOMAIN u.graph
    BY <1>6, <1>11 DEF HasFields, IsGraph
  <2> HIDE DEF s, t
  <2>3. /\ w.end = u.end /\ w.graph = [u.graph EXCEPT !.hist.statev = s, !.tangent = t]
    BY <2>1, <2>2
  <2>4. w.graph.hist = [u.graph.hist EXCEPT !.statev = s] /\ w.graph.stress = u.graph.stress /\ w.graph.tangent = t
    BY <2>2, <2>3
  <2> QED
    BY <2>3, <2>4 DEF s, t
<1>13. arrays.drot \in [1 .. 9 -> Int] /\ RotationFromBuffer(arrays.drot) = Identity
  BY <1>7, RotationTyped
<1> HIDE DEF arrays, h, block, held, e0, e1, statev, tangent, whole, layout, p
<1>14. PICK b : /\ Tells(d, "solid3d", held, RotationFromBuffer(arrays.drot), e0, e1, h, u, b)
                /\ Stored(d, arrays, held, RotationFromBuffer(arrays.drot), e0, e1, block, b)
  <2>1. IsOrderOf(d, arrays.order) /\ Layout(d, arrays.order) = layout
    BY <1>2, <1>7 DEF layout
  <2>2. MapWidth(Layout(d, arrays.order)) <= Len(block) => UnpackHistory(Layout(d, arrays.order), block) = held
    BY <1>10, <2>1
  <2>3. "solid3d" \in {"solid3d", "plane_strain"}
    OBVIOUS
  <2> QED
    BY <1>3, <1>4, <1>5, <1>8, <1>11, <1>12, <1>13, <2>1, <2>2, <2>3, SolidCallTells
<1> DEFINE v == Overwritten(d, l, o.statev, b)
<1>15. /\ b \in Seq(Int) /\ Len(b) = d.nstatv /\ Fits(d, layout)
       /\ New(d, o, l, p, 0) = Responds(d, TurnedBy(d, held, Identity), e0, e1).hist
       /\ IsHistoryOf(d, HostedIds(d), New(d, o, l, p, 0)) /\ Keeps(layout, b, New(d, o, l, p, 0))
  <2>1. Layout(d, arrays.order) = layout
    BY <1>7 DEF layout
  <2>2. New(d, o, l, p, 0) = Responds(d, TurnedBy(d, held, Identity), e0, e1).hist
    BY <1>2 DEF New, held, p
  <2>3. /\ b \in Seq(Int) /\ Len(b) = Len(block) /\ MapWidth(layout) <= Len(block)
        /\ IsHistoryOf(d, HostedIds(d), New(d, o, l, p, 0)) /\ Keeps(layout, b, New(d, o, l, p, 0))
    BY <1>13, <1>14, <2>1, <2>2 DEF Stored
  <2> QED
    BY <1>4, <1>10, <2>2, <2>3
<1>16. w.graph.hist = [o EXCEPT !.statev = v]
  <2>1. u.graph.hist = [h.hist EXCEPT !.statev = b]
    BY <1>14 DEF Tells
  <2>2. u.graph.hist = [o EXCEPT !.statev = b] /\ "statev" \in DOMAIN o
    BY <1>11, <2>1 DEF IsStored
  <2>3. u.graph.hist.statev = b
    BY <2>2
  <2>4. statev(u) = v
    BY <2>3 DEF statev
  <2> HIDE DEF v
  <2>5. w.graph.hist = [[o EXCEPT !.statev = b] EXCEPT !.statev = v]
    BY <1>12, <2>2, <2>4
  <2> QED
    BY <2>5
<1>17. /\ IsStatev(d, v) /\ BlockAt(d, p, v) = b
       /\ \A q \in Places(d) : q # p => BlockAt(d, q, v) = BlockAt(d, q, o.statev)
  BY <1>2, <1>3, <1>15, OverwrittenAt
<1> HIDE DEF v
<1>18. CallMeans(d, o, l, w, p, v, 0)
  <2>1. Relaxed(d, EndStrain(d, l, 0)) = EndStrain(d, l, 0)
    BY DEF Relaxed
  <2>2. d.family # "plane_stress" /\ 0 \in Int
    OBVIOUS
  <2>3. p = PlaceOf(d, l)
    BY DEF p
  <2> QED
    BY <1>2, <1>15, <1>16, <1>17, <2>1, <2>2, <2>3 DEF CallMeans, layout
<1>19. CallTells(d, l, w, 0)
  <2> DEFINE sigma == Contract(Stiffness(d), EndStrain(d, l, 0))
  <2>1. /\ u.graph.stress = NarrowVector(StressToBuffer(sigma), "solid3d")
        /\ u.graph.tangent = NarrowMatrix(TangentToBuffer(Stiffness(d)), "solid3d")
    BY <1>2, <1>14 DEF Tells
  <2> HIDE DEF sigma
  <2>2. /\ DOMAIN NarrowVector(StressToBuffer(sigma), "solid3d") = 1 .. HostWidth("solid3d")
        /\ \A n \in 1 .. HostWidth("solid3d") :
             NarrowVector(StressToBuffer(sigma), "solid3d")[n] = sigma[HostComponents("solid3d")[n]]
    BY StressAsMeant DEF AbaqusFamily
  <2>3. \A n \in DOMAIN w.graph.stress : w.graph.stress[n] = sigma[HostComponents(d.family)[n]]
    <3> DEFINE s == NarrowVector(StressToBuffer(sigma), "solid3d")  c == HostComponents("solid3d")
    <3>1. DOMAIN s = 1 .. HostWidth("solid3d") /\ \A n \in 1 .. HostWidth("solid3d") : s[n] = sigma[c[n]]
      BY <2>2
    <3>2. w.graph.stress = s /\ HostComponents(d.family) = c
      BY <1>2, <1>12, <2>1
    <3> HIDE DEF s, c
    <3> QED
      BY <3>1, <3>2
  <2>4. TangentIsOf(d, l, w.graph.tangent)
    <3>1. CASE l.stressOnly
      BY <3>1 DEF TangentIsOf
    <3>2. CASE ~ l.stressOnly
      <4>1. w.graph.tangent = PackedStiffness(u.graph.tangent)
        BY <1>12, <3>2 DEF tangent
      <4>2. d.stiffness \in [1 .. 36 -> Int]
        BY DEF IsArrays, ArrayParameters
      <4> QED
        BY <2>1, <4>1, <4>2, PackedAsMeant
    <3> QED
      BY <3>1, <3>2
  <2> QED
    BY <2>3, <2>4 DEF CallTells, sigma
<1> QED
  BY <1>18, <1>19 DEF p

-----------------------------------------------------------------------------
(***************************************************************************)
(* What a call that returns leaves, and what a constructed material starts *)
(* with.                                                                   *)
(***************************************************************************)
\* A call that returns carries the tensors.
LEMMA ArrayReturns ==
  ASSUME NEW d, IsArrays(d), d.family = "plane_stress" => ExactRow(d), NEW o, IsStored(d, o), NEW l \in d.loads,
         NEW g, IsGraph(g), g.hist = o, NEW out \in ArrayCompute(d, o, g, l), out.end = "returned"
  PROVE  IsStored(d, out.graph.hist) /\ CarryTensors(d, o, l, out.graph)
<1> DEFINE M == Meant(d, o, l)
           meant(w) == [w EXCEPT !.graph.hist.held = M.held, !.graph.hist.out = M.out]
<1>1. PICK w \in ArrayCall(d, l, g) : out = IF w.end = "returned" THEN meant(w) ELSE w
  BY DEF ArrayCompute
<1>2. w.end = "returned" /\ out = meant(w)
  <2> HIDE DEF meant
  <2> QED
    BY <1>1
<1>3. \E p, v, x : CallMeans(d, o, l, w, p, v, x) /\ CallTells(d, l, w, x)
  <2>1. d.family \in {"solid3d", "plane_strain", "plane_stress", "calculix"}
    BY DEF IsArrays, ArrayParameters
  <2>2. CASE d.family = "calculix"
    <3>1. w \in CalculixCall(d, l, g)
      BY <1>1, <2>2 DEF ArrayCall
    <3>2. \E v : CallMeans(d, o, l, w, PlaceOf(d, l), v, 0) /\ CallTells(d, l, w, 0)
      BY <1>2, <2>2, <3>1, CalculixMeans
    <3> QED
      BY <3>2
  <2>3. CASE d.family = "plane_stress"
    <3>1. w \in PlaneStressCall(d, l, g, g.hist.statev)
      BY <1>1, <2>3 DEF ArrayCall
    <3>2. \E v, x : CallMeans(d, o, l, w, <<1, 1>>, v, x) /\ CallTells(d, l, w, x)
      BY <1>2, <2>3, <3>1, PlaneStressMeans
    <3> QED
      BY <3>2
  <2>4. CASE d.family \in {"solid3d", "plane_strain"}
    <3>1. w \in SolidCall(d, l, g, d.family, g.hist.statev)
      BY <1>1, <2>4 DEF ArrayCall
    <3>2. \E v : CallMeans(d, o, l, w, <<1, 1>>, v, 0) /\ CallTells(d, l, w, 0)
      BY <1>2, <2>4, <3>1, SolidMeans
    <3> QED
      BY <3>2
  <2> QED
    BY <2>1, <2>2, <2>3, <2>4
<1>4. PICK p, v, x : CallMeans(d, o, l, w, p, v, x) /\ CallTells(d, l, w, x)
  BY <1>3
<1>5. w.graph.hist = [o EXCEPT !.statev = v] /\ p = PlaceOf(d, l)
  BY <1>4 DEF CallMeans
<1>6. {"end", "graph"} \subseteq DOMAIN w /\ {"hist", "stress", "tangent"} \subseteq DOMAIN w.graph
  <2>1. "hist" \in DOMAIN g
    BY DEF IsGraph
  <2>2. HasFields(g, w)
    BY <2>1, CallFields
  <2> QED
    BY <2>2 DEF HasFields, IsGraph
<1> HIDE DEF M
<1>7. /\ out.graph.hist = [w.graph.hist EXCEPT !.held = M.held, !.out = M.out]
      /\ out.graph.stress = w.graph.stress /\ out.graph.tangent = w.graph.tangent
  <2>1. out.graph = [w.graph EXCEPT !.hist.held = M.held, !.hist.out = M.out]
    BY <1>2, <1>6
  <2> QED
    BY <1>6, <2>1
<1>8. out.graph.hist = [[o EXCEPT !.statev = v] EXCEPT !.held = M.held, !.out = M.out]
  BY <1>5, <1>7
<1>9. IsStored(d, out.graph.hist) /\ StateIsHeld(d, out.graph.hist) /\ out.graph.hist.out = x
  <2> DEFINE hist == out.graph.hist
  <2>1. Taken(d, o, l, v, hist)
    BY <1>8 DEF M, Taken
  <2> HIDE DEF hist
  <2>2. IsStored(d, hist) /\ StateIsHeld(d, hist) /\ hist.out = x
    BY <1>4, <2>1, StoredAgain
  <2> QED
    BY <2>2 DEF hist
<1>10. /\ \A n \in DOMAIN out.graph.stress :
            out.graph.stress[n] = Contract(Stiffness(d), EndStrain(d, l, x))[HostComponents(d.family)[n]]
       /\ TangentIsOf(d, l, out.graph.tangent)
  BY <1>4, <1>7 DEF CallTells
<1>11. \A h, e0, e1 : Responds(d, h, e0, e1).stress = Contract(Stiffness(d), e1)
  BY DEF Responds
<1> QED
  BY <1>9, <1>10, <1>11 DEF CarryTensors

\* Nothing is stored as zeros.
LEMMA ZeroStored ==
  ASSUME NEW kind \in StateKind
  PROVE  /\ Zero(kind) \in KindValue(kind) /\ Storable(kind, Zero(kind))
         /\ \A a \in 1 .. KindWidth(kind) : PackEntry(kind, Zero(kind))[a] = 0
<1>1. /\ Nothing(Tensor2) \in [Tensor2 -> Int] /\ Nothing(Tensor4) \in [Tensor4 -> Int]
      /\ (\A p \in Tensor2 : Nothing(Tensor2)[p] = 0) /\ (\A q \in Tensor4 : Nothing(Tensor4)[q] = 0)
  BY DEF Nothing
<1>2. CASE kind = "scalar"
  <2>1. Zero(kind) = 0 /\ KindValue(kind) = Int /\ KindWidth(kind) = 1 /\ PackEntry(kind, 0) = <<0>>
    BY <1>2 DEF Zero, KindValue, KindWidth, PackEntry
  <2>2. Storable(kind, 0)
    BY <1>2 DEF Storable
  <2> QED
    BY <2>1, <2>2
<1>3. CASE kind \in {"stress", "strain"}
  <2>1. /\ Zero(kind) = Nothing(Tensor2) /\ KindValue(kind) = [Tensor2 -> Int] /\ KindWidth(kind) = 6
    BY <1>3 DEF Zero, KindValue, KindWidth
  <2>2. Storable(kind, Nothing(Tensor2))
    <3>1. \A p \in Tensor2 : <<p[2], p[1]>> \in Tensor2
      BY DEF Tensor2
    <3> QED
      BY <1>1, <1>3, <3>1 DEF Storable
  <2>3. \A a \in 1 .. 6 : PackEntry(kind, Nothing(Tensor2))[a] = 0
    <3> SUFFICES ASSUME NEW a \in 1 .. 6 PROVE PackEntry(kind, Nothing(Tensor2))[a] = 0
      OBVIOUS
    <3> DEFINE z == Nothing(Tensor2)
    <3>1. Slot[a] \in Tensor2
      BY SlotFacts
    <3>2. z[Slot[a]] = 0
      BY <1>1, <3>1
    <3> HIDE DEF z
    <3>3. kind = "stress" => PackEntry(kind, z)[a] = z[Slot[a]]
      BY DEF PackEntry, StressToBuffer
    <3>4. kind = "strain" => PackEntry(kind, z)[a] = IF IsShear(a) THEN 2 * z[Slot[a]] ELSE z[Slot[a]]
      BY DEF PackEntry, StrainToBuffer
    <3>5. PackEntry(kind, z)[a] = 0
      BY <1>3, <3>2, <3>3, <3>4
    <3> QED
      BY <3>5 DEF z
  <2> QED
    BY <1>1, <2>1, <2>2, <2>3
<1>4. CASE kind = "tangent"
  <2> DEFINE z == Nothing(Tensor4)
  <2>1. /\ Zero(kind) = z /\ KindValue(kind) = [Tensor4 -> Int] /\ KindWidth(kind) = 36
        /\ PackEntry(kind, z) = TangentToBuffer(z)
    BY <1>4 DEF Zero, KindValue, KindWidth, PackEntry
  <2>2. Storable(kind, z)
    <3>1. \A q \in Tensor4 : <<q[2], q[1], q[3], q[4]>> \in Tensor4 /\ <<q[1], q[2], q[4], q[3]>> \in Tensor4
      BY DEF Tensor4
    <3> QED
      BY <1>1, <1>4, <3>1 DEF Storable
  <2>3. \A a \in 1 .. 36 : TangentToBuffer(z)[a] = 0
    <3> SUFFICES ASSUME NEW a \in 1 .. 36 PROVE TangentToBuffer(z)[a] = 0
      OBVIOUS
    <3> DEFINE i == ((a - 1) \div 6) + 1  j == ((a - 1) % 6) + 1
    <3>1. i \in 1 .. 6 /\ j \in 1 .. 6
      OBVIOUS
    <3>2. TangentToBuffer(z)[a] = z[<<Slot[i][1], Slot[i][2], Slot[j][1], Slot[j][2]>>]
      <4> HIDE DEF z
      <4> QED
        BY DEF TangentToBuffer
    <3> HIDE DEF i, j
    <3>3. Slot[i] \in Tensor2 /\ Slot[j] \in Tensor2
      BY <3>1, SlotFacts
    <3>4. <<Slot[i][1], Slot[i][2], Slot[j][1], Slot[j][2]>> \in Tensor4
      BY <3>3 DEF Tensor2, Tensor4
    <3> QED
      BY <1>1, <3>2, <3>4
  <2> QED
    BY <1>1, <2>1, <2>2, <2>3
<1> QED
  BY <1>2, <1>3, <1>4 DEF StateKind

\* A host starts with zeros, which is what is held.
LEMMA StartStored ==
  ASSUME NEW d, IsArrays(d)
  PROVE  IsStored(d, StartArrays(d))
<1> DEFINE s == [k \in 1 .. d.nstatv * d.mi1 * d.elements |-> 0]
           zeros == [id \in HostedIds(d) |-> Zero(KindOf(d, id))]
           held == [p \in Places(d) |-> zeros]
           hist == [statev |-> s, held |-> held, out |-> 0]
<1>1. StartArrays(d) = hist
  BY DEF StartArrays, HostedIds
<1>2. hist.statev = s /\ hist.held = held /\ hist.out = 0 /\ DOMAIN hist = {"statev", "held", "out"}
  <2> HIDE DEF s, held
  <2> QED
    OBVIOUS
<1>3. IsStatev(d, s) /\ \A k \in 1 .. Len(s) : s[k] = 0
  <2> DEFINE N == d.nstatv * d.mi1 * d.elements
  <2>1. N \in Nat
    BY DEF IsArrays, ArrayParameters
  <2> HIDE DEF N
  <2>2. [k \in 1 .. N |-> 0] \in Seq(Int) /\ Len([k \in 1 .. N |-> 0]) = N
    BY <2>1
  <2> QED
    BY <2>2 DEF IsStatev, N
<1> HIDE DEF s, hist
<1>4. \A id \in HostedIds(d) : KindOf(d, id) \in StateKind
  BY HostedKinds
<1>5. IsHistoryOf(d, HostedIds(d), zeros)
  BY <1>4, ZeroStored DEF IsHistoryOf
<1> HIDE DEF zeros
<1>6. \A p \in Places(d) : held[p] = zeros
  OBVIOUS
<1>7. ASSUME NEW l \in d.loads, Fits(d, Layout(d, l.order)) PROVE StateIsHeld(d, hist)
  <2>1. ASSUME NEW k \in d.loads, NEW p \in Places(d)
        PROVE  /\ UnpackHistory(Layout(d, k.order), BlockAt(d, p, s)) = zeros
               /\ d.family = "plane_stress" => BlockAt(d, p, s)[MapWidth(Layout(d, k.order)) + 1] = 0
    <3> DEFINE layout == Layout(d, k.order)  b == BlockAt(d, p, s)
    <3>1. IsOrderOf(d, k.order) /\ IsOrderOf(d, l.order)
      BY DEF IsArrays, ArrayParameters
    <3>2. layout = Layout(d, l.order)
      BY <3>1, LayoutIsOfNames
    <3>3. /\ IsLayoutOf(d, layout) /\ Ids(layout) = HostedIds(d) /\ IsLayout(layout)
      BY <3>1, LayoutOfLoad DEF IsLayoutOf
    <3>4. MapWidth(layout) \in Nat /\ Fits(d, layout)
      BY <1>7, <3>2, <3>3, EntryFits
    <3>5. /\ Len(b) = d.nstatv /\ d.nstatv \in Nat
          /\ \A i \in 1 .. d.nstatv : b[i] = 0
      <4> DEFINE n == d.nstatv  o == OffsetAt(d, p)
      <4>1. Len(b) = n /\ \A i \in 1 .. n : b[i] = s[o + i]
        BY <1>3, BlockOfPlace
      <4>2. n \in Nat /\ o \in Nat /\ o + n <= Len(s)
        BY <1>3, PlacesApart
      <4>3. Len(s) \in Nat
        BY <1>3 DEF IsStatev
      <4> HIDE DEF n, o, b
      <4>4. \A i \in 1 .. n : o + i \in 1 .. Len(s)
        BY <4>2, <4>3
      <4>5. \A i \in 1 .. n : b[i] = 0
        BY <1>3, <4>1, <4>4
      <4> QED
        BY <4>1, <4>2, <4>5 DEF n
    <3> HIDE DEF layout, b
    <3>6. MapWidth(layout) <= d.nstatv /\ (d.family = "plane_stress" => MapWidth(layout) + 1 <= d.nstatv)
      BY <3>4, <3>5 DEF Fits
    <3>7. /\ \A n \in 1 .. Len(layout) : layout[n].kind \in StateKind /\ layout[n].id \in HostedIds(d)
                                         /\ zeros[layout[n].id] = Zero(layout[n].kind)
          /\ DOMAIN layout = 1 .. Len(layout)
      <4>1. DOMAIN layout = 1 .. Len(layout)
        BY <3>3, LayoutFacts
      <4>2. \A n \in DOMAIN layout : layout[n].id \in HostedIds(d) /\ KindOf(d, layout[n].id) = layout[n].kind
        BY <3>3, KindOfEntry DEF Ids
      <4>3. \A n \in DOMAIN layout : layout[n].kind \in StateKind
        BY <1>4, <4>2
      <4> QED
        BY <4>1, <4>2, <4>3 DEF zeros
    <3>8. AllStorable(layout, zeros)
      BY <3>7, ZeroStored DEF AllStorable
    <3>9. Carries(layout, b, zeros)
      <4> SUFFICES ASSUME NEW n \in 1 .. Len(layout), NEW a \in 1 .. KindWidth(layout[n].kind)
                   PROVE  b[EntryOffset(layout, n) + a] = PackEntry(layout[n].kind, zeros[layout[n].id])[a]
        BY DEF Carries
      <4>1. PackEntry(layout[n].kind, zeros[layout[n].id])[a] = 0
        BY <3>7, ZeroStored
      <4>2. /\ EntryOffset(layout, n) \in Nat /\ KindWidth(layout[n].kind) \in Nat
            /\ EntryOffset(layout, n) + KindWidth(layout[n].kind) <= MapWidth(layout)
        BY <3>3, LayoutFacts, EntryFits
      <4> DEFINE i == EntryOffset(layout, n) + a
      <4>3. i \in 1 .. d.nstatv
        <5> DEFINE e == EntryOffset(layout, n)  w == KindWidth(layout[n].kind)  m == MapWidth(layout)
        <5>1. e \in Nat /\ w \in Nat /\ e + w <= m /\ m \in Nat /\ m <= d.nstatv /\ d.nstatv \in Nat /\ a \in 1 .. w
          BY <3>4, <3>5, <3>6, <4>2
        <5> HIDE DEF e, w, m
        <5>2. e + a \in 1 .. d.nstatv
          BY <5>1
        <5> QED
          BY <5>2 DEF e
      <4> HIDE DEF i
      <4>4. b[i] = 0
        BY <3>5, <4>3
      <4> QED
        BY <4>1, <4>4 DEF i
    <3>10. UnpackHistory(layout, b) = zeros
      BY <1>5, <3>3, <3>8, <3>9, HistoryOfDeck, CarriedReturns
    <3>11. d.family = "plane_stress" => b[MapWidth(layout) + 1] = 0
      <4> SUFFICES ASSUME d.family = "plane_stress" PROVE b[MapWidth(layout) + 1] = 0
        OBVIOUS
      <4>1. MapWidth(layout) + 1 \in 1 .. d.nstatv
        BY <3>4, <3>5, <3>6
      <4> QED
        BY <3>5, <4>1
    <3> QED
      BY <3>10, <3>11 DEF layout, b
  <2> HIDE DEF held
  <2> QED
    BY <1>2, <1>6, <2>1 DEF StateIsHeld
<1>8. DOMAIN held = Places(d)
  OBVIOUS
<1> HIDE DEF held
<1>9. IsStored(d, hist)
  BY <1>2, <1>3, <1>5, <1>6, <1>7, <1>8 DEF IsStored
<1> QED
  BY <1>1, <1>9
=============================================================================
