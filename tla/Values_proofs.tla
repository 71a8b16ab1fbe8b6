----------------------------- MODULE Values_proofs -----------------------------
(***************************************************************************)
(* Proofs about MultiDimensionalArray and BinaryDataEncoding: what an      *)
(* application makes of the values that it sends and receives.             *)
(*                                                                         *)
(* Arrays: for a quint32 of any width, any number of dimensions and any    *)
(* lengths.  What the loop of arrayIndex() computes is proved by induction *)
(* over its rounds, as long as the product of the dimensions is an int:    *)
(* the stride never wraps, and the index after the round of a dimension is *)
(* the rank of the indices among those of the dimensions from that one on. *)
(*                                                                         *)
(* The encoding: for any values of the types, any number of them and any   *)
(* place where the buffer breaks off.  Each reader is shown to return what *)
(* its writer has appended, to refuse it when it breaks off, and never to  *)
(* leave the buffer: first for numbers, by induction over their bytes,     *)
(* then for each type from its parts, for an array and a structure by      *)
(* induction over the calls, and at last for the buffer as a whole, where  *)
(* every value encoded is still there or is the one that breaks off.       *)
(***************************************************************************)
EXTENDS BinaryDataEncoding, MultiDimensionalArray, FiniteSetTheorems, WellFoundedInduction, TLAPS

-----------------------------------------------------------------------------
(* Induction and recursion from the last dimension to the first.           *)

(* There is a least number in every set of them that is not empty. *)
LEMMA LeastNumber ==
  ASSUME NEW T \in SUBSET Nat, T # {}
  PROVE  \E n \in T : \A m \in T : n <= m
<1> DEFINE R == OpToRel(<, Nat)
<1>1. IsWellFoundedOn(R, Nat)
  BY NatLessThanWellFounded, Zenon
<1>2. R = {ss \in Nat \X Nat : ss[1] < ss[2]}
  BY DEF OpToRel
<1> HIDE DEF R
<1>3. PICK x \in T : \A y \in T : ~ (<<y, x>> \in R)
  BY <1>1, WFMin
<1>4. \A m \in Nat, n \in Nat : m < n => <<m, n>> \in R
  BY <1>2
<1>5. \A m \in T : ~(m < x)
  BY <1>3, <1>4
<1> QED
  BY <1>5

(* A set with n + 1 and, with each number from 2 on, the one before it. *)
LEMMA Descent ==
  ASSUME NEW n \in Nat, NEW T \in SUBSET (1 .. n + 1), n + 1 \in T,
         \A i \in 1 .. n : i + 1 \in T => i \in T
  PROVE  \A i \in 1 .. n + 1 : i \in T
<1> SUFFICES ASSUME NEW j \in 1 .. n + 1, j \notin T PROVE FALSE
  OBVIOUS
<1> DEFINE U == {k \in Nat : n + 1 - k \in 1 .. n + 1 /\ n + 1 - k \notin T}
<1>1. n + 1 - j \in U
  <2>1. n + 1 - (n + 1 - j) = j /\ n + 1 - j \in Nat
    OBVIOUS
  <2> QED
    BY <2>1
<1>2. PICK k \in U : \A l \in U : k <= l
  BY <1>1, LeastNumber
<1>3. k \in Nat /\ n + 1 - k \in 1 .. n /\ n + 1 - k \notin T
  <2>1. k \in Nat /\ n + 1 - k \in 1 .. n + 1 /\ n + 1 - k \notin T
    OBVIOUS
  <2>2. n + 1 - k # n + 1
    BY <2>1
  <2> QED
    BY <2>1, <2>2
<1>4. k - 1 \in Nat /\ k - 1 \notin U /\ n + 1 - (k - 1) = (n + 1 - k) + 1
  BY <1>2, <1>3
<1>5. (n + 1 - k) + 1 \in T
  BY <1>3, <1>4
<1> QED
  BY <1>3, <1>5

(* A function given by its last value and, for every other, by the next.   *)
Defined(f, n, S, b, G) ==
  /\ f \in [1 .. n + 1 -> S]
  /\ f[n + 1] = b
  /\ \A i \in 1 .. n : f[i] = G[i][f[i + 1]]

LEMMA RecursionExists ==
  ASSUME NEW n \in Nat, NEW S, NEW b \in S, NEW G \in [1 .. n -> [S -> S]]
  PROVE  \E f : Defined(f, n, S, b, G)
<1> DEFINE Partial(j, f) ==
             f \in [j .. n + 1 -> S] /\ f[n + 1] = b /\ \A i \in j .. n : f[i] = G[i][f[i + 1]]
           T == {j \in 1 .. n + 1 : \E f : Partial(j, f)}
<1>1. n + 1 \in T
  <2> DEFINE f == [i \in n + 1 .. n + 1 |-> b]
  <2>1. f \in [n + 1 .. n + 1 -> S] /\ f[n + 1] = b
    OBVIOUS
  <2>2. n + 1 .. n = {}
    OBVIOUS
  <2> HIDE DEF f
  <2>3. Partial(n + 1, f)
    BY <2>1, <2>2
  <2> HIDE DEF Partial
  <2> QED
    BY <2>3
<1>2. ASSUME NEW j \in 1 .. n, j + 1 \in T PROVE j \in T
  <2>1. PICK f : Partial(j + 1, f)
    BY <1>2
  <2> DEFINE g == [i \in j .. n + 1 |-> IF i = j THEN G[j][f[j + 1]] ELSE f[i]]
  <2>2. f[j + 1] \in S /\ G[j] \in [S -> S] /\ \A i \in j + 1 .. n + 1 : f[i] \in S
    BY <2>1
  <2>3. g \in [j .. n + 1 -> S]
    BY <2>2
  <2>4. \A i \in j + 1 .. n + 1 : g[i] = f[i]
    OBVIOUS
  <2>5. g[j] = G[j][g[j + 1]]
    BY <2>4
  <2>6. \A i \in j + 1 .. n : g[i] = G[i][g[i + 1]]
    BY <2>1, <2>4
  <2>7. Partial(j, g)
    <3>1. \A i \in j .. n : i = j \/ i \in j + 1 .. n
      OBVIOUS
    <3>2. g[n + 1] = b
      BY <2>1, <2>4
    <3> HIDE DEF g
    <3> QED
      BY <2>3, <2>5, <2>6, <3>1, <3>2
  <2> HIDE DEF Partial
  <2> QED
    BY <2>7
<1>3. 1 \in T
  <2> HIDE DEF T
  <2>1. T \in SUBSET (1 .. n + 1)
    BY DEF T
  <2>2. \A i \in 1 .. n + 1 : i \in T
    BY <1>1, <1>2, <2>1, Descent
  <2> QED
    BY <2>2
<1>4. PICK f : Partial(1, f)
  BY <1>3
<1> QED
  BY <1>4 DEF Defined

-----------------------------------------------------------------------------
(* What the definitions by recursion are.                                  *)

LEMMA ProductIsNat ==
  ASSUME NEW x \in Nat, NEW y \in Nat
  PROVE  x * y \in Nat
OBVIOUS

LEMMA RemainderIsNat ==
  ASSUME NEW x \in Nat
  PROVE  x % Modulus \in Nat /\ x % Modulus <= Modulus - 1 /\ (x < Modulus => x % Modulus = x)
BY ModulusAssumption

LEMMA VolumesStep ==
  ASSUME NEW dims \in Seq(Nat)
  PROVE  /\ Volumes(dims) \in [1 .. Len(dims) + 1 -> Nat]
         /\ Volumes(dims)[Len(dims) + 1] = 1
         /\ \A i \in 1 .. Len(dims) : Volumes(dims)[i] = dims[i] * Volumes(dims)[i + 1]
<1> DEFINE n == Len(dims)
           P(f) == f = [i \in 1 .. n + 1 |-> IF i > n THEN 1 ELSE dims[i] * f[i + 1]]
           G == [i \in 1 .. n |-> [x \in Nat |-> dims[i] * x]]
<1>1. n \in Nat /\ \A i \in 1 .. n : dims[i] \in Nat
  OBVIOUS
<1> HIDE DEF n
<1>2. \A i \in 1 .. n : [x \in Nat |-> dims[i] * x] \in [Nat -> Nat]
  BY <1>1, ProductIsNat
<1>3. G \in [1 .. n -> [Nat -> Nat]]
  BY <1>2
<1> HIDE DEF G
<1>4. PICK f : Defined(f, n, Nat, 1, G)
  <2>1. 1 \in Nat
    OBVIOUS
  <2> QED
    BY <1>1, <1>3, <2>1, RecursionExists
<1>5. f \in [1 .. n + 1 -> Nat] /\ f[n + 1] = 1 /\ \A i \in 1 .. n : f[i] = dims[i] * f[i + 1]
  <2>1. f \in [1 .. n + 1 -> Nat] /\ f[n + 1] = 1 /\ \A i \in 1 .. n : f[i] = G[i][f[i + 1]]
    BY <1>4 DEF Defined
  <2>2. \A i \in 1 .. n : f[i + 1] \in Nat
    BY <1>1, <2>1
  <2>3. \A i \in 1 .. n : G[i][f[i + 1]] = dims[i] * f[i + 1]
    BY <2>2 DEF G
  <2> QED
    BY <2>1, <2>3
<1>6. P(f)
  <2>1. f = [i \in 1 .. n + 1 |-> f[i]]
    BY <1>5
  <2>2. \A i \in 1 .. n + 1 : f[i] = IF i > n THEN 1 ELSE dims[i] * f[i + 1]
    BY <1>1, <1>5
  <2> QED
    BY <2>1, <2>2
<1>7. Volumes(dims) = CHOOSE h : P(h)
  BY Zenon DEF Volumes, n
<1>8. P(CHOOSE h : P(h))
  <2> HIDE DEF P
  <2> QED
    BY <1>6, Zenon
<1> DEFINE v == Volumes(dims)
<1> HIDE DEF v
<1>9. P(v)
  <2> HIDE DEF P
  <2> QED
    BY <1>7, <1>8, Zenon DEF v
<1>10. DOMAIN v = 1 .. n + 1
       /\ \A i \in 1 .. n + 1 : v[i] = IF i > n THEN 1 ELSE dims[i] * v[i + 1]
  BY <1>9
<1>11. v[n + 1] = 1 /\ \A i \in 1 .. n : v[i] = dims[i] * v[i + 1]
  BY <1>1, <1>10
<1>12. \A i \in 1 .. n + 1 : v[i] \in Nat
  <2> DEFINE T == {i \in 1 .. n + 1 : v[i] \in Nat}
  <2>1. T \in SUBSET (1 .. n + 1) /\ n + 1 \in T
    BY <1>1, <1>11
  <2>2. \A i \in 1 .. n : i + 1 \in T => i \in T
    <3> TAKE i \in 1 .. n
    <3>1. i \in 1 .. n + 1 /\ dims[i] \in Nat /\ v[i] = dims[i] * v[i + 1]
      BY <1>1, <1>11
    <3>2. v[i + 1] \in Nat => v[i] \in Nat
      BY <3>1, ProductIsNat
    <3> QED
      BY <3>1, <3>2
  <2> HIDE DEF T
  <2>3. \A i \in 1 .. n + 1 : i \in T
    BY <1>1, <2>1, <2>2, Descent
  <2> QED
    BY <2>3 DEF T
<1>13. v \in [1 .. n + 1 -> Nat]
  <2>1. v = [i \in 1 .. n + 1 |-> v[i]]
    BY <1>9, <1>10
  <2> QED
    BY <1>12, <2>1
<1> QED
  BY <1>11, <1>13 DEF v, n

LEMMA LoopStep ==
  ASSUME arrayDimensions \in Seq(Nat), NEW t \in Seq(Nat), Len(t) = Len(arrayDimensions)
  PROVE  /\ Loop(t)[Len(t) + 1].stride = 1 /\ Loop(t)[Len(t) + 1].index = 0
         /\ \A i \in 1 .. Len(t) :
              /\ Loop(t)[i].stride = NextStride(Loop(t)[i + 1].stride, i)
              /\ Loop(t)[i].index = (Loop(t)[i + 1].index + Loop(t)[i].stride * t[i]) % Modulus
<1> DEFINE n == Len(t)
           S == [stride : Nat, index : Nat]
           b == [stride |-> 1, index |-> 0]
           Round(r, i) ==
             [stride |-> NextStride(r.stride, i),
              index |-> (r.index + NextStride(r.stride, i) * t[i]) % Modulus]
           P(f) == f = [i \in 1 .. n + 1 |-> IF i > n THEN b ELSE Round(f[i + 1], i)]
           G == [i \in 1 .. n |-> [r \in S |-> Round(r, i)]]
<1>1. n \in Nat /\ n = Len(arrayDimensions) /\ (\A i \in 1 .. n : t[i] \in Nat)
      /\ \A i \in 1 .. n : arrayDimensions[i] \in Nat
  OBVIOUS
<1>2. Loop(t) = CHOOSE h : P(h)
  BY Zenon DEF Loop
<1> HIDE DEF n
<1>3. \A r \in S, i \in 1 .. n : Round(r, i) \in S
  <2> TAKE r \in S, i \in 1 .. n
  <2>1. r.stride \in Nat /\ r.index \in Nat /\ t[i] \in Nat
    BY <1>1
  <2>2. NextStride(r.stride, i) \in Nat
    <3>1. CASE i < Len(arrayDimensions)
      <4>1. arrayDimensions[i + 1] \in Nat
        BY <1>1, <3>1
      <4>2. r.stride * arrayDimensions[i + 1] \in Nat
        BY <2>1, <4>1, ProductIsNat
      <4>3. (r.stride * arrayDimensions[i + 1]) % Modulus \in Nat
        BY <4>2, RemainderIsNat
      <4> QED
        BY <3>1, <4>3 DEF NextStride
    <3> QED
      BY <2>1, <3>1 DEF NextStride
  <2> DEFINE x == NextStride(r.stride, i)
  <2> HIDE DEF x
  <2>3. x * t[i] \in Nat
    BY <2>1, <2>2, ProductIsNat DEF x
  <2>4. (r.index + x * t[i]) % Modulus \in Nat
    <3> DEFINE y == x * t[i]
               z == r.index
    <3>1. y \in Nat /\ z \in Nat
      BY <2>1, <2>3
    <3> HIDE DEF y, z
    <3>2. z + y \in Nat
      BY <3>1
    <3>3. (z + y) % Modulus \in Nat
      BY <3>2, RemainderIsNat
    <3> QED
      BY <3>3 DEF y, z
  <2> QED
    BY <2>2, <2>4 DEF x
<1> HIDE DEF Round
<1>4. G \in [1 .. n -> [S -> S]]
  <2> HIDE DEF S
  <2>1. \A i \in 1 .. n : [r \in S |-> Round(r, i)] \in [S -> S]
    BY <1>3
  <2> QED
    BY <2>1
<1>5. b \in S
  OBVIOUS
<1> HIDE DEF b, S, G
<1>6. PICK f : Defined(f, n, S, b, G)
  BY <1>1, <1>4, <1>5, RecursionExists
<1>7. f \in [1 .. n + 1 -> S] /\ f[n + 1] = b /\ \A i \in 1 .. n : f[i] = Round(f[i + 1], i)
  <2>1. f \in [1 .. n + 1 -> S] /\ f[n + 1] = b /\ \A i \in 1 .. n : f[i] = G[i][f[i + 1]]
    BY <1>6 DEF Defined
  <2>2. \A i \in 1 .. n : f[i + 1] \in S
    BY <1>1, <2>1, SMTT(30), ZenonT(60)
  <2>3. \A i \in 1 .. n : G[i][f[i + 1]] = Round(f[i + 1], i)
    BY <2>2 DEF G
  <2> QED
    BY <2>1, <2>3
<1>8. P(f)
  <2>1. f = [i \in 1 .. n + 1 |-> f[i]]
    BY <1>7
  <2>2. \A i \in 1 .. n + 1 : f[i] = IF i > n THEN b ELSE Round(f[i + 1], i)
    BY <1>1, <1>7
  <2> QED
    BY <2>1, <2>2
<1>9. P(CHOOSE h : P(h))
  <2> HIDE DEF P
  <2> QED
    BY <1>8, Zenon
<1> DEFINE l == Loop(t)
<1> HIDE DEF l
<1>10. P(l)
  <2> HIDE DEF P
  <2> QED
    BY <1>2, <1>9, Zenon DEF l
<1>11. \A i \in 1 .. n + 1 : l[i] = IF i > n THEN b ELSE Round(l[i + 1], i)
  BY <1>10
<1>12. l[n + 1] = b
  BY <1>1, <1>11
<1>13. \A i \in 1 .. n : l[i] = Round(l[i + 1], i)
  BY <1>1, <1>11
<1>14. \A i \in 1 .. n : /\ l[i].stride = NextStride(l[i + 1].stride, i)
                         /\ l[i].index = (l[i + 1].index + l[i].stride * t[i]) % Modulus
  <2> TAKE i \in 1 .. n
  <2> DEFINE x == NextStride(l[i + 1].stride, i)
             y == (l[i + 1].index + x * t[i]) % Modulus
  <2>1. l[i] = [stride |-> x, index |-> y]
    BY <1>13, Zenon DEF Round
  <2> HIDE DEF x, y
  <2>2. l[i].stride = x /\ l[i].index = y
    BY <2>1
  <2> QED
    BY <2>2, Zenon DEF x, y
<1>15. l[n + 1].stride = 1 /\ l[n + 1].index = 0
  BY <1>12 DEF b
<1> QED
  BY <1>14, <1>15 DEF l, n

-----------------------------------------------------------------------------
(* What the loop computes.                                                 *)

LEMMA ProductGrows ==
  ASSUME NEW v \in Nat, NEW s \in Nat, NEW t \in Nat, s <= t
  PROVE  v * s <= v * t
<1>1. PICK k \in Nat : t = s + k
  <2>1. t - s \in Nat /\ t = s + (t - s)
    OBVIOUS
  <2> QED
    BY <2>1
<1>2. v * (s + k) = v * s + v * k /\ v * k \in Nat /\ v * s \in Nat
  OBVIOUS
<1> QED
  BY <1>1, <1>2

(* A digit t and a rest x are less than the product of their bounds. *)
LEMMA BelowProduct ==
  ASSUME NEW x \in Nat, NEW v \in Nat, NEW t \in Nat, NEW d \in Nat, x < v, t < d
  PROVE  x + v * t < d * v /\ x + v * t \in Nat
<1>1. v * (t + 1) <= v * d
  BY ProductGrows
<1>2. v * (t + 1) = v * t + v /\ v * t \in Nat /\ v * d = d * v
  OBVIOUS
<1> QED
  BY <1>1, <1>2

LEMMA IntMaxBound == IntMax \in Int /\ IntMax < Modulus
BY ModulusAssumption DEF IntMax

LEMMA VolumesDecrease ==
  ASSUME NEW dims \in Seq(Nat), \A i \in 1 .. Len(dims) : dims[i] # 0
  PROVE  \A i \in 1 .. Len(dims) + 1 : Volumes(dims)[i] <= Product(dims)
<1> DEFINE n == Len(dims)
           v == Volumes(dims)
           U == {i \in 1 .. n + 1 : ~(v[i] <= v[1])}
<1>1. n \in Nat /\ \A i \in 1 .. n : dims[i] \in Nat /\ dims[i] >= 1
  OBVIOUS
<1>2. v \in [1 .. n + 1 -> Nat] /\ \A i \in 1 .. n : v[i] = dims[i] * v[i + 1]
  BY VolumesStep
<1> HIDE DEF n, v
<1>3. ASSUME NEW i \in 1 .. n PROVE v[i + 1] <= v[i]
  <2>1. v[i + 1] \in Nat /\ dims[i] \in Nat /\ dims[i] >= 1 /\ 1 \in Nat
    BY <1>1, <1>2
  <2>2. v[i + 1] * 1 <= v[i + 1] * dims[i]
    BY <2>1, ProductGrows
  <2>3. v[i + 1] * 1 = v[i + 1] /\ v[i + 1] * dims[i] = dims[i] * v[i + 1]
    BY <2>1
  <2> QED
    BY <1>2, <2>1, <2>2, <2>3
<1>4. U = {}
  <2> SUFFICES ASSUME U # {} PROVE FALSE
    OBVIOUS
  <2>1. U \in SUBSET Nat
    BY <1>1
  <2>2. PICK j \in U : \A m \in U : j <= m
    BY <2>1, LeastNumber
  <2>3. j \in 1 .. n + 1 /\ ~(v[j] <= v[1])
    BY <2>2
  <2>4. v[1] \in Nat /\ v[j] \in Nat /\ j # 1
    BY <1>1, <1>2, <2>3
  <2>5. j - 1 \in 1 .. n /\ j - 1 \in 1 .. n + 1 /\ j - 1 \notin U /\ (j - 1) + 1 = j
    BY <1>1, <2>2, <2>3, <2>4
  <2>6. v[j - 1] \in Nat /\ v[j - 1] <= v[1]
    BY <1>2, <2>5
  <2>7. v[j] <= v[j - 1]
    BY <1>3, <2>5
  <2> QED
    BY <2>3, <2>4, <2>6, <2>7
<1>5. \A i \in 1 .. n + 1 : v[i] <= v[1]
  BY <1>4
<1> QED
  BY <1>5 DEF Product, n, v

(* Indices in bounds of dimensions whose product is an int. *)
InsideOf(t) ==
  /\ t \in Seq(Nat)
  /\ Len(t) = Len(arrayDimensions)
  /\ \A i \in 1 .. Len(t) : t[i] < arrayDimensions[i]

Small == arrayDimensions \in Seq(Nat) /\ Product(arrayDimensions) <= IntMax

(* Neither the stride nor the index wraps. *)
LEMMA LoopIsExact ==
  ASSUME Small, NEW t, InsideOf(t)
  PROVE  /\ Loop(t)[Len(t) + 1].index = 0
         /\ \A i \in 1 .. Len(t) + 1 :
              Loop(t)[i].index \in Nat /\ Loop(t)[i].index < Volumes(arrayDimensions)[i]
         /\ \A i \in 1 .. Len(t) :
              Loop(t)[i].index = Loop(t)[i + 1].index + Volumes(arrayDimensions)[i + 1] * t[i]
<1> DEFINE n == Len(t)
           d == arrayDimensions
           l == Loop(t)
           v == Volumes(arrayDimensions)
<1>1. n \in Nat /\ n = Len(d) /\ \A i \in 1 .. n : t[i] \in Nat /\ d[i] \in Nat /\ t[i] < d[i]
  BY DEF Small, InsideOf
<1>2. v \in [1 .. n + 1 -> Nat] /\ v[n + 1] = 1 /\ \A i \in 1 .. n : v[i] = d[i] * v[i + 1]
  <2>1. d \in Seq(Nat) /\ n = Len(d)
    BY DEF Small, InsideOf
  <2> HIDE DEF n, d
  <2>2. /\ Volumes(d) \in [1 .. Len(d) + 1 -> Nat]
        /\ Volumes(d)[Len(d) + 1] = 1
        /\ \A i \in 1 .. Len(d) : Volumes(d)[i] = d[i] * Volumes(d)[i + 1]
    BY <2>1, VolumesStep
  <2>3. v = Volumes(d)
    BY Zenon DEF d
  <2> HIDE DEF v
  <2> QED
    BY <2>1, <2>2, <2>3, Zenon
<1>3. l[n + 1].stride = 1 /\ l[n + 1].index = 0
  BY LoopStep DEF Small, InsideOf
<1>4. \A i \in 1 .. n : /\ l[i].stride = NextStride(l[i + 1].stride, i)
                        /\ l[i].index = (l[i + 1].index + l[i].stride * t[i]) % Modulus
  BY LoopStep DEF Small, InsideOf
<1>5. \A i \in 1 .. n + 1 : v[i] \in Nat /\ v[i] < Modulus
  <2>1. \A i \in 1 .. n : d[i] # 0
    BY <1>1
  <2>2. \A i \in 1 .. n + 1 : v[i] <= Product(d)
    BY <1>1, <2>1, VolumesDecrease DEF Small
  <2>3. Product(d) <= IntMax /\ Product(d) = v[1]
    BY DEF Small, Product
  <2> HIDE DEF n, d, v
  <2>4. v[1] \in Nat
    BY <1>1, <1>2
  <2> QED
    BY <1>1, <1>2, <2>2, <2>3, <2>4, IntMaxBound, ModulusAssumption, SMTT(30)
<1> HIDE DEF n, l, v
<1>6. \A i \in 1 .. n : l[i].stride = v[i + 1]
  <2> DEFINE T == {i \in 1 .. n + 1 : i \in 1 .. n => l[i].stride = v[i + 1]}
  <2>1. T \in SUBSET (1 .. n + 1) /\ n + 1 \in T
    BY <1>1
  <2>2. ASSUME NEW i \in 1 .. n, i + 1 \in T PROVE i \in T
    <3>1. CASE i = n
      <4>1. NextStride(l[i + 1].stride, i) = l[i + 1].stride
        BY <1>1, <3>1 DEF NextStride, d
      <4> QED
        BY <1>1, <1>2, <1>3, <1>4, <3>1, <4>1
    <3>2. CASE i < n
      <4>1. i + 1 \in 1 .. n /\ (i + 1) + 1 = i + 2 /\ l[i + 1].stride = v[i + 2]
        BY <1>1, <2>2, <3>2
      <4>2. NextStride(l[i + 1].stride, i) = (v[i + 2] * d[i + 1]) % Modulus
        BY <1>1, <3>2, <4>1 DEF NextStride
      <4>3. v[i + 1] = d[i + 1] * v[i + 2] /\ v[i + 2] \in Nat /\ d[i + 1] \in Nat
        <5> HIDE DEF d
        <5>1. i + 2 \in 1 .. n + 1
          BY <1>1, <4>1
        <5>2. v[i + 1] = d[i + 1] * v[(i + 1) + 1]
          BY <1>2, <4>1, Zenon
        <5>3. v[i + 2] \in Nat
          BY <1>2, <5>1, Zenon
        <5>4. d[i + 1] \in Nat
          BY <1>1, <4>1, Zenon
        <5> QED
          BY <4>1, <5>2, <5>3, <5>4, Zenon
      <4>4. v[i + 2] * d[i + 1] = v[i + 1]
        BY <4>3
      <4>5. v[i + 1] % Modulus = v[i + 1]
        <5>1. v[i + 1] \in Nat /\ v[i + 1] < Modulus
          BY <1>1, <1>5, <4>1
        <5> QED
          BY <5>1, RemainderIsNat
      <4>6. l[i].stride = v[i + 1]
        <5> HIDE DEF d
        <5>1. (v[i + 2] * d[i + 1]) % Modulus = v[i + 1]
          BY <4>4, <4>5, Zenon
        <5> QED
          BY <1>4, <4>2, <5>1, Zenon
      <4> QED
        BY <1>1, <4>6
    <3> QED
      BY <1>1, <3>1, <3>2
  <2> HIDE DEF T
  <2>3. \A i \in 1 .. n + 1 : i \in T
    BY <1>1, <2>1, <2>2, Descent
  <2> QED
    BY <1>1, <2>3 DEF T
<1> DEFINE Exact(i) == l[i].index \in Nat /\ l[i].index < v[i]
           T == {i \in 1 .. n + 1 : Exact(i)}
<1>7. ASSUME NEW i \in 1 .. n, i + 1 \in T
      PROVE  Exact(i) /\ l[i].index = l[i + 1].index + v[i + 1] * t[i]
  <2> DEFINE x == l[i + 1].index
             w == v[i + 1]
  <2>1. x \in Nat /\ w \in Nat /\ x < w /\ t[i] \in Nat /\ d[i] \in Nat /\ t[i] < d[i]
    BY <1>1, <1>5, <1>7
  <2>2. l[i].index = (x + w * t[i]) % Modulus /\ v[i] = d[i] * w /\ v[i] \in Nat /\ v[i] < Modulus
    BY <1>1, <1>2, <1>4, <1>5, <1>6
  <2> HIDE DEF x, w, d
  <2>3. x + w * t[i] < d[i] * w /\ x + w * t[i] \in Nat
    BY <2>1, BelowProduct
  <2> DEFINE y == x + w * t[i]
  <2> HIDE DEF y
  <2>4. y \in Nat /\ y < v[i] /\ l[i].index = y % Modulus
    BY <2>2, <2>3 DEF y
  <2>5. y < Modulus
    BY <2>2, <2>4, ModulusAssumption
  <2>6. l[i].index = y
    BY <2>4, <2>5, RemainderIsNat
  <2> QED
    BY <2>4, <2>6 DEF x, w, y
<1>8. \A i \in 1 .. n + 1 : i \in T
  <2>1. T \in SUBSET (1 .. n + 1) /\ n + 1 \in T
    BY <1>1, <1>2, <1>3
  <2>2. \A i \in 1 .. n : i + 1 \in T => i \in T
    BY <1>1, <1>7
  <2> HIDE DEF T
  <2> QED
    BY <1>1, <2>1, <2>2, Descent
<1>9. \A i \in 1 .. n : l[i].index = l[i + 1].index + v[i + 1] * t[i]
  <2> TAKE i \in 1 .. n
  <2>1. i + 1 \in T
    BY <1>1, <1>8
  <2> HIDE DEF T, Exact
  <2> QED
    BY <1>7, <2>1
<1> QED
  BY <1>3, <1>8, <1>9 DEF n, l, v

Index(t) == Loop(t)[1].index

(* The index after the round of a dimension depends on the indices from    *)
(* that one on.                                                            *)
LEMMA LaterIndicesDecide ==
  ASSUME Small, NEW s, NEW t, InsideOf(s), InsideOf(t), NEW i \in 1 .. Len(t) + 1,
         \A k \in i .. Len(t) : s[k] = t[k]
  PROVE  Loop(s)[i].index = Loop(t)[i].index
<1> DEFINE n == Len(t)
           x == Loop(s)
           y == Loop(t)
           v == Volumes(arrayDimensions)
           T == {j \in 1 .. n + 1 : j >= i => x[j].index = y[j].index}
<1>1. n \in Nat /\ Len(s) = n
  BY DEF InsideOf
<1>2. /\ x[n + 1].index = 0 /\ y[n + 1].index = 0
      /\ \A k \in 1 .. n : x[k].index = x[k + 1].index + v[k + 1] * s[k]
      /\ \A k \in 1 .. n : y[k].index = y[k + 1].index + v[k + 1] * t[k]
  BY <1>1, LoopIsExact
<1> HIDE DEF x, y, v
<1>3. T \in SUBSET (1 .. n + 1) /\ n + 1 \in T
  BY <1>1, <1>2
<1>4. ASSUME NEW j \in 1 .. n, j + 1 \in T PROVE j \in T
  <2>1. j \in 1 .. n + 1
    BY <1>1
  <2>2. CASE j >= i
    <3>1. x[j + 1].index = y[j + 1].index /\ s[j] = t[j]
      BY <1>1, <1>4, <2>1, <2>2
    <3> QED
      BY <1>2, <2>1, <3>1
  <2> QED
    BY <2>1, <2>2
<1>5. i \in T
  <2> HIDE DEF T, n
  <2>1. \A j \in 1 .. n + 1 : j \in T
    BY <1>1, <1>3, <1>4, Descent
  <2> QED
    BY <2>1 DEF n
<1> QED
  BY <1>5 DEF x, y

(* The index grows in row-major order. *)
LEMMA OrderIsKept ==
  ASSUME Small, NEW s, NEW t, InsideOf(s), InsideOf(t), NEW j \in 1 .. Len(t), s[j] < t[j],
         \A k \in 1 .. j - 1 : s[k] = t[k]
  PROVE  Index(s) < Index(t)
<1> DEFINE n == Len(t)
           x == Loop(s)
           y == Loop(t)
           v == Volumes(arrayDimensions)
           T == {i \in 1 .. j : x[i].index < y[i].index}
<1>1. n \in Nat /\ Len(s) = n /\ j \in 1 .. n
  BY DEF InsideOf
<1>2. \A k \in 1 .. n : s[k] \in Nat /\ t[k] \in Nat
  BY <1>1 DEF InsideOf
<1>3. /\ \A k \in 1 .. n + 1 : x[k].index \in Nat /\ x[k].index < v[k] /\ y[k].index \in Nat
      /\ \A k \in 1 .. n : x[k].index = x[k + 1].index + v[k + 1] * s[k]
      /\ \A k \in 1 .. n : y[k].index = y[k + 1].index + v[k + 1] * t[k]
  BY <1>1, LoopIsExact
<1>4. \A k \in 1 .. n + 1 : v[k] \in Nat
  BY <1>1, VolumesStep DEF Small, InsideOf
<1> HIDE DEF n, x, y, v
<1>5. x[j].index < y[j].index
  <2> DEFINE p == x[j + 1].index
             q == y[j + 1].index
             w == v[j + 1]
  <2>1. p \in Nat /\ q \in Nat /\ w \in Nat /\ p < w /\ s[j] \in Nat /\ t[j] \in Nat
    BY <1>1, <1>2, <1>3, <1>4
  <2>2. x[j].index = p + w * s[j] /\ y[j].index = q + w * t[j]
    BY <1>1, <1>3
  <2> HIDE DEF p, q, w
  <2>3. p + w * s[j] < t[j] * w /\ p + w * s[j] \in Nat
    BY <2>1, BelowProduct
  <2>4. t[j] * w = w * t[j] /\ w * t[j] \in Nat
    BY <2>1
  <2> QED
    BY <2>1, <2>2, <2>3, <2>4
<1>6. T \in SUBSET (1 .. (j - 1) + 1) /\ (j - 1) + 1 \in T /\ j - 1 \in Nat
  BY <1>1, <1>5
<1>7. ASSUME NEW i \in 1 .. j - 1, i + 1 \in T PROVE i \in T
  <2> DEFINE p == x[i + 1].index
             q == y[i + 1].index
             w == v[i + 1]
  <2>1. p \in Nat /\ q \in Nat /\ w \in Nat /\ p < q /\ s[i] \in Nat /\ t[i] = s[i] /\ i \in 1 .. j
    <3>1. i \in 1 .. n /\ i \in 1 .. j /\ i + 1 \in 1 .. n + 1
      BY <1>1
    <3>2. p \in Nat /\ q \in Nat
      BY <1>3, <3>1
    <3>3. w \in Nat
      BY <1>4, <3>1
    <3>4. p < q
      BY <1>7
    <3>5. s[i] \in Nat /\ t[i] = s[i]
      BY <1>2, <3>1
    <3> QED
      BY <3>1, <3>2, <3>3, <3>4, <3>5
  <2>2. x[i].index = p + w * s[i] /\ y[i].index = q + w * t[i]
    <3>1. i \in 1 .. n
      BY <1>1
    <3> QED
      BY <1>3, <3>1, Zenon
  <2> HIDE DEF p, q, w
  <2>3. w * s[i] \in Nat /\ w * t[i] = w * s[i]
    BY <2>1, ProductIsNat
  <2>4. x[i].index < y[i].index
    BY <2>1, <2>2, <2>3
  <2> QED
    BY <2>1, <2>4
<1>8. 1 \in T
  <2> HIDE DEF T
  <2>1. \A i \in 1 .. (j - 1) + 1 : i \in T
    BY <1>6, <1>7, Descent
  <2> QED
    BY <1>1, <2>1
<1> QED
  BY <1>8 DEF Index, x, y

LEMMA Division ==
  ASSUME NEW k \in Nat, NEW d \in Nat, NEW w \in Nat, k < d * w
  PROVE  \E q \in Nat, r \in Nat : q < d /\ r < w /\ k = r + w * q
<1> DEFINE q == k \div w
           r == k % w
<1>1. w > 0
  OBVIOUS
<1>2. q \in Nat /\ r \in Nat /\ r < w /\ k = w * q + r
  BY <1>1
<1>3. q < d
  <2> SUFFICES ASSUME d <= q PROVE FALSE
    BY <1>2
  <2>1. w * d <= w * q
    BY <1>2, ProductGrows
  <2>2. w * d = d * w /\ w * q \in Nat /\ w * d \in Nat
    BY <1>2
  <2> QED
    BY <1>2, <2>1, <2>2
<1> HIDE DEF q, r
<1>4. w * q \in Nat
  BY <1>2, ProductIsNat
<1>5. k = r + w * q
  BY <1>2, <1>4
<1> QED
  BY <1>2, <1>3, <1>5

(* Two tuples differ first in one dimension. *)
LEMMA FirstDifference ==
  ASSUME NEW s, NEW t, InsideOf(s), InsideOf(t), s # t
  PROVE  \E j \in 1 .. Len(t) :
           (s[j] < t[j] \/ t[j] < s[j]) /\ \A k \in 1 .. j - 1 : s[k] = t[k]
<1> DEFINE n == Len(t)
           U == {j \in 1 .. n : s[j] # t[j]}
<1>1. n \in Nat /\ s \in [1 .. n -> Nat] /\ t \in [1 .. n -> Nat]
  BY SMTT(30), ZenonT(60) DEF InsideOf
<1> HIDE DEF n
<1>2. U # {}
  BY <1>1
<1>3. U \in SUBSET Nat
  BY <1>1
<1>4. PICK j \in U : \A m \in U : j <= m
  BY <1>2, <1>3, LeastNumber
<1>5. j \in 1 .. n /\ s[j] # t[j] /\ s[j] \in Nat /\ t[j] \in Nat
  BY <1>1, <1>4
<1>6. \A k \in 1 .. j - 1 : s[k] = t[k]
  <2> TAKE k \in 1 .. j - 1
  <2>1. k \in 1 .. n /\ ~(j <= k)
    BY <1>1, <1>5
  <2> QED
    BY <1>4, <2>1
<1>7. s[j] < t[j] \/ t[j] < s[j]
  BY <1>5
<1> QED
  BY <1>5, <1>6, <1>7 DEF n

LEMMA IndexIsNat ==
  ASSUME Small, NEW t, InsideOf(t)
  PROVE  Index(t) \in Nat /\ Index(t) < Product(arrayDimensions)
<1>1. 1 \in 1 .. Len(t) + 1
  BY DEF InsideOf
<1> QED
  BY <1>1, LoopIsExact DEF Index, Product

(* arrayIndex() orders the tuples, so no two have the same index. *)
LEMMA IndexOrders ==
  ASSUME Small, NEW s, NEW t, InsideOf(s), InsideOf(t)
  PROVE  /\ Precedes(s, t) <=> Index(s) < Index(t)
         /\ Index(s) = Index(t) => s = t
<1>1. Index(s) \in Nat /\ Index(t) \in Nat /\ Len(s) = Len(t) /\ DOMAIN t = 1 .. Len(t)
  BY IndexIsNat DEF InsideOf
<1>2. ASSUME Precedes(s, t) PROVE Index(s) < Index(t)
  <2>1. PICK j \in 1 .. Len(t) : s[j] < t[j] /\ \A k \in 1 .. j - 1 : s[k] = t[k]
    BY <1>1, <1>2 DEF Precedes
  <2> QED
    BY <2>1, OrderIsKept
<1>3. CASE s = t
  BY <1>1, <1>2, <1>3
<1>4. CASE s # t
  <2>1. PICK j \in 1 .. Len(t) :
          (s[j] < t[j] \/ t[j] < s[j]) /\ \A k \in 1 .. j - 1 : s[k] = t[k]
    BY <1>4, FirstDifference
  <2>2. CASE s[j] < t[j]
    <3>1. Index(s) < Index(t)
      BY <2>1, <2>2, OrderIsKept
    <3>2. Precedes(s, t)
      BY <1>1, <2>1, <2>2 DEF Precedes
    <3> QED
      BY <1>1, <3>1, <3>2
  <2>3. CASE t[j] < s[j]
    <3>1. j \in 1 .. Len(s) /\ \A k \in 1 .. j - 1 : t[k] = s[k]
      BY <1>1, <2>1
    <3>2. Index(t) < Index(s)
      BY <2>3, <3>1, OrderIsKept
    <3> QED
      BY <1>1, <1>2, <3>2
  <2> QED
    BY <2>1, <2>2, <2>3
<1> QED
  BY <1>3, <1>4

(* Every number less than the product is the index of a tuple. *)
LEMMA IndexIsOnto ==
  ASSUME Small, NEW t, InsideOf(t), NEW k \in Nat, k < Product(arrayDimensions)
  PROVE  \E s : InsideOf(s) /\ Index(s) = k
<1> DEFINE n == Len(t)
           d == arrayDimensions
           v == Volumes(arrayDimensions)
           Reached(i, m) == \E s : InsideOf(s) /\ Loop(s)[i].index = m
           T == {i \in 1 .. n + 1 : \A m \in Nat : m < v[i] => Reached(i, m)}
<1>1. n \in Nat /\ n = Len(d) /\ d \in Seq(Nat)
  BY DEF Small, InsideOf
<1>2. v \in [1 .. n + 1 -> Nat] /\ v[n + 1] = 1 /\ \A i \in 1 .. n : v[i] = d[i] * v[i + 1]
  <2> HIDE DEF n, d
  <2>1. /\ Volumes(d) \in [1 .. Len(d) + 1 -> Nat]
        /\ Volumes(d)[Len(d) + 1] = 1
        /\ \A i \in 1 .. Len(d) : Volumes(d)[i] = d[i] * Volumes(d)[i + 1]
    BY <1>1, VolumesStep
  <2>2. v = Volumes(d)
    BY Zenon DEF d
  <2> HIDE DEF v
  <2> QED
    BY <1>1, <2>1, <2>2, Zenon
<1>3. n + 1 \in T
  <2>1. n + 1 \in 1 .. n + 1
    BY <1>1
  <2>2. ASSUME NEW m \in Nat, m < v[n + 1] PROVE Reached(n + 1, m)
    <3>1. m = 0
      BY <1>2, <2>2
    <3>2. Loop(t)[n + 1].index = 0
      BY LoopIsExact
    <3> QED
      BY <3>1, <3>2
  <2> HIDE DEF v, Reached
  <2> QED
    BY <2>1, <2>2
<1>4. ASSUME NEW i \in 1 .. n, i + 1 \in T PROVE i \in T
  <2>1. i \in 1 .. n + 1
    BY <1>1
  <2>2. ASSUME NEW m \in Nat, m < v[i] PROVE Reached(i, m)
    <3> DEFINE w == v[i + 1]
    <3>1. w \in Nat /\ d[i] \in Nat /\ v[i] = d[i] * w
      BY <1>1, <1>2, SMTT(30), ZenonT(60)
    <3> HIDE DEF d, v, w
    <3>2. m < d[i] * w
      BY <2>2, <3>1
    <3>3. PICK q \in Nat, r \in Nat : q < d[i] /\ r < w /\ m = r + w * q
      BY <3>1, <3>2, Division
    <3>4. Reached(i + 1, r)
      BY <1>4, <3>3 DEF w
    <3>5. PICK s : InsideOf(s) /\ Loop(s)[i + 1].index = r
      BY <3>4
    <3> DEFINE u == [s EXCEPT ![i] = q]
    <3>6. Len(s) = n /\ s \in [1 .. n -> Nat] /\ \A j \in 1 .. n : s[j] < d[j]
      BY <3>5 DEF InsideOf, d
    <3>7. u \in [1 .. n -> Nat] /\ u[i] = q /\ \A j \in 1 .. n : j # i => u[j] = s[j]
      BY <3>6
    <3> HIDE DEF u, n
    <3>8. \A j \in 1 .. n : u[j] < d[j]
      BY <3>3, <3>6, <3>7
    <3>9. u \in Seq(Nat) /\ Len(u) = n
      BY <1>1, <3>7
    <3>10. InsideOf(u)
      BY <1>1, <3>8, <3>9 DEF InsideOf, d
    <3>11. Loop(u)[i + 1].index = r
      <4>1. i + 1 \in 1 .. Len(u) + 1 /\ \A j \in i + 1 .. Len(u) : s[j] = u[j]
        BY <1>1, <3>7, <3>9
      <4> QED
        BY <3>5, <3>10, <4>1, LaterIndicesDecide
    <3>12. Loop(u)[i].index = Loop(u)[i + 1].index + w * u[i]
      BY <3>9, <3>10, LoopIsExact DEF w, v
    <3>13. Loop(u)[i].index = m
      BY <3>3, <3>7, <3>11, <3>12
    <3> QED
      BY <3>10, <3>13
  <2> HIDE DEF v, Reached
  <2> QED
    BY <2>1, <2>2
<1>5. 1 \in T
  <2> HIDE DEF T
  <2>1. T \in SUBSET (1 .. n + 1)
    BY DEF T
  <2>2. \A i \in 1 .. n + 1 : i \in T
    BY <1>1, <1>3, <1>4, <2>1, Descent
  <2> QED
    BY <1>1, <2>2
<1> QED
  BY <1>5 DEF Index, Product

(* arrayIndex() is the rank of a tuple in any set that has just the tuples *)
(* in bounds.                                                              *)
LEMMA IndexIsRank ==
  ASSUME Small, NEW B, \A s : s \in B <=> InsideOf(s), NEW t \in B
  PROVE  Cardinality({s \in B : Precedes(s, t)}) = Index(t)
<1> DEFINE P == {s \in B : Precedes(s, t)}
           f == [k \in 1 .. Index(t) |-> CHOOSE s : InsideOf(s) /\ Index(s) = k - 1]
<1>1. InsideOf(t) /\ Index(t) \in Nat /\ Index(t) < Product(arrayDimensions)
      /\ Product(arrayDimensions) \in Nat
  <2>1. InsideOf(t)
    OBVIOUS
  <2>2. 1 \in 1 .. Len(arrayDimensions) + 1
    BY DEF Small
  <2>3. Product(arrayDimensions) \in Nat
    BY <2>2, VolumesStep DEF Small, Product
  <2> QED
    BY <2>1, <2>3, IndexIsNat
<1>2. \A k \in 1 .. Index(t) : InsideOf(f[k]) /\ Index(f[k]) = k - 1
  <2> TAKE k \in 1 .. Index(t)
  <2>1. k - 1 \in Nat /\ k - 1 < Product(arrayDimensions)
    BY <1>1
  <2>2. \E s : InsideOf(s) /\ Index(s) = k - 1
    BY <1>1, <2>1, IndexIsOnto
  <2>3. f[k] = CHOOSE s : InsideOf(s) /\ Index(s) = k - 1
    OBVIOUS
  <2> HIDE DEF f
  <2> QED
    BY <2>2, <2>3
<1>3. DOMAIN f = 1 .. Index(t) /\ f = [k \in 1 .. Index(t) |-> f[k]]
  OBVIOUS
<1> HIDE DEF f
<1>4. f \in [1 .. Index(t) -> P]
  <2>1. \A k \in 1 .. Index(t) : f[k] \in P
    <3> TAKE k \in 1 .. Index(t)
    <3>1. InsideOf(f[k]) /\ Index(f[k]) < Index(t)
      BY <1>1, <1>2
    <3>2. Precedes(f[k], t)
      BY <1>1, <3>1, IndexOrders
    <3> QED
      BY <3>1, <3>2
  <2> QED
    BY <1>3, <2>1
<1>5. \A k, m \in 1 .. Index(t) : f[k] = f[m] => k = m
  <2> TAKE k, m \in 1 .. Index(t)
  <2>1. Index(f[k]) = k - 1 /\ Index(f[m]) = m - 1 /\ k \in Int /\ m \in Int
    BY <1>1, <1>2
  <2> QED
    BY <2>1
<1>6. \A s \in P : \E k \in 1 .. Index(t) : f[k] = s
  <2> TAKE s \in P
  <2>1. InsideOf(s) /\ Precedes(s, t)
    OBVIOUS
  <2>2. Index(s) \in Nat /\ Index(s) < Index(t)
    BY <1>1, <2>1, IndexIsNat, IndexOrders
  <2>3. Index(s) + 1 \in 1 .. Index(t)
    BY <1>1, <2>2
  <2> DEFINE u == f[Index(s) + 1]
  <2>4. InsideOf(u) /\ Index(u) = Index(s)
    BY <1>2, <2>2, <2>3
  <2> HIDE DEF u
  <2>5. u = s
    BY <2>1, <2>4, IndexOrders
  <2> QED
    BY <2>3, <2>5 DEF u
<1> HIDE DEF P
<1>7. f \in Bijection(1 .. Index(t), P)
  BY <1>3, <1>4, <1>5, <1>6 DEF Bijection, Injection, Surjection, IsInjective
<1>8. ExistsBijection(1 .. Index(t), P)
  BY <1>7 DEF ExistsBijection
<1>9. Cardinality(P) = Index(t)
  BY <1>1, <1>8, FS_CountingElements
<1> QED
  BY <1>9 DEF P

-----------------------------------------------------------------------------
(* The array.                                                              *)

LEMMA DimensionsAreLists ==
  ASSUME NEW dims \in Dimensions
  PROVE  /\ dims \in Seq(Nat) /\ DOMAIN dims = 1 .. Len(dims)
         /\ \A i \in DOMAIN dims : dims[i] \in Lengths
<1>1. PICK n \in 0 .. MaxRank : dims \in [1 .. n -> Lengths]
  BY DEF Dimensions
<1>2. n \in Nat /\ Lengths \subseteq Nat
  BY ArrayBoundsAssumption, LengthsAssumption, ModulusAssumption
<1>3. dims \in [1 .. n -> Nat]
  BY <1>1, <1>2
<1>4. dims \in Seq(Nat) /\ Len(dims) = n /\ DOMAIN dims = 1 .. n
  BY <1>2, <1>3
<1> QED
  BY <1>1, <1>4

LEMMA TuplesAreLists ==
  ASSUME arrayDimensions \in Dimensions, NEW t \in Tuples
  PROVE  t \in Seq(Nat) /\ Len(t) = Len(arrayDimensions) /\ DOMAIN t = 1 .. Len(t)
<1> DEFINE n == Len(arrayDimensions)
<1>1. n \in Nat /\ DOMAIN arrayDimensions = 1 .. n
  BY DimensionsAreLists
<1>2. UNION {0 .. m : m \in Lengths} \subseteq Nat
  BY LengthsAssumption, ModulusAssumption
<1>3. t \in [1 .. n -> UNION {0 .. m : m \in Lengths}]
  BY <1>1 DEF Tuples
<1> HIDE DEF n
<1>4. t \in [1 .. n -> Nat]
  BY <1>2, <1>3
<1>5. t \in Seq(Nat) /\ Len(t) = n /\ DOMAIN t = 1 .. n
  BY <1>1, <1>4
<1> QED
  BY <1>5 DEF n

LEMMA InBoundsIsBounded ==
  ASSUME arrayDimensions \in Dimensions
  PROVE  \A t : t \in InBounds <=> InsideOf(t)
<1> TAKE t
<1> DEFINE d == arrayDimensions
<1>1. d \in Seq(Nat) /\ DOMAIN d = 1 .. Len(d) /\ \A i \in DOMAIN d : d[i] \in Lengths
  BY DimensionsAreLists
<1>2. ASSUME t \in InBounds PROVE InsideOf(t)
  <2>1. t \in Tuples /\ \A i \in DOMAIN t : t[i] < d[i]
    BY <1>2 DEF InBounds
  <2> QED
    BY <2>1, TuplesAreLists DEF InsideOf
<1>3. ASSUME InsideOf(t) PROVE t \in InBounds
  <2>1. t \in Seq(Nat) /\ Len(t) = Len(d) /\ \A i \in 1 .. Len(t) : t[i] < d[i]
    BY <1>3 DEF InsideOf
  <2>2. t \in [1 .. Len(d) -> Nat]
    BY <2>1
  <2>3. \A i \in DOMAIN d : t[i] < d[i] /\ t[i] \in Nat /\ d[i] \in Nat /\ d[i] \in Lengths
    BY <1>1, <2>1
  <2>4. \A i \in DOMAIN d : t[i] <= d[i] /\ t[i] \in UNION {0 .. m : m \in Lengths}
    <3> TAKE i \in DOMAIN d
    <3>1. t[i] \in 0 .. d[i] /\ t[i] <= d[i]
      BY <2>3
    <3> QED
      BY <2>3, <3>1
  <2>5. t \in [DOMAIN d -> UNION {0 .. m : m \in Lengths}] /\ DOMAIN t = DOMAIN d
    BY <1>1, <2>2, <2>4
  <2>6. t \in Tuples
    BY <2>4, <2>5 DEF Tuples
  <2> QED
    BY <2>3, <2>5, <2>6 DEF InBounds
<1> QED
  BY <1>2, <1>3

LEMMA ExpectedLengthStep ==
  ASSUME NEW dims \in Seq(Nat)
  PROVE  \E h : /\ ExpectedLength(dims) = h[Len(dims)] /\ h[0] = 1
                /\ \A m \in 0 .. Len(dims) : h[m] \in 0 .. Modulus - 1
                /\ \A m \in 1 .. Len(dims) : h[m] = (h[m - 1] * dims[m]) % Modulus
<1> DEFINE n == Len(dims)
           S == 0 .. Modulus - 1
           P(f) == f = [m \in 0 .. n |-> IF m = 0 THEN 1 ELSE (f[m - 1] * dims[m]) % Modulus]
           G == [i \in 1 .. n |-> [x \in S |-> (x * dims[n + 1 - i]) % Modulus]]
<1>1. n \in Nat /\ \A i \in 1 .. n : dims[i] \in Nat
  OBVIOUS
<1>2. ExpectedLength(dims) = (CHOOSE h : P(h))[n]
  BY Zenon DEF ExpectedLength
<1> HIDE DEF n
<1>3. \A x \in S, i \in 1 .. n : (x * dims[i]) % Modulus \in S
  <2> TAKE x \in S, i \in 1 .. n
  <2>1. x \in Nat /\ dims[i] \in Nat
    BY <1>1
  <2>2. x * dims[i] \in Nat
    BY <2>1, ProductIsNat
  <2> DEFINE y == x * dims[i]
  <2> HIDE DEF y
  <2>3. y % Modulus \in Nat /\ y % Modulus <= Modulus - 1
    BY <2>2, RemainderIsNat DEF y
  <2>4. y % Modulus \in S
    BY <2>3, ModulusAssumption
  <2> QED
    BY <2>4 DEF y
<1>4. 1 \in S
  BY ModulusAssumption
<1>5. G \in [1 .. n -> [S -> S]]
  <2>1. \A i \in 1 .. n : n + 1 - i \in 1 .. n
    BY <1>1
  <2> HIDE DEF S
  <2>2. \A i \in 1 .. n : [x \in S |-> (x * dims[n + 1 - i]) % Modulus] \in [S -> S]
    BY <1>3, <2>1
  <2> QED
    BY <2>2
<1> HIDE DEF S, G
<1>6. PICK f : Defined(f, n, S, 1, G)
  BY <1>1, <1>4, <1>5, RecursionExists
<1> DEFINE g == [m \in 0 .. n |-> f[n + 1 - m]]
<1>7. /\ \A i \in 1 .. n + 1 : f[i] \in S
      /\ f[n + 1] = 1
      /\ \A i \in 1 .. n : f[i] = (f[i + 1] * dims[n + 1 - i]) % Modulus
  <2>1. f \in [1 .. n + 1 -> S] /\ f[n + 1] = 1 /\ \A i \in 1 .. n : f[i] = G[i][f[i + 1]]
    BY <1>6 DEF Defined
  <2>2. \A i \in 1 .. n : f[i + 1] \in S
    BY <1>1, <2>1
  <2>3. \A i \in 1 .. n : G[i][f[i + 1]] = (f[i + 1] * dims[n + 1 - i]) % Modulus
    BY <2>2 DEF G
  <2> QED
    BY <2>1, <2>3
<1>8. P(g)
  <2>1. g[0] = 1
    BY <1>1, <1>7
  <2>2. \A m \in 1 .. n : g[m] = (g[m - 1] * dims[m]) % Modulus
    <3> TAKE m \in 1 .. n
    <3>1. /\ m \in 0 .. n /\ m - 1 \in 0 .. n /\ n + 1 - m \in 1 .. n
          /\ n + 1 - (n + 1 - m) = m /\ (n + 1 - m) + 1 = n + 1 - (m - 1)
      BY <1>1
    <3>2. g[m] = f[n + 1 - m] /\ g[m - 1] = f[n + 1 - (m - 1)]
      BY <3>1
    <3>3. f[n + 1 - m] = (f[(n + 1 - m) + 1] * dims[n + 1 - (n + 1 - m)]) % Modulus
      BY <1>7, <3>1
    <3> HIDE DEF g
    <3> QED
      BY <3>1, <3>2, <3>3, Zenon
  <2>3. g = [m \in 0 .. n |-> g[m]]
    OBVIOUS
  <2> HIDE DEF g
  <2>4. \A m \in 0 .. n : g[m] = IF m = 0 THEN 1 ELSE (g[m - 1] * dims[m]) % Modulus
    BY <1>1, <2>1, <2>2
  <2> QED
    BY <2>3, <2>4
<1> HIDE DEF g
<1>9. P(CHOOSE h : P(h))
  <2> HIDE DEF P
  <2> QED
    BY <1>8, Zenon
<1> DEFINE h == CHOOSE h : P(h)
<1>10. \A m \in 0 .. n : h[m] = IF m = 0 THEN 1 ELSE (h[m - 1] * dims[m]) % Modulus
  <2>1. P(h)
    <3> HIDE DEF P
    <3> QED
      BY <1>9
  <2> HIDE DEF h
  <2> QED
    BY <2>1
<1> HIDE DEF h, P
<1> DEFINE T == {i \in 1 .. n + 1 : h[n + 1 - i] \in S}
<1>11. n + 1 \in T
  <2>1. h[0] = 1 /\ n + 1 - (n + 1) = 0 /\ n + 1 \in 1 .. n + 1
    BY <1>1, <1>10
  <2> QED
    BY <1>4, <2>1
<1>12. ASSUME NEW i \in 1 .. n, i + 1 \in T PROVE i \in T
  <2> DEFINE m == n + 1 - i
  <2>1. m \in 1 .. n /\ m \in 0 .. n /\ m # 0 /\ m - 1 = n + 1 - (i + 1) /\ i \in 1 .. n + 1
    BY <1>1
  <2>2. h[m - 1] \in S
    BY <1>12, <2>1
  <2> HIDE DEF m
  <2>3. h[m] = (h[m - 1] * dims[m]) % Modulus
    BY <1>10, <2>1
  <2>4. h[m] \in S
    BY <1>3, <2>1, <2>2, <2>3
  <2> QED
    BY <2>1, <2>4 DEF m
<1>13. \A m \in 0 .. n : h[m] \in S
  <2> TAKE m \in 0 .. n
  <2>1. T \in SUBSET (1 .. n + 1)
    OBVIOUS
  <2> HIDE DEF T
  <2>2. \A i \in 1 .. n + 1 : i \in T
    BY <1>1, <1>11, <1>12, <2>1, Descent
  <2>3. n + 1 - m \in T /\ n + 1 - (n + 1 - m) = m
    BY <1>1, <2>2
  <2> QED
    BY <2>3 DEF T
<1>14. h[0] = 1 /\ \A m \in 1 .. n : h[m] = (h[m - 1] * dims[m]) % Modulus
  <2>1. 0 \in 0 .. n /\ \A m \in 1 .. n : m \in 0 .. n /\ m # 0
    BY <1>1
  <2> QED
    BY <1>10, <2>1
<1>15. ExpectedLength(dims) = h[n]
  BY <1>2 DEF h
<1> QED
  BY <1>13, <1>14, <1>15 DEF n, S

LEMMA ExpectedLengthIsQuint32 ==
  ASSUME NEW dims \in Dimensions
  PROVE  ExpectedLength(dims) \in 0 .. Modulus - 1
<1>1. dims \in Seq(Nat) /\ Len(dims) \in 0 .. Len(dims)
  BY DimensionsAreLists
<1> QED
  BY <1>1, ExpectedLengthStep

(* One multiplication of std::accumulate(): the product p of all lengths   *)
(* is that of the lengths so far and of the others, but for a multiple.    *)
Congruent(x, p) == \E k \in Nat : x + k * Modulus = p

LEMMA Wrapped ==
  ASSUME NEW a \in Nat, NEW d \in Nat, NEW w \in Nat, NEW p \in Nat, Congruent(a * (d * w), p)
  PROVE  Congruent(((a * d) % Modulus) * w, p)
<1>chain. PICK k \in Nat : a * (d * w) + k * Modulus = p
  BY DEF Congruent
<1> DEFINE x == a * d
           h == x % Modulus
           q == x \div Modulus
<1>1. x \in Nat /\ Modulus \in Nat /\ Modulus > 0
  BY ModulusAssumption
<1>2. a * (d * w) = x * w
  OBVIOUS
<1> HIDE DEF x
<1>3. h \in Nat /\ q \in Nat /\ x = Modulus * q + h
  BY <1>1
<1> HIDE DEF h, q
<1>4. x * w = (q * w) * Modulus + h * w
  BY <1>1, <1>3
<1>5. q * w \in Nat /\ h * w \in Nat /\ k * Modulus \in Nat /\ (q * w) * Modulus \in Nat
  BY <1>1, <1>3
<1>6. (q * w + k) * Modulus = (q * w) * Modulus + k * Modulus
  BY <1>1, <1>5
<1>7. h * w + (q * w + k) * Modulus = p
  BY <1>chain, <1>2, <1>4, <1>5, <1>6
<1>8. q * w + k \in Nat
  BY <1>5
<1>9. ((a * d) % Modulus) * w + (q * w + k) * Modulus = p
  BY <1>7 DEF h, x
<1> QED
  BY <1>8, <1>9 DEF Congruent

(* The cached length is the number of elements as long as that is a quint32, *)
(* although the products on the way to it may wrap.                          *)
LEMMA ExpectedLengthIsProduct ==
  ASSUME NEW dims \in Seq(Nat), Product(dims) < Modulus
  PROVE  ExpectedLength(dims) = Product(dims)
<1> DEFINE n == Len(dims)
           v == Volumes(dims)
           p == Product(dims)
<1>1. PICK h : /\ ExpectedLength(dims) = h[n] /\ h[0] = 1
               /\ \A m \in 0 .. n : h[m] \in 0 .. Modulus - 1
               /\ \A m \in 1 .. n : h[m] = (h[m - 1] * dims[m]) % Modulus
  BY ExpectedLengthStep
<1>2. v \in [1 .. n + 1 -> Nat] /\ v[n + 1] = 1 /\ \A i \in 1 .. n : v[i] = dims[i] * v[i + 1]
  BY VolumesStep
<1>3. n \in Nat /\ (\A i \in 1 .. n : dims[i] \in Nat) /\ p = v[1]
  BY DEF Product
<1>4. p \in Nat /\ p < Modulus /\ Modulus \in Nat /\ Modulus > 1
  <2>1. 1 \in 1 .. n + 1
    BY <1>3
  <2> HIDE DEF n, v
  <2> QED
    BY <1>2, <1>3, <2>1, ModulusAssumption
<1> HIDE DEF n, v, p
<1> DEFINE C(m) == Congruent(h[m] * v[m + 1], p)
           T == {i \in 1 .. n + 1 : C(n + 1 - i)}
<1>5. n + 1 \in T
  <2>1. h[0] * v[0 + 1] + 0 * Modulus = p
    BY <1>1, <1>3, <1>4
  <2>2. C(0)
    BY <2>1 DEF Congruent
  <2> HIDE DEF C
  <2> QED
    BY <1>3, <2>2
<1>6. ASSUME NEW i \in 1 .. n, i + 1 \in T PROVE i \in T
  <2> DEFINE m == n + 1 - i
  <2>1. m \in 1 .. n /\ m - 1 \in 0 .. n /\ m - 1 = n + 1 - (i + 1) /\ i \in 1 .. n + 1
        /\ (m - 1) + 1 = m /\ m + 1 \in 1 .. n + 1
    BY <1>3
  <2>2. C(m - 1)
    BY <1>6, <2>1
  <2> HIDE DEF m
  <2>3. h[m - 1] \in Nat /\ dims[m] \in Nat /\ v[m + 1] \in Nat /\ v[m] = dims[m] * v[m + 1]
    BY <1>1, <1>2, <1>3, <1>4, <2>1
  <2>4. Congruent(h[m - 1] * (dims[m] * v[m + 1]), p)
    BY <2>1, <2>2, <2>3, Zenon
  <2>5. Congruent(((h[m - 1] * dims[m]) % Modulus) * v[m + 1], p)
    BY <1>4, <2>3, <2>4, Wrapped, Zenon
  <2>6. C(m)
    BY <1>1, <2>1, <2>5, Zenon
  <2> HIDE DEF C
  <2> QED
    BY <2>1, <2>6 DEF m
<1>7. C(n)
  <2>1. T \in SUBSET (1 .. n + 1)
    OBVIOUS
  <2> HIDE DEF T
  <2>2. \A i \in 1 .. n + 1 : i \in T
    BY <1>3, <1>5, <1>6, <2>1, Descent
  <2>3. 1 \in T /\ n + 1 - 1 = n
    BY <1>3, <2>2
  <2> HIDE DEF C
  <2> QED
    BY <2>3 DEF T
<1>8. PICK k \in Nat : h[n] * v[n + 1] + k * Modulus = p
  BY <1>7 DEF Congruent
<1>9. h[n] \in Nat /\ h[n] + k * Modulus = p
  BY <1>1, <1>2, <1>3, <1>4, <1>8
<1>10. k = 0
  <2> SUFFICES ASSUME k >= 1 PROVE FALSE
    OBVIOUS
  <2>1. Modulus * 1 <= Modulus * k
    BY <1>4, ProductGrows
  <2>2. Modulus * 1 = Modulus /\ Modulus * k = k * Modulus /\ k * Modulus \in Nat
    BY <1>4
  <2> DEFINE x == k * Modulus
             y == h[n]
  <2>3. x \in Nat /\ Modulus <= x /\ y \in Nat /\ y + x = p
    BY <1>9, <2>1, <2>2
  <2> HIDE DEF x, y
  <2> QED
    BY <1>4, <2>3
<1>11. h[n] = p
  BY <1>4, <1>9, <1>10
<1> QED
  BY <1>1, <1>11 DEF p

LEMMA LoopUnchanged ==
  ASSUME arrayDimensions' = arrayDimensions, NEW t
  PROVE  Loop(t)' = Loop(t)
BY DEF Loop, NextStride

LEMMA ArrayUnchanged ==
  ASSUME arrayDimensions' = arrayDimensions, expectedArrayLength' = expectedArrayLength,
         Len(value') = Len(value), NEW t
  PROVE  /\ Fits(t)' <=> Fits(t)
         /\ arrayIndex(t)' = arrayIndex(t)
         /\ (t \in Tuples)' <=> t \in Tuples
         /\ Product(arrayDimensions)' = Product(arrayDimensions)
<1>1. Fits(t)' <=> Fits(t)
  BY DEF Fits
<1>2. Loop(t)' = Loop(t)
  BY LoopUnchanged
<1>3. (t \in Tuples)' <=> t \in Tuples
  BY DEF Tuples
<1>4. Product(arrayDimensions)' = Product(arrayDimensions)
  OBVIOUS
<1> QED
  BY <1>1, <1>2, <1>3, <1>4 DEF arrayIndex

(* What fits is in bounds, and its index is that of the loop.              *)
LEMMA FittingIndex ==
  ASSUME ArrayTypeOK, Product(arrayDimensions) <= IntMax, NEW t \in Tuples, Fits(t)
  PROVE  Small /\ InsideOf(t) /\ arrayIndex(t) = Index(t) /\ arrayIndex(t) \in Nat
<1>1. arrayDimensions \in Dimensions
  BY DEF ArrayTypeOK
<1>2. Small
  BY <1>1, DimensionsAreLists DEF Small
<1>3. InsideOf(t)
  BY <1>1, TuplesAreLists DEF Fits, InsideOf
<1>4. Index(t) \in Nat /\ Index(t) < Product(arrayDimensions)
  BY <1>2, <1>3, IndexIsNat
<1>5. Product(arrayDimensions) \in Nat
  <2>1. 1 \in 1 .. Len(arrayDimensions) + 1 /\ arrayDimensions \in Seq(Nat)
    BY <1>1, DimensionsAreLists
  <2> QED
    BY <2>1, VolumesStep DEF Product
<1>6. Index(t) <= IntMax
  BY <1>4, <1>5, IntMaxBound
<1>7. arrayIndex(t) = Index(t)
  BY <1>6 DEF arrayIndex, Index
<1> QED
  BY <1>2, <1>3, <1>4, <1>7

(* The cached length is that of the dimensions. *)
Cached == Unset \/ expectedArrayLength = ExpectedLength(arrayDimensions)

(* The tuples under which a value is stored are still those of an element. *)
ArrayInv ==
  /\ ArrayTypeOK
  /\ Cached
  /\ \A t \in DOMAIN sets : t \in Tuples /\ arrayIndex(t) \in 0 .. Len(value) - 1
  /\ ArrayHoldsWhatWasSet

LEMMA NothingSet ==
  ASSUME sets = <<>>
  PROVE  DOMAIN sets = {}
OBVIOUS

LEMMA EmptyListIsList ==
  ASSUME NEW n \in Nat
  PROVE  [i \in 1 .. n |-> Empty] \in Seq(Elements \cup {Empty})
OBVIOUS

LEMMA ArrayInitially == ArrayInit => ArrayInv
<1> SUFFICES ASSUME ArrayInit PROVE ArrayInv
  OBVIOUS
<1>1. DOMAIN sets = {}
  BY NothingSet DEF ArrayInit
<1>2. CASE DefaultArray
  <2>1. <<>> \in Dimensions
    <3>1. 0 \in 0 .. MaxRank /\ <<>> \in [1 .. 0 -> Lengths]
      BY ArrayBoundsAssumption
    <3> QED
      BY <3>1 DEF Dimensions
  <2>2. 0 \in 0 .. Modulus - 1 /\ <<>> \in Seq(Elements \cup {Empty})
    BY ModulusAssumption
  <2> QED
    BY <1>1, <1>2, <2>1, <2>2
       DEF ArrayInv, ArrayTypeOK, Cached, Unset, ArrayHoldsWhatWasSet, DefaultArray
<1>3. ASSUME NEW dims \in Dimensions, AllocatedArray(dims) PROVE ArrayInv
  <2>1. ExpectedLength(dims) \in 0 .. Modulus - 1
    BY ExpectedLengthIsQuint32
  <2>2. ExpectedLength(dims) \in Nat
    BY <2>1, ModulusAssumption
  <2>3. [i \in 1 .. ExpectedLength(dims) |-> Empty] \in Seq(Elements \cup {Empty})
    BY <2>2, EmptyListIsList
  <2> QED
    BY <1>1, <1>3, <2>1, <2>3
       DEF ArrayInv, ArrayTypeOK, Cached, ArrayHoldsWhatWasSet, AllocatedArray
<1> QED
  BY <1>2, <1>3 DEF ArrayInit

LEMMA SetValueKeeps ==
  ASSUME ArrayInv, NEW indices \in Tuples, NEW v \in Elements, setValue(indices, v)
  PROVE  ArrayInv'
<1> DEFINE k == arrayIndex(indices)
<1>1. /\ k \in 0 .. Len(value) - 1
      /\ value' = [value EXCEPT ![k + 1] = v]
      /\ sets' = Stored(indices, v)
      /\ arrayDimensions' = arrayDimensions /\ expectedArrayLength' = expectedArrayLength
  BY DEF setValue
<1>2. /\ ArrayTypeOK
      /\ \A t \in DOMAIN sets : t \in Tuples /\ arrayIndex(t) \in 0 .. Len(value) - 1
      /\ ArrayHoldsWhatWasSet
  BY DEF ArrayInv
<1>3. \A t : arrayIndex(t) \in 0 .. Len(value) - 1 => Fits(t)
  <2> TAKE t
  <2>1. arrayIndex(t) \in 0 .. Len(value) - 1 => arrayIndex(t) # -1
    BY <1>2 DEF ArrayTypeOK
  <2> QED
    BY <2>1 DEF arrayIndex
<1> HIDE DEF k
<1>4. /\ value \in Seq(Elements \cup {Empty}) /\ Len(value) \in Nat
      /\ k \in Nat /\ k + 1 \in 1 .. Len(value)
  BY <1>1, <1>2 DEF ArrayTypeOK
<1>5. value' \in Seq(Elements \cup {Empty}) /\ Len(value') = Len(value)
  BY <1>1, <1>4
<1>6. value'[k + 1] = v /\ \A i \in 1 .. Len(value) : i # k + 1 => value'[i] = value[i]
  BY <1>1, <1>4
<1>7. /\ DOMAIN sets' = DOMAIN sets \cup {indices}
      /\ sets'[indices] = v
      /\ \A t \in DOMAIN sets : t # indices => sets'[t] = sets[t]
  BY <1>1 DEF Stored
<1>8. ArrayTypeOK'
  BY <1>1, <1>2, <1>5 DEF ArrayTypeOK
<1>9. \A t \in DOMAIN sets' : t \in Tuples /\ arrayIndex(t) \in 0 .. Len(value) - 1
  BY <1>1, <1>2, <1>7 DEF k
<1>10. (\A t \in DOMAIN sets : t \in Tuples /\ arrayIndex(t) \in 0 .. Len(value) - 1)'
  <2> SUFFICES ASSUME NEW t \in DOMAIN sets'
               PROVE  (t \in Tuples)' /\ arrayIndex(t)' \in 0 .. Len(value') - 1
    OBVIOUS
  <2>1. t \in Tuples /\ arrayIndex(t) \in 0 .. Len(value) - 1
    BY <1>9
  <2>2. ((t \in Tuples)' <=> t \in Tuples) /\ arrayIndex(t)' = arrayIndex(t)
    BY <1>1, <1>5, ArrayUnchanged
  <2> QED
    BY <1>5, <2>1, <2>2
<1>11. ArrayHoldsWhatWasSet'
  <2> SUFFICES ASSUME NEW t \in DOMAIN sets'
               PROVE  \E s \in DOMAIN sets' :
                        /\ arrayIndex(s)' = arrayIndex(t)'
                        /\ arrayIndex(t)' \in 0 .. Len(value') - 1
                        /\ value'[arrayIndex(t)' + 1] = sets'[s]
                        /\ Product(arrayDimensions) <= IntMax => s = t
    BY <1>1 DEF ArrayHoldsWhatWasSet
  <2>1. \A s : arrayIndex(s)' = arrayIndex(s)
    BY <1>1, <1>5, ArrayUnchanged
  <2>2. t \in Tuples /\ arrayIndex(t) \in 0 .. Len(value) - 1
    BY <1>9
  <2>3. CASE arrayIndex(t) = k
    <3>1. ASSUME Product(arrayDimensions) <= IntMax PROVE indices = t
      <4>1. Small /\ InsideOf(t) /\ arrayIndex(t) = Index(t)
        BY <1>2, <1>3, <2>2, <3>1, FittingIndex
      <4>2. InsideOf(indices) /\ k = Index(indices)
        BY <1>1, <1>2, <1>3, <3>1, FittingIndex DEF k
      <4> QED
        BY <2>3, <4>1, <4>2, IndexOrders
    <3>2. indices \in DOMAIN sets' /\ arrayIndex(indices) = k
      BY <1>7 DEF k
    <3> QED
      BY <1>5, <1>6, <1>7, <2>1, <2>2, <2>3, <3>1, <3>2
  <2>4. CASE arrayIndex(t) # k
    <3>1. t \in DOMAIN sets
      BY <1>7, <2>4 DEF k
    <3>2. PICK s \in DOMAIN sets :
            /\ arrayIndex(s) = arrayIndex(t)
            /\ value[arrayIndex(t) + 1] = sets[s]
            /\ Product(arrayDimensions) <= IntMax => s = t
      BY <1>2, <3>1 DEF ArrayHoldsWhatWasSet
    <3>3. s \in DOMAIN sets' /\ sets'[s] = sets[s]
      BY <1>7, <2>4, <3>2 DEF k
    <3>4. arrayIndex(t) + 1 \in 1 .. Len(value) /\ arrayIndex(t) + 1 # k + 1
      BY <1>4, <2>2, <2>4
    <3>5. value'[arrayIndex(t) + 1] = sets'[s]
      BY <1>6, <3>2, <3>3, <3>4
    <3> QED
      BY <1>5, <2>1, <2>2, <3>2, <3>3, <3>5
  <2> QED
    BY <2>3, <2>4
<1>12. Cached'
  BY <1>1 DEF ArrayInv, Cached, Unset
<1> QED
  BY <1>8, <1>10, <1>11, <1>12 DEF ArrayInv

LEMMA ArrayStep == ArrayInv /\ [ArrayNext]_arrayVars => ArrayInv'
<1> SUFFICES ASSUME ArrayInv, [ArrayNext]_arrayVars PROVE ArrayInv'
  OBVIOUS
<1>1. ArrayTypeOK
  BY DEF ArrayInv
<1>2. ASSUME NEW dims \in Dimensions, setArrayDimensions(dims) PROVE ArrayInv'
  <2>1. ExpectedLength(dims) \in 0 .. Modulus - 1
    BY ExpectedLengthIsQuint32
  <2>2. DOMAIN sets' = {}
    BY <1>2 DEF setArrayDimensions
  <2>3. ArrayTypeOK'
    BY <1>1, <1>2, <2>1 DEF ArrayTypeOK, setArrayDimensions
  <2>4. Cached'
    BY <1>2 DEF Cached, setArrayDimensions
  <2> QED
    BY <2>2, <2>3, <2>4 DEF ArrayInv, ArrayHoldsWhatWasSet
<1>3. ASSUME NEW n \in Sizes, setValueArray(n) PROVE ArrayInv'
  <2>1. [i \in 1 .. n |-> Empty] \in Seq(Elements \cup {Empty})
    BY ArrayBoundsAssumption, EmptyListIsList
  <2>2. DOMAIN sets' = {}
    BY <1>3 DEF setValueArray
  <2>3. ArrayTypeOK'
    BY <1>1, <1>3, <2>1 DEF ArrayTypeOK, setValueArray
  <2>4. Cached'
    BY <1>3 DEF ArrayInv, Cached, Unset, setValueArray
  <2> QED
    BY <2>2, <2>3, <2>4 DEF ArrayInv, ArrayHoldsWhatWasSet
<1>4. ASSUME NEW indices \in Tuples, NEW v \in Elements, setValue(indices, v) PROVE ArrayInv'
  BY <1>4, SetValueKeeps
<1>5. CASE UNCHANGED arrayVars
  <2>1. /\ arrayDimensions' = arrayDimensions /\ value' = value
        /\ expectedArrayLength' = expectedArrayLength /\ sets' = sets
    BY <1>5 DEF arrayVars
  <2>2. ArrayTypeOK'
    BY <1>1, <2>1 DEF ArrayTypeOK
  <2>3. \A t \in DOMAIN sets' :
          (t \in Tuples)' /\ arrayIndex(t)' = arrayIndex(t) /\ arrayIndex(t) \in 0 .. Len(value) - 1
    BY <2>1, ArrayUnchanged DEF ArrayInv
  <2>4. ArrayHoldsWhatWasSet'
    BY <2>1, <2>3 DEF ArrayInv, ArrayHoldsWhatWasSet
  <2>5. Cached'
    BY <2>1 DEF ArrayInv, Cached, Unset
  <2> QED
    BY <2>1, <2>2, <2>3, <2>4, <2>5 DEF ArrayInv
<1> QED
  BY <1>2, <1>3, <1>4, <1>5 DEF ArrayNext

(* Whatever constructor and setters were called, the cached length is that *)
(* of the dimensions and every index stored under leads to its value.      *)
THEOREM ArrayInvariant == ArraySpec => []ArrayInv
<1>1. ArrayInit => ArrayInv
  BY ArrayInitially
<1>2. ArrayInv /\ [ArrayNext]_arrayVars => ArrayInv'
  BY ArrayStep
<1> QED
  BY <1>1, <1>2, PTL DEF ArraySpec

(* The dimensions, the cached length and the list keep their types: no     *)
(* product leaves the range of a quint32.                                  *)
THEOREM ArrayTypeCorrect == ArraySpec => []ArrayTypeOK
<1>1. ArrayInv => ArrayTypeOK
  BY DEF ArrayInv
<1> QED
  BY <1>1, ArrayInvariant, PTL

(* While the product of the dimensions is an int, setValue() overwrites no *)
(* element but that of its indices, and value() returns what was stored    *)
(* last.  Whatever the product, an element holds what was stored last      *)
(* under one of the tuples that lead to it.                                *)
THEOREM ArrayKeepsWhatWasSet == ArraySpec => []ArrayHoldsWhatWasSet
<1>1. ArrayInv => ArrayHoldsWhatWasSet
  BY DEF ArrayInv
<1> QED
  BY <1>1, ArrayInvariant, PTL

LEMMA RowMajorFromCached == ArrayTypeOK /\ Cached => IndexIsRowMajor
<1> SUFFICES ASSUME ArrayTypeOK, Cached, ~Unset, Product(arrayDimensions) <= IntMax,
                    NEW t \in Tuples
             PROVE  arrayIndex(t) = IF t \in InBounds /\ isValid
                                    THEN Cardinality({s \in InBounds : Precedes(s, t)}) ELSE -1
  BY DEF IndexIsRowMajor
<1>1. arrayDimensions \in Dimensions
  BY DEF ArrayTypeOK
<1>2. \A s : s \in InBounds <=> InsideOf(s)
  BY <1>1, InBoundsIsBounded
<1>3. t \in Seq(Nat) /\ Len(t) = Len(arrayDimensions) /\ DOMAIN t = 1 .. Len(t)
  BY <1>1, TuplesAreLists
<1>4. expectedArrayLength = Product(arrayDimensions) /\ expectedArrayLength <= IntMax
  <2>1. arrayDimensions \in Seq(Nat)
    BY <1>1, DimensionsAreLists
  <2>2. Product(arrayDimensions) \in Nat
    <3>1. 1 \in 1 .. Len(arrayDimensions) + 1
      BY <2>1
    <3> QED
      BY <2>1, <3>1, VolumesStep DEF Product
  <2>3. Product(arrayDimensions) < Modulus
    BY <2>2, IntMaxBound, ModulusAssumption
  <2>4. ExpectedLength(arrayDimensions) = Product(arrayDimensions)
    BY <2>1, <2>3, ExpectedLengthIsProduct
  <2> QED
    BY <2>4 DEF Cached
<1>5. Fits(t) <=> t \in InBounds /\ isValid
  <2>1. Fits(t) => t \in InBounds /\ isValid
    BY DEF Fits, InBounds, isValid
  <2>2. isValid => expectedArrayLength = Len(value) /\ Len(value) <= Modulus - 1
    BY <1>4, IntMaxBound, ModulusAssumption DEF isValid, ArrayTypeOK
  <2>3. t \in InBounds /\ isValid => Fits(t)
    BY <1>3, <1>4, <2>2 DEF Fits, InBounds
  <2> QED
    BY <2>1, <2>3
<1>6. CASE Fits(t)
  <2>1. Small /\ arrayIndex(t) = Index(t)
    BY <1>6, FittingIndex
  <2>2. Cardinality({s \in InBounds : Precedes(s, t)}) = Index(t)
    BY <1>2, <1>5, <1>6, <2>1, IndexIsRank
  <2> QED
    BY <1>5, <1>6, <2>1, <2>2
<1>7. CASE ~Fits(t)
  BY <1>5, <1>7 DEF arrayIndex
<1> QED
  BY <1>6, <1>7

(* arrayIndex() is the rank of the indices in row-major order, and -1 for  *)
(* what is out of bounds or if the list has another length.                *)
THEOREM ArrayIndexIsRowMajor == ArraySpec => []IndexIsRowMajor
<1>1. ArrayInv => IndexIsRowMajor
  BY RowMajorFromCached DEF ArrayInv
<1> QED
  BY <1>1, ArrayInvariant, PTL

-----------------------------------------------------------------------------
(* Numbers.                                                                *)

(* An integer is its lowest byte and 256 times the rest. *)
LEMMA DivisionByBase ==
  ASSUME NEW v \in Int
  PROVE  /\ v \div 256 \in Int /\ v % 256 \in Byte
         /\ v = (v % 256) + 256 * (v \div 256)
BY DEF Byte

(* Every shift drops one more byte. *)
LEMMA ShiftedStep ==
  ASSUME NEW v \in Int
  PROVE  /\ Shifted(v, 0) = v
         /\ \A j \in 0 .. 8 : Shifted(v, j) \in Int
         /\ \A j \in 0 .. 7 : Shifted(v, j + 1) = Shifted(v, j) \div 256
<1> DEFINE P(f) == f = [j \in 0 .. 8 |-> IF j = 0 THEN v ELSE f[j - 1] \div 256]
           G == [i \in 1 .. 8 |-> [x \in Int |-> x \div 256]]
<1>1. G \in [1 .. 8 -> [Int -> Int]]
  <2>1. [x \in Int |-> x \div 256] \in [Int -> Int]
    BY DivisionByBase
  <2> QED
    BY <2>1
<1> HIDE DEF G
<1>2. PICK f : Defined(f, 8, Int, v, G)
  BY <1>1, RecursionExists
<1>3. f \in [1 .. 9 -> Int] /\ f[9] = v /\ \A i \in 1 .. 8 : f[i] = f[i + 1] \div 256
  <2>1. f \in [1 .. 9 -> Int] /\ f[9] = v /\ \A i \in 1 .. 8 : f[i] = G[i][f[i + 1]]
    BY <1>2 DEF Defined
  <2>2. \A i \in 1 .. 8 : f[i + 1] \in Int
    BY <2>1
  <2>3. \A i \in 1 .. 8 : G[i][f[i + 1]] = f[i + 1] \div 256
    BY <2>2 DEF G
  <2> QED
    BY <2>1, <2>3
<1> DEFINE g == [j \in 0 .. 8 |-> f[9 - j]]
<1>4. P(g)
  <2>1. \A j \in 0 .. 8 : g[j] = IF j = 0 THEN v ELSE g[j - 1] \div 256
    <3> TAKE j \in 0 .. 8
    <3>1. CASE j = 0
      BY <1>3, <3>1
    <3>2. CASE j # 0
      <4>1. j - 1 \in 0 .. 8 /\ 9 - j \in 1 .. 8 /\ 9 - (j - 1) = (9 - j) + 1
        BY <3>2
      <4>2. f[9 - j] = f[9 - (j - 1)] \div 256
        BY <1>3, <4>1
      <4>3. g[j] = f[9 - j] /\ g[j - 1] = f[9 - (j - 1)]
        BY <4>1
      <4> QED
        BY <3>2, <4>2, <4>3
    <3> QED
      BY <3>1, <3>2
  <2>2. g = [j \in 0 .. 8 |-> g[j]]
    OBVIOUS
  <2> HIDE DEF g
  <2> QED
    BY <2>1, <2>2
<1> DEFINE s == CHOOSE h : P(h)
<1>5. P(s)
  <2> HIDE DEF P
  <2> QED
    BY <1>4, Zenon
<1>6. \A i : Shifted(v, i) = s[i]
  BY Zenon DEF Shifted
<1> HIDE DEF s
<1>7. s[0] = v /\ \A j \in 0 .. 7 : s[j + 1] = s[j] \div 256
  <2>1. \A j \in 0 .. 8 : s[j] = IF j = 0 THEN v ELSE s[j - 1] \div 256
    BY <1>5
  <2>2. \A j \in 0 .. 7 : j + 1 \in 0 .. 8 /\ j + 1 # 0 /\ (j + 1) - 1 = j
    OBVIOUS
  <2> HIDE DEF P
  <2> QED
    BY <2>1, <2>2
<1>8. \A j \in 0 .. 8 : s[j] \in Int
  BY <1>7
<1> QED
  BY <1>6, <1>7, <1>8

(* The number read is a sum over the bytes, from the last to the first.    *)
LEMMA FromBytesStep ==
  ASSUME NEW b \in Seq(Byte), Len(b) # 0, NEW signed \in BOOLEAN
  PROVE  \E a \in [1 .. Len(b) + 1 -> Int] :
           /\ qFromLittleEndian(b, signed) = a[1]
           /\ a[Len(b) + 1] = IF signed /\ b[Len(b)] > 127 THEN -1 ELSE 0
           /\ \A i \in 1 .. Len(b) : a[i] = b[i] + 256 * a[i + 1]
<1> DEFINE n == Len(b)
           top == IF signed /\ b[n] > 127 THEN -1 ELSE 0
           P(f) == f = [i \in 1 .. n + 1 |-> IF i <= n THEN b[i] + 256 * f[i + 1] ELSE top]
           G == [i \in 1 .. n |-> [x \in Int |-> b[i] + 256 * x]]
           s == CHOOSE h : P(h)
<1>1. qFromLittleEndian(b, signed) = s[1]
  BY Zenon DEF qFromLittleEndian
<1>2. n \in Nat /\ n # 0 /\ \A i \in 1 .. n : b[i] \in Int
  <2>1. \A x \in Byte : x \in Int
    BY DEF Byte
  <2>2. \A i \in 1 .. n : b[i] \in Byte
    OBVIOUS
  <2>3. n \in Nat /\ n # 0
    OBVIOUS
  <2> QED
    BY <2>1, <2>2, <2>3
<1>3. top \in Int
  OBVIOUS
<1> HIDE DEF n, top
<1>4. G \in [1 .. n -> [Int -> Int]]
  <2>1. \A i \in 1 .. n : [x \in Int |-> b[i] + 256 * x] \in [Int -> Int]
    BY <1>2
  <2> QED
    BY <2>1
<1> HIDE DEF G
<1>5. PICK f : Defined(f, n, Int, top, G)
  BY <1>2, <1>3, <1>4, RecursionExists
<1>6. f \in [1 .. n + 1 -> Int] /\ f[n + 1] = top /\ \A i \in 1 .. n : f[i] = b[i] + 256 * f[i + 1]
  <2>1. f \in [1 .. n + 1 -> Int] /\ f[n + 1] = top /\ \A i \in 1 .. n : f[i] = G[i][f[i + 1]]
    BY <1>5 DEF Defined
  <2>2. \A i \in 1 .. n : f[i + 1] \in Int
    BY <1>2, <2>1
  <2>3. \A i \in 1 .. n : G[i][f[i + 1]] = b[i] + 256 * f[i + 1]
    BY <2>2 DEF G
  <2> QED
    BY <2>1, <2>3
<1>7. P(f)
  <2>1. f = [i \in 1 .. n + 1 |-> f[i]]
    BY <1>6
  <2>2. \A i \in 1 .. n + 1 : f[i] = IF i <= n THEN b[i] + 256 * f[i + 1] ELSE top
    BY <1>2, <1>6
  <2> QED
    BY <2>1, <2>2
<1>8. P(s)
  <2> HIDE DEF P
  <2> QED
    BY <1>7, Zenon
<1> HIDE DEF s
<1>9. s[n + 1] = top /\ \A i \in 1 .. n : s[i] = b[i] + 256 * s[i + 1]
  <2>1. \A i \in 1 .. n + 1 : s[i] = IF i <= n THEN b[i] + 256 * s[i + 1] ELSE top
    BY <1>8
  <2> HIDE DEF P
  <2> QED
    BY <1>2, <2>1
<1>10. \A i \in 1 .. n + 1 : s[i] \in Int
  <2> DEFINE T == {i \in 1 .. n + 1 : s[i] \in Int}
  <2>1. T \in SUBSET (1 .. n + 1) /\ n + 1 \in T
    BY <1>2, <1>3, <1>9
  <2>2. ASSUME NEW i \in 1 .. n, i + 1 \in T PROVE i \in T
    <3>1. s[i] = b[i] + 256 * s[i + 1] /\ b[i] \in Int
      BY <1>2, <1>9
    <3>2. s[i + 1] \in Int /\ i \in 1 .. n + 1
      BY <1>2, <2>2
    <3> QED
      BY <3>1, <3>2
  <2> HIDE DEF T
  <2>3. \A i \in 1 .. n + 1 : i \in T
    BY <1>2, <2>1, <2>2, Descent
  <2> QED
    BY <2>3 DEF T
<1>11. s \in [1 .. n + 1 -> Int]
  <2>1. s = [i \in 1 .. n + 1 |-> s[i]]
    BY <1>8
  <2> QED
    BY <1>10, <2>1
<1> QED
  BY <1>1, <1>9, <1>11 DEF n, top

(* Bytes make an integer. *)
LEMMA FromBytesIsInt ==
  ASSUME NEW b \in Seq(Byte), Len(b) # 0, NEW signed \in BOOLEAN
  PROVE  qFromLittleEndian(b, signed) \in Int
<1>1. PICK a \in [1 .. Len(b) + 1 -> Int] : qFromLittleEndian(b, signed) = a[1]
  BY FromBytesStep
<1> QED
  BY <1>1

(* An integer of n bytes is encoded as n bytes, the lowest first. *)
LEMMA LittleEndianBytes ==
  ASSUME NEW v \in Int, NEW n \in 1 .. 8
  PROVE  /\ qToLittleEndian(v, n) \in Seq(Byte)
         /\ Len(qToLittleEndian(v, n)) = n
         /\ \A i \in 1 .. n : qToLittleEndian(v, n)[i] = Shifted(v, i - 1) % 256
<1> DEFINE b == qToLittleEndian(v, n)
<1>1. b = [i \in 1 .. n |-> Shifted(v, i - 1) % 256]
  BY Zenon DEF qToLittleEndian
<1>2. \A i \in 1 .. n : Shifted(v, i - 1) % 256 \in Byte
  <2> TAKE i \in 1 .. n
  <2>1. i - 1 \in 0 .. 8
    OBVIOUS
  <2>2. Shifted(v, i - 1) \in Int
    BY <2>1, ShiftedStep
  <2> QED
    BY <2>2, DivisionByBase
<1> HIDE DEF b
<1>3. b \in [1 .. n -> Byte]
  BY <1>1, <1>2
<1> QED
  BY <1>1, <1>3 DEF b

(* A number that has the width is read as it was written. *)
LEMMA NumberIsRead ==
  ASSUME NEW v \in Int, NEW n \in 1 .. 8, NEW signed \in BOOLEAN,
         IF signed THEN Shifted(v, n - 1) \in -128 .. 127 ELSE Shifted(v, n) = 0
  PROVE  qFromLittleEndian(qToLittleEndian(v, n), signed) = v
<1> DEFINE b == qToLittleEndian(v, n)
<1>1. b \in Seq(Byte) /\ Len(b) = n /\ \A i \in 1 .. n : b[i] = Shifted(v, i - 1) % 256
  BY LittleEndianBytes
<1> HIDE DEF b
<1>2. PICK a \in [1 .. Len(b) + 1 -> Int] :
           /\ qFromLittleEndian(b, signed) = a[1]
           /\ a[Len(b) + 1] = IF signed /\ b[Len(b)] > 127 THEN -1 ELSE 0
           /\ \A i \in 1 .. Len(b) : a[i] = b[i] + 256 * a[i + 1]
  <2>1. Len(b) # 0 /\ b \in Seq(Byte)
    BY <1>1
  <2> QED
    BY <2>1, FromBytesStep
<1> DEFINE top == IF signed /\ b[n] > 127 THEN -1 ELSE 0
<1>3. a[n + 1] = top /\ \A i \in 1 .. n : a[i] = b[i] + 256 * a[i + 1]
  BY <1>1, <1>2, Zenon
<1> HIDE DEF top
<1>4. \A i \in 1 .. n : /\ Shifted(v, i - 1) \in Int /\ Shifted(v, i) \in Int
                        /\ Shifted(v, i) = Shifted(v, i - 1) \div 256
                        /\ Shifted(v, i - 1) = b[i] + 256 * Shifted(v, i)
  <2> TAKE i \in 1 .. n
  <2>1. i - 1 \in 0 .. 7 /\ (i - 1) + 1 = i /\ i \in 0 .. 8 /\ i - 1 \in 0 .. 8
    OBVIOUS
  <2>2. Shifted(v, i - 1) \in Int /\ Shifted(v, i) \in Int
    <3>1. \A j \in 0 .. 8 : Shifted(v, j) \in Int
      BY ShiftedStep
    <3> QED
      BY <2>1, <3>1
  <2>3. \A j \in 0 .. 7 : Shifted(v, j + 1) = Shifted(v, j) \div 256
    BY ShiftedStep
  <2>4. Shifted(v, i) = Shifted(v, i - 1) \div 256
    BY <2>1, <2>3
  <2>5. b[i] = Shifted(v, i - 1) % 256
    BY <1>1
  <2> DEFINE x == Shifted(v, i - 1)
             y == Shifted(v, i)
  <2> HIDE DEF x, y
  <2>6. x \in Int /\ y = x \div 256 /\ b[i] = x % 256
    BY <2>2, <2>4, <2>5 DEF x, y
  <2>7. x = b[i] + 256 * y
    BY <2>6, DivisionByBase
  <2> QED
    BY <2>2, <2>4, <2>7 DEF x, y
<1>5. a[n + 1] = Shifted(v, n)
  <2> DEFINE w == Shifted(v, n - 1)
  <2>1. n \in 1 .. n
    OBVIOUS
  <2>2. w \in Int /\ Shifted(v, n) = w \div 256 /\ b[n] = w % 256
    BY <1>1, <1>4, <2>1
  <2> HIDE DEF w
  <2>3. CASE signed
    <3>1. w \in -128 .. 127
      BY <2>3 DEF w
    <3> QED
      BY <1>3, <2>2, <2>3, <3>1 DEF top
  <2>4. CASE ~signed
    BY <1>3, <2>4 DEF top
  <2> QED
    BY <2>3, <2>4
<1>6. \A i \in 1 .. n + 1 : a[i] = Shifted(v, i - 1)
  <2> DEFINE T == {i \in 1 .. n + 1 : a[i] = Shifted(v, i - 1)}
  <2>1. T \in SUBSET (1 .. n + 1) /\ n + 1 \in T
    BY <1>5
  <2>2. \A i \in 1 .. n : i + 1 \in T => i \in T
    <3> TAKE i \in 1 .. n
    <3> HAVE i + 1 \in T
    <3>1. i + 1 \in 1 .. n + 1 /\ a[i + 1] = Shifted(v, (i + 1) - 1) /\ (i + 1) - 1 = i
      OBVIOUS
    <3>2. a[i + 1] = Shifted(v, i)
      BY <3>1, Zenon
    <3>3. a[i] = b[i] + 256 * a[i + 1] /\ Shifted(v, i - 1) = b[i] + 256 * Shifted(v, i)
      BY <1>3, <1>4, Zenon
    <3>4. a[i] = Shifted(v, i - 1)
      BY <3>2, <3>3, Zenon
    <3>5. i \in 1 .. n + 1
      OBVIOUS
    <3> QED
      BY <3>4, <3>5
  <2> HIDE DEF T
  <2>3. n \in Nat
    OBVIOUS
  <2>4. \A i \in 1 .. n + 1 : i \in T
    BY <2>1, <2>2, <2>3, Descent
  <2> QED
    BY <2>4 DEF T
<1>7. a[1] = Shifted(v, 0)
  BY <1>6
<1> QED
  BY <1>2, <1>7, ShiftedStep DEF b

-----------------------------------------------------------------------------
(* Where the buffer holds the bytes b, and where it breaks off in them.    *)

Holds(p, b) ==
  /\ p \in Nat
  /\ p + Len(b) <= Len(data)
  /\ \A k \in 1 .. Len(b) : data[p + k] = b[k]

Breaks(p, b) ==
  /\ p \in Nat
  /\ p <= Len(data)
  /\ Len(data) < p + Len(b)
  /\ \A k \in 1 .. Len(data) - p : data[p + k] = b[k]

(* A read from p on: it ends behind p, inside of the buffer. *)
Bounded(r, p) == r.ok \in BOOLEAN /\ r.to \in p .. Len(data)

(* Bytes behind bytes. *)
LEMMA ConcatBytes ==
  ASSUME NEW b \in Seq(Byte), NEW c \in Seq(Byte)
  PROVE  /\ b \o c \in Seq(Byte)
         /\ Len(b \o c) = Len(b) + Len(c)
         /\ Len(b) \in Nat /\ Len(c) \in Nat
         /\ \A k \in 1 .. Len(b) : (b \o c)[k] = b[k]
         /\ \A k \in 1 .. Len(c) : (b \o c)[Len(b) + k] = c[k]
OBVIOUS

(* What is held as a whole is held part by part. *)
LEMMA HoldsParts ==
  ASSUME NEW b \in Seq(Byte), NEW c \in Seq(Byte), NEW p \in Nat, data \in Seq(Byte),
         Holds(p, b \o c)
  PROVE  Holds(p, b) /\ Holds(p + Len(b), c)
<1> DEFINE d == b \o c
<1>1. /\ Len(d) = Len(b) + Len(c) /\ Len(b) \in Nat /\ Len(c) \in Nat
      /\ \A k \in 1 .. Len(b) : d[k] = b[k]
      /\ \A k \in 1 .. Len(c) : d[Len(b) + k] = c[k]
  BY ConcatBytes
<1>2. Holds(p, d)
  OBVIOUS
<1> HIDE DEF d
<1>3. p + Len(d) <= Len(data) /\ Len(data) \in Nat /\ \A k \in 1 .. Len(d) : data[p + k] = d[k]
  BY <1>2 DEF Holds
<1>4. Holds(p, b)
  BY <1>1, <1>3 DEF Holds
<1>5. Holds(p + Len(b), c)
  <2>1. \A k \in 1 .. Len(c) : data[(p + Len(b)) + k] = c[k]
    <3> TAKE k \in 1 .. Len(c)
    <3>1. Len(b) + k \in 1 .. Len(d) /\ p + (Len(b) + k) = (p + Len(b)) + k
      BY <1>1
    <3>2. data[p + (Len(b) + k)] = d[Len(b) + k] /\ d[Len(b) + k] = c[k]
      BY <1>1, <1>3, <3>1
    <3> QED
      BY <3>1, <3>2
  <2>2. p + Len(b) \in Nat /\ (p + Len(b)) + Len(c) <= Len(data)
    BY <1>1, <1>3
  <2> QED
    BY <2>1, <2>2 DEF Holds
<1> QED
  BY <1>4, <1>5

(* A break is in the first part, or behind it in the second. *)
LEMMA BreaksParts ==
  ASSUME NEW b \in Seq(Byte), NEW c \in Seq(Byte), NEW p \in Nat, data \in Seq(Byte),
         Breaks(p, b \o c), ~Breaks(p, b)
  PROVE  Holds(p, b) /\ Breaks(p + Len(b), c)
<1> DEFINE d == b \o c
<1>1. /\ Len(d) = Len(b) + Len(c) /\ Len(b) \in Nat /\ Len(c) \in Nat
      /\ \A k \in 1 .. Len(b) : d[k] = b[k]
      /\ \A k \in 1 .. Len(c) : d[Len(b) + k] = c[k]
  BY ConcatBytes
<1>2. Breaks(p, d)
  OBVIOUS
<1> HIDE DEF d
<1>3. /\ p <= Len(data) /\ Len(data) < p + Len(d) /\ Len(data) \in Nat
      /\ \A k \in 1 .. Len(data) - p : data[p + k] = d[k]
  BY <1>2 DEF Breaks
<1>4. p + Len(b) <= Len(data)
  <2> SUFFICES ASSUME Len(data) < p + Len(b) PROVE FALSE
    BY <1>1, <1>3
  <2>1. \A k \in 1 .. Len(data) - p : data[p + k] = b[k]
    BY <1>1, <1>3
  <2> QED
    BY <1>3, <2>1 DEF Breaks
<1>5. Holds(p, b)
  BY <1>1, <1>3, <1>4 DEF Holds
<1>6. Breaks(p + Len(b), c)
  <2>1. \A k \in 1 .. Len(data) - (p + Len(b)) : data[(p + Len(b)) + k] = c[k]
    <3> TAKE k \in 1 .. Len(data) - (p + Len(b))
    <3>1. /\ Len(b) + k \in 1 .. Len(data) - p /\ p + (Len(b) + k) = (p + Len(b)) + k
          /\ k \in 1 .. Len(c)
      BY <1>1, <1>3
    <3>2. data[p + (Len(b) + k)] = d[Len(b) + k] /\ d[Len(b) + k] = c[k]
      BY <1>1, <1>3, <3>1
    <3> QED
      BY <3>1, <3>2
  <2>2. /\ p + Len(b) \in Nat /\ p + Len(b) <= Len(data)
        /\ Len(data) < (p + Len(b)) + Len(c)
    BY <1>1, <1>3, <1>4
  <2> QED
    BY <2>1, <2>2 DEF Breaks
<1> QED
  BY <1>5, <1>6

(* There is enough data to read what is held, and it is what is read. *)
LEMMA HeldBytes ==
  ASSUME NEW b \in Seq(Byte), NEW p \in Nat, data \in Seq(Byte), Holds(p, b)
  PROVE  enoughData(p, Len(b)) /\ Bytes(p, Len(b)) = b /\ p + Len(b) \in p .. Len(data)
<1>1. Len(b) \in Nat /\ Len(data) \in Nat /\ p + Len(b) <= Len(data)
      /\ \A k \in 1 .. Len(b) : data[p + k] = b[k]
  BY DEF Holds
<1>2. Bytes(p, Len(b)) \in Seq(Byte) /\ Len(Bytes(p, Len(b))) = Len(b)
      /\ \A k \in 1 .. Len(b) : Bytes(p, Len(b))[k] = data[p + k]
  <2>1. SubSeq(data, p + 1, p + Len(b)) = [k \in 1 .. Len(b) |-> data[p + k]]
    BY <1>1
  <2>2. \A k \in 1 .. Len(b) : data[p + k] \in Byte
    BY <1>1
  <2> QED
    BY <1>1, <2>1, <2>2 DEF Bytes
<1>3. Bytes(p, Len(b)) = b
  BY <1>1, <1>2
<1> QED
  BY <1>1, <1>3 DEF enoughData

(* Enough data is read as that many bytes of the buffer. *)
LEMMA SomeBytes ==
  ASSUME NEW p \in Nat, NEW n \in Nat, data \in Seq(Byte), p <= Len(data), enoughData(p, n)
  PROVE  Bytes(p, n) \in Seq(Byte) /\ Len(Bytes(p, n)) = n /\ p + n \in p .. Len(data)
         /\ \A k \in 1 .. n : Bytes(p, n)[k] = data[p + k] /\ data[p + k] \in Byte
<1>1. Len(data) \in Nat /\ p + n <= Len(data)
  BY DEF enoughData
<1>2. SubSeq(data, p + 1, p + n) = [k \in 1 .. n |-> data[p + k]]
  BY <1>1
<1>3. \A k \in 1 .. n : data[p + k] \in Byte
  BY <1>1
<1> QED
  BY <1>1, <1>2, <1>3 DEF Bytes

-----------------------------------------------------------------------------
(* Numbers in the buffer.                                                  *)

Numbers == DOMAIN sizeof \ {"bool"}

(* What a read has to do where the bytes of an encoding are, and where     *)
(* they break off.                                                         *)
Reads(e, r, p, v) == Holds(p, e.bytes) => r = Got(v, p + Len(e.bytes))

Refuses(e, r, p) == Breaks(p, e.bytes) => ~r.ok

Encoded(e) == e.ok \in BOOLEAN /\ e.bytes \in Seq(Byte)

(* The numbers and their widths. *)
LEMMA NumberTypes ==
  /\ Numbers = {"quint8", "quint16", "qint32", "quint32", "float", "UaStatusCode", "qint64",
       "double"}
  /\ \A type \in Numbers : sizeof[type] \in 1 .. 8
  /\ sizeof["quint8"] = 1 /\ sizeof["quint16"] = 2 /\ sizeof["quint32"] = 4 /\ sizeof["qint32"] = 4
  /\ sizeof["qint64"] = 8
<1>1. DOMAIN sizeof = {"bool", "quint8", "quint16", "qint32", "quint32", "float", "UaStatusCode",
                       "qint64", "double"}
  BY DEF sizeof
<1>2. Numbers = {"quint8", "quint16", "qint32", "quint32", "float", "UaStatusCode", "qint64",
        "double"}
  BY <1>1 DEF Numbers
<1>3. \A type \in Numbers : sizeof[type] \in 1 .. 8
  BY <1>2 DEF sizeof
<1>4. sizeof["quint8"] = 1 /\ sizeof["quint16"] = 2 /\ sizeof["quint32"] = 4 /\ sizeof["qint32"] = 4
      /\ sizeof["qint64"] = 8
  BY DEF sizeof
<1> QED
  BY <1>2, <1>3, <1>4

(* A number is read inside of the buffer, whatever the buffer holds. *)
LEMMA NumberBounded ==
  ASSUME NEW type \in Numbers, NEW p \in Nat, data \in Seq(Byte), p <= Len(data)
  PROVE  /\ Bounded(DecodeNumber(type, p), p)
         /\ DecodeNumber(type, p).ok => DecodeNumber(type, p).value \in Int
<1> DEFINE n == sizeof[type]
           s == type \in Signed
           b == Bytes(p, n)
<1>1. n \in 1 .. 8
  BY NumberTypes
<1>2. DecodeNumber(type, p) = IF enoughData(p, n) THEN Got(qFromLittleEndian(b, s), p + n)
                              ELSE Failed(p)
  BY Zenon DEF DecodeNumber
<1>3. s \in BOOLEAN
  OBVIOUS
<1> HIDE DEF n, s
<1>4. CASE enoughData(p, n)
  <2>1. b \in Seq(Byte) /\ Len(b) = n /\ p + n \in p .. Len(data)
    BY <1>1, <1>4, SomeBytes
  <2> HIDE DEF b
  <2>2. Len(b) # 0
    BY <1>1, <2>1
  <2>3. qFromLittleEndian(b, s) \in Int
    BY <1>3, <2>1, <2>2, FromBytesIsInt
  <2> QED
    BY <1>2, <1>4, <2>1, <2>3 DEF Bounded, Got
<1>5. CASE ~enoughData(p, n)
  BY <1>2, <1>5 DEF Bounded, Failed
<1> QED
  BY <1>4, <1>5

(* A number is read as it was encoded, and refused when it breaks off. *)
LEMMA NumberCodec ==
  ASSUME NEW type \in Numbers, NEW v, HasWidth(type, v), NEW p \in Nat, data \in Seq(Byte)
  PROVE  /\ Encoded(EncodeNumber(type, v)) /\ EncodeNumber(type, v).ok
         /\ EncodeNumber(type, v).bytes = qToLittleEndian(v, sizeof[type])
         /\ Len(EncodeNumber(type, v).bytes) = sizeof[type]
         /\ Reads(EncodeNumber(type, v), DecodeNumber(type, p), p, v)
         /\ Refuses(EncodeNumber(type, v), DecodeNumber(type, p), p)
<1> DEFINE n == sizeof[type]
           s == type \in Signed
           b == qToLittleEndian(v, n)
           e == EncodeNumber(type, v)
<1>1. n \in 1 .. 8 /\ s \in BOOLEAN
  BY NumberTypes
<1>2. v \in Int /\ IF s THEN Shifted(v, n - 1) \in -128 .. 127 ELSE Shifted(v, n) = 0
  BY DEF HasWidth
<1>3. DecodeNumber(type, p) = IF enoughData(p, n) THEN Got(qFromLittleEndian(Bytes(p, n), s), p + n)
                              ELSE Failed(p)
  BY Zenon DEF DecodeNumber
<1>4. e = [ok |-> TRUE, bytes |-> b]
  BY Zenon DEF EncodeNumber, Good
<1> HIDE DEF n, s
<1>5. b \in Seq(Byte) /\ Len(b) = n
  BY <1>1, <1>2, LittleEndianBytes
<1>6. qFromLittleEndian(b, s) = v
  BY <1>1, <1>2, NumberIsRead
<1> HIDE DEF b, e
<1>7. e.ok = TRUE /\ e.bytes = b
  BY <1>4
<1>8. ASSUME Holds(p, e.bytes) PROVE DecodeNumber(type, p) = Got(v, p + Len(e.bytes))
  <2>1. Holds(p, b)
    BY <1>7, <1>8
  <2>2. enoughData(p, n) /\ Bytes(p, n) = b
    BY <1>5, <2>1, HeldBytes
  <2> QED
    BY <1>3, <1>5, <1>6, <1>7, <2>2
<1>9. ASSUME Breaks(p, e.bytes) PROVE ~DecodeNumber(type, p).ok
  <2>1. Breaks(p, b)
    BY <1>7, <1>9
  <2>2. ~enoughData(p, n)
    BY <1>5, <2>1 DEF Breaks, enoughData
  <2> QED
    BY <1>3, <2>2 DEF Failed
<1>10. Encoded(e) /\ e.ok /\ e.bytes = b /\ Len(e.bytes) = n
  BY <1>5, <1>7 DEF Encoded
<1> QED
  BY <1>8, <1>9, <1>10 DEF Reads, Refuses, e, b, n

(* A byte is 0 to 255. *)
LEMMA ByteRange == \A x : x \in Byte <=> x \in Int /\ 0 <= x /\ x <= 255
BY DEF Byte

(* The range of a number without its lowest byte. *)
LEMMA DivisionRange ==
  ASSUME NEW x \in Int, NEW n \in Int
  PROVE  0 <= x \div 256 /\ x \div 256 <= n <=> 0 <= x /\ x <= 256 * n + 255
<1> DEFINE q == x \div 256
           r == x % 256
<1>1. q \in Int /\ r \in Byte /\ x = r + 256 * q
  BY DivisionByBase
<1> HIDE DEF q, r
<1>2. r \in Int /\ 0 <= r /\ r <= 255
  BY <1>1, ByteRange
<1>3. 0 <= q /\ q <= n <=> 0 <= x /\ x <= 256 * n + 255
  BY <1>1, <1>2
<1> QED
  BY <1>3 DEF q

(* The ranges of the widths.                                               *)
LEMMA Widths ==
  /\ \A x : HasWidth("quint8", x) <=> x \in Int /\ 0 <= x /\ x <= 255
  /\ \A x : HasWidth("quint16", x) <=> x \in Int /\ 0 <= x /\ x <= 65535
  /\ \A x : HasWidth("quint32", x) => x \in Nat
  /\ HasWidth("qint32", -1) /\ HasWidth("qint64", 0)
<1>1. \A x \in Int : /\ Shifted(x, 0) = x
                     /\ Shifted(x, 1) = x \div 256
                     /\ Shifted(x, 2) = (x \div 256) \div 256
                     /\ Shifted(x, 3) = ((x \div 256) \div 256) \div 256
                     /\ Shifted(x, 4) = (((x \div 256) \div 256) \div 256) \div 256
  <2> TAKE x \in Int
  <2>1. Shifted(x, 0) = x /\ \A j \in 0 .. 7 : Shifted(x, j + 1) = Shifted(x, j) \div 256
    BY ShiftedStep
  <2>2. Shifted(x, 0 + 1) = Shifted(x, 0) \div 256 /\ Shifted(x, 1 + 1) = Shifted(x, 1) \div 256
        /\ Shifted(x, 2 + 1) = Shifted(x, 2) \div 256 /\ Shifted(x, 3 + 1) = Shifted(x, 3) \div 256
    BY <2>1
  <2>3. Shifted(x, 1) = Shifted(x, 0) \div 256 /\ Shifted(x, 2) = Shifted(x, 1) \div 256
        /\ Shifted(x, 3) = Shifted(x, 2) \div 256 /\ Shifted(x, 4) = Shifted(x, 3) \div 256
    <3>1. 0 + 1 = 1 /\ 1 + 1 = 2 /\ 2 + 1 = 3 /\ 3 + 1 = 4
      OBVIOUS
    <3> QED
      BY <2>2, <3>1
  <2>4. Shifted(x, 1) = x \div 256
    BY <2>1, <2>3
  <2>5. Shifted(x, 2) = (x \div 256) \div 256
    BY <2>3, <2>4
  <2>6. Shifted(x, 3) = ((x \div 256) \div 256) \div 256
    BY <2>3, <2>5
  <2>7. Shifted(x, 4) = (((x \div 256) \div 256) \div 256) \div 256
    BY <2>3, <2>6
  <2> QED
    BY <2>1, <2>4, <2>5, <2>6, <2>7
<1>2. sizeof["quint8"] = 1 /\ sizeof["quint16"] = 2 /\ sizeof["quint32"] = 4 /\ sizeof["qint32"] = 4
      /\ sizeof["qint64"] = 8
  BY NumberTypes
<1>3. "quint8" \notin Signed /\ "quint16" \notin Signed /\ "quint32" \notin Signed
      /\ "qint32" \in Signed /\ "qint64" \in Signed
  BY DEF Signed
<1>4. ASSUME NEW type, type \notin Signed, NEW x
       PROVE  HasWidth(type, x) <=> x \in Int /\ Shifted(x, sizeof[type]) = 0
  BY <1>4, Zenon DEF HasWidth
<1>5. \A x : HasWidth("quint8", x) <=> x \in Int /\ Shifted(x, 1) = 0
  BY <1>2, <1>3, <1>4, Zenon
<1>6. \A x : HasWidth("quint16", x) <=> x \in Int /\ Shifted(x, 2) = 0
  BY <1>2, <1>3, <1>4, Zenon
<1>7. \A x : HasWidth("quint32", x) <=> x \in Int /\ Shifted(x, 4) = 0
  BY <1>2, <1>3, <1>4, Zenon
<1>8. ASSUME NEW x PROVE HasWidth("quint8", x) <=> x \in Int /\ 0 <= x /\ x <= 255
  <2>1. HasWidth("quint8", x) <=> x \in Int /\ Shifted(x, 1) = 0
    BY <1>5, Zenon
  <2>2. CASE x \in Int
    <3> DEFINE q == x \div 256
    <3>1. Shifted(x, 1) = q
      BY <1>1, <2>2, ZenonT(60)
    <3>2. q \in Int
      BY <2>2, DivisionByBase
    <3>3. 0 <= q /\ q <= 0 <=> 0 <= x /\ x <= 256 * 0 + 255
      BY <2>2, DivisionRange
    <3> HIDE DEF q
    <3> QED
      BY <2>1, <2>2, <3>1, <3>2, <3>3
  <2> QED
    BY <2>1, <2>2
<1>9. ASSUME NEW x PROVE HasWidth("quint16", x) <=> x \in Int /\ 0 <= x /\ x <= 65535
  <2>1. HasWidth("quint16", x) <=> x \in Int /\ Shifted(x, 2) = 0
    BY <1>6, Zenon
  <2>2. CASE x \in Int
    <3> DEFINE q == x \div 256
               r == q \div 256
    <3>1. Shifted(x, 2) = r
      BY <1>1, <2>2, ZenonT(60)
    <3>2. q \in Int
      BY <2>2, DivisionByBase
    <3>3. 0 <= q /\ q <= 255 <=> 0 <= x /\ x <= 256 * 255 + 255
      BY <2>2, DivisionRange
    <3> HIDE DEF q
    <3>4. r \in Int
      BY <3>2, DivisionByBase
    <3>5. 0 <= r /\ r <= 0 <=> 0 <= q /\ q <= 256 * 0 + 255
      BY <3>2, DivisionRange
    <3> HIDE DEF r
    <3> QED
      BY <2>1, <2>2, <3>1, <3>2, <3>3, <3>4, <3>5
  <2> QED
    BY <2>1, <2>2
<1>10. \A x : HasWidth("quint32", x) => x \in Nat
  <2>1. \A x \in Int : (((x \div 256) \div 256) \div 256) \div 256 = 0 => x \in Nat
    <3>1. \A x \in Int : x < 0 => x \div 256 \in Int /\ x \div 256 < 0
      OBVIOUS
    <3> QED
      BY <3>1
  <2>2. \A x \in Int : Shifted(x, 4) = (((x \div 256) \div 256) \div 256) \div 256
    BY <1>1
  <2> QED
    BY <1>7, <2>1, <2>2
<1>11. HasWidth("qint32", -1)
  <2>1. Shifted(-1, 3) = -1
    BY <1>1
  <2> QED
    BY <1>2, <1>3, <2>1 DEF HasWidth
<1>12. HasWidth("qint64", 0)
  <2>1. \A j \in 0 .. 7 : Shifted(0, j) = 0 => Shifted(0, j + 1) = 0
    BY ShiftedStep
  <2>2. Shifted(0, 0) = 0
    BY ShiftedStep
  <2>3. Shifted(0, 7) = 0
    <3>1. Shifted(0, 1) = 0
      BY <2>1, <2>2
    <3>2. Shifted(0, 2) = 0
      BY <2>1, <3>1
    <3>3. Shifted(0, 3) = 0
      BY <2>1, <3>2
    <3>4. Shifted(0, 4) = 0
      BY <2>1, <3>3
    <3>5. Shifted(0, 5) = 0
      BY <2>1, <3>4
    <3>6. Shifted(0, 6) = 0
      BY <2>1, <3>5
    <3> QED
      BY <2>1, <3>6
  <2> QED
    BY <1>2, <1>3, <2>3 DEF HasWidth
<1> QED
  BY <1>8, <1>9, <1>10, <1>11, <1>12

(* A byte read as a number is that byte. *)
LEMMA ByteIsRead ==
  ASSUME NEW p \in Nat, data \in Seq(Byte), p <= Len(data), enoughData(p, 1)
  PROVE  /\ DecodeNumber("quint8", p) = Got(data[p + 1], p + 1)
         /\ data[p + 1] \in Byte /\ p + 1 \in p .. Len(data)
<1> DEFINE b == Bytes(p, 1)
<1>1. DecodeNumber("quint8", p) = Got(qFromLittleEndian(b, FALSE), p + 1)
  <2>1. sizeof["quint8"] = 1
    BY NumberTypes
  <2>2. ("quint8" \in Signed) = FALSE
    BY DEF Signed
  <2> QED
    BY <2>1, <2>2, Zenon DEF DecodeNumber
<1>2. b \in Seq(Byte) /\ Len(b) = 1 /\ p + 1 \in p .. Len(data)
      /\ \A k \in 1 .. 1 : b[k] = data[p + k] /\ data[p + k] \in Byte
  <2>1. 1 \in Nat
    OBVIOUS
  <2> QED
    BY <2>1, SomeBytes
<1>3. b[1] = data[p + 1] /\ data[p + 1] \in Byte
  BY <1>2
<1> HIDE DEF b
<1>4. b[1] \in Int
  BY <1>3, ByteRange
<1>5. qFromLittleEndian(b, FALSE) = b[1]
  <2>1. Len(b) # 0 /\ b \in Seq(Byte) /\ FALSE \in BOOLEAN
    BY <1>2
  <2>2. PICK a \in [1 .. Len(b) + 1 -> Int] :
           /\ qFromLittleEndian(b, FALSE) = a[1]
           /\ a[Len(b) + 1] = IF FALSE /\ b[Len(b)] > 127 THEN -1 ELSE 0
           /\ \A i \in 1 .. Len(b) : a[i] = b[i] + 256 * a[i + 1]
    BY <2>1, FromBytesStep
  <2>3. a[2] = 0 /\ a[1] = b[1] + 256 * a[2]
    BY <1>2, <2>2
  <2>4. qFromLittleEndian(b, FALSE) = a[1]
    BY <2>2, Zenon
  <2>5. a[1] = b[1]
    BY <1>4, <2>3
  <2> QED
    BY <2>4, <2>5, Zenon
<1> QED
  BY <1>1, <1>2, <1>3, <1>5, Zenon

(* A byte that was read was there. *)
LEMMA ByteIsEnough ==
  ASSUME NEW p, DecodeNumber("quint8", p).ok
  PROVE  enoughData(p, 1)
<1>1. ~enoughData(p, 1) => DecodeNumber("quint8", p) = Failed(p)
  <2>1. sizeof["quint8"] = 1
    BY NumberTypes
  <2> QED
    BY <2>1, Zenon DEF DecodeNumber
<1>2. ~Failed(p).ok
  BY DEF Failed
<1> QED
  BY <1>1, <1>2, Zenon

-----------------------------------------------------------------------------
(* One encoding behind another.                                            *)

(* Two calls of encode() append the bytes of both. *)
LEMMA ThenEncoded ==
  ASSUME NEW a, NEW b, Encoded(a), Encoded(b), a.ok, NEW p \in Nat, data \in Seq(Byte)
  PROVE  /\ Encoded(Then(a, b)) /\ Then(a, b).ok = b.ok
         /\ Len(a.bytes) \in Nat /\ Len(b.bytes) \in Nat
         /\ Len(Then(a, b).bytes) = Len(a.bytes) + Len(b.bytes)
         /\ p + Len(Then(a, b).bytes) = (p + Len(a.bytes)) + Len(b.bytes)
         /\ Holds(p, Then(a, b).bytes) => Holds(p, a.bytes) /\ Holds(p + Len(a.bytes), b.bytes)
         /\ Breaks(p, Then(a, b).bytes) =>
              \/ Breaks(p, a.bytes)
              \/ Holds(p, a.bytes) /\ Breaks(p + Len(a.bytes), b.bytes)
<1> DEFINE x == a.bytes
           y == b.bytes
           e == Then(a, b)
<1>1. x \in Seq(Byte) /\ y \in Seq(Byte) /\ b.ok \in BOOLEAN
  BY DEF Encoded
<1>2. e = [ok |-> b.ok, bytes |-> x \o y]
  BY DEF Then
<1> HIDE DEF x, y, e
<1>3. e.ok = b.ok /\ e.bytes = x \o y
  BY <1>2
<1>4. x \o y \in Seq(Byte) /\ Len(x \o y) = Len(x) + Len(y) /\ Len(x) \in Nat /\ Len(y) \in Nat
  BY <1>1, ConcatBytes
<1>5. Encoded(e) /\ Len(e.bytes) = Len(x) + Len(y)
  BY <1>1, <1>3, <1>4 DEF Encoded
<1>6. Holds(p, e.bytes) => Holds(p, x) /\ Holds(p + Len(x), y)
  BY <1>1, <1>3, HoldsParts, Zenon
<1>7. Breaks(p, e.bytes) => Breaks(p, x) \/ (Holds(p, x) /\ Breaks(p + Len(x), y))
  BY <1>1, <1>3, BreaksParts, Zenon
<1>8. p + Len(e.bytes) = (p + Len(x)) + Len(y)
  BY <1>4, <1>5
<1> QED
  BY <1>3, <1>4, <1>5, <1>6, <1>7, <1>8, Zenon DEF x, y, e

(* Nothing is appended after a failure. *)
LEMMA ThenStops ==
  ASSUME NEW a, NEW b, ~a.ok
  PROVE  Then(a, b) = a
BY DEF Then

(* Bytes as the result of a call. *)
LEMMA GoodEncoded ==
  ASSUME NEW b \in Seq(Byte)
  PROVE  Encoded(Good(b)) /\ Good(b).ok /\ Good(b).bytes = b
BY DEF Encoded, Good

(* What is held lies inside of the buffer. *)
LEMMA HeldInside ==
  ASSUME NEW b \in Seq(Byte), NEW p, Holds(p, b), data \in Seq(Byte)
  PROVE  p \in Nat /\ p <= Len(data) /\ Len(b) \in Nat /\ p + Len(b) \in Nat
           /\ p + Len(b) <= Len(data)
         /\ Len(data) \in Nat
<1>1. p \in Nat /\ p + Len(b) <= Len(data) /\ Len(b) \in Nat /\ Len(data) \in Nat
  BY DEF Holds
<1> QED
  BY <1>1

-----------------------------------------------------------------------------
(* Strings.                                                                *)

(* A success that ends inside of the buffer. *)
LEMMA GotBounded ==
  ASSUME NEW p \in Nat, data \in Seq(Byte), NEW q, q \in p .. Len(data), NEW v
  PROVE  Bounded(Got(v, q), p)
BY DEF Bounded, Got

(* A failure that leaves the offset where it was. *)
LEMMA FailedBounded ==
  ASSUME NEW p \in Nat, data \in Seq(Byte), p <= Len(data)
  PROVE  Bounded(Failed(p), p)
<1>1. Len(data) \in Nat
  OBVIOUS
<1> QED
  BY <1>1 DEF Bounded, Failed

(* A length, whatever it is, leads nowhere outside of the buffer. *)
LEMMA AnnouncedBounded ==
  ASSUME NEW length \in Int, NEW p \in Nat, p <= Len(data), data \in Seq(Byte)
  PROVE  Bounded(Announced(length, p), p)
<1>1. Len(data) \in Nat
  OBVIOUS
<1>2. CASE length > 0 /\ enoughData(p, length)
  <2>1. Announced(length, p) = Got(Bytes(p, length), p + length)
    BY <1>2 DEF Announced
  <2>2. p + length \in p .. Len(data)
    BY <1>1, <1>2 DEF enoughData
  <2> QED
    BY <2>1, <2>2, GotBounded
<1>3. CASE length = 0
  <2>1. Announced(length, p) = Got(<<>>, p)
    BY <1>3 DEF Announced
  <2>2. p \in p .. Len(data)
    BY <1>1
  <2> QED
    BY <2>1, <2>2, GotBounded
<1>4. CASE length = -1
  <2>1. Announced(length, p) = Got(Null, p)
    BY <1>4 DEF Announced
  <2>2. p \in p .. Len(data)
    BY <1>1
  <2> QED
    BY <2>1, <2>2, GotBounded
<1>5. CASE length < -1 \/ (length > 0 /\ ~enoughData(p, length))
  <2>1. Announced(length, p) = Failed(p)
    BY <1>5 DEF Announced
  <2> QED
    BY <2>1, FailedBounded
<1> QED
  BY <1>2, <1>3, <1>4, <1>5

(* A read that ends in a second one that is bounded is bounded as well. *)
LEMMA BoundedStep ==
  ASSUME NEW p \in Nat, data \in Seq(Byte), NEW q, q \in p .. Len(data), NEW r, Bounded(r, q)
  PROVE  Bounded(r, p)
<1>1. Len(data) \in Nat
  OBVIOUS
<1> QED
  BY <1>1 DEF Bounded

(* Both string readers stay inside of the buffer. *)
LEMMA StringBounded ==
  ASSUME NEW p \in Nat, p <= Len(data), data \in Seq(Byte)
  PROVE  Bounded(DecodeQString(p), p) /\ Bounded(DecodeQByteArray(p), p)
<1> DEFINE r == DecodeNumber("qint32", p)
           n == IF r.ok THEN r.value ELSE 0
<1>1. Bounded(r, p) /\ (r.ok => r.value \in Int)
  BY NumberTypes, NumberBounded
<1>2. DecodeQString(p) = Announced(n, r.to)
  BY DEF DecodeQString
<1>3. DecodeQByteArray(p) = IF r.ok THEN Announced(r.value, r.to) ELSE r
  BY DEF DecodeQByteArray, OnSuccess
<1> HIDE DEF r
<1>4. r.to \in p .. Len(data) /\ r.to \in Nat /\ r.to <= Len(data)
  BY <1>1 DEF Bounded
<1>5. n \in Int
  BY <1>1
<1> HIDE DEF n
<1>6. Bounded(DecodeQString(p), p)
  <2>1. Bounded(Announced(n, r.to), r.to)
    BY <1>4, <1>5, AnnouncedBounded
  <2> QED
    BY <1>2, <1>4, <2>1, BoundedStep
<1>7. Bounded(DecodeQByteArray(p), p)
  <2>1. CASE r.ok
    <3>1. Bounded(Announced(r.value, r.to), r.to)
      BY <1>1, <1>4, <2>1, AnnouncedBounded
    <3> QED
      BY <1>3, <1>4, <2>1, <3>1, BoundedStep
  <2>2. CASE ~r.ok
    BY <1>1, <1>3, <2>2
  <2> QED
    BY <2>1, <2>2
<1> QED
  BY <1>6, <1>7

(* The bytes behind the length of a string. *)
LEMMA AnnouncedReads ==
  ASSUME NEW s \in Seq(Byte), NEW p \in Nat, data \in Seq(Byte)
  PROVE  /\ Holds(p, s) => Announced(Len(s), p) = Got(s, p + Len(s))
         /\ Breaks(p, s) => ~Announced(Len(s), p).ok
<1>1. Len(s) \in Nat /\ Len(data) \in Nat
  OBVIOUS
<1>2. ASSUME Holds(p, s) PROVE Announced(Len(s), p) = Got(s, p + Len(s))
  <2>1. enoughData(p, Len(s)) /\ Bytes(p, Len(s)) = s
    BY <1>2, HeldBytes
  <2>2. CASE Len(s) > 0
    BY <2>1, <2>2 DEF Announced
  <2>3. CASE Len(s) = 0
    <3>1. s = <<>> /\ p + Len(s) = p
      BY <2>3
    <3>2. Announced(Len(s), p) = Got(<<>>, p)
      BY <2>3 DEF Announced
    <3> QED
      BY <3>1, <3>2
  <2> QED
    BY <1>1, <2>2, <2>3
<1>3. ASSUME Breaks(p, s) PROVE ~Announced(Len(s), p).ok
  <2>1. Len(s) > 0 /\ ~enoughData(p, Len(s))
    BY <1>1, <1>3 DEF Breaks, enoughData
  <2>2. Announced(Len(s), p) = Failed(p)
    BY <2>1 DEF Announced
  <2> QED
    BY <2>2 DEF Failed
<1> QED
  BY <1>2, <1>3

(* Bytes of neither one nor more are none. *)
LEMMA EmptyBytes ==
  ASSUME NEW s \in Seq(Byte), ~(Len(s) > 1), Len(s) # 1
  PROVE  s = <<>>
<1>1. Len(s) \in Nat
  OBVIOUS
<1>2. \A n \in Nat : ~(n > 1) /\ n # 1 => n = 0
  OBVIOUS
<1>3. Len(s) = 0
  BY <1>1, <1>2, Zenon
<1> QED
  BY <1>3

(* The length that is encoded for a string is a qint32. *)
LEMMA LengthHasWidth ==
  ASSUME NEW s, IsByteString(s)
  PROVE  HasWidth("qint32", IF s = Null THEN -1 ELSE Len(s)) /\ (s = Null \/ s \in Seq(Byte))
<1>1. CASE s = Null
  <2>1. HasWidth("qint32", -1)
    BY Widths
  <2>2. (IF s = Null THEN -1 ELSE Len(s)) = -1
    BY <1>1
  <2> QED
    BY <1>1, <2>1, <2>2, Zenon
<1>2. CASE s # Null
  <2>1. s \in Seq(Byte) /\ HasWidth("qint32", Len(s))
    BY <1>2, Zenon DEF IsByteString
  <2>2. (IF s = Null THEN -1 ELSE Len(s)) = Len(s)
    BY <1>2
  <2> QED
    BY <2>1, <2>2, Zenon
<1> QED
  BY <1>1, <1>2

(* A QString is read as it was encoded, null and empty ones apart from     *)
(* each other.                                                             *)
LEMMA QStringCodec ==
  ASSUME NEW s, IsByteString(s), NEW p \in Nat, data \in Seq(Byte)
  PROVE  /\ Encoded(EncodeQString(s)) /\ EncodeQString(s).ok /\ Len(EncodeQString(s).bytes) > 0
         /\ Reads(EncodeQString(s), DecodeQString(p), p, s)
<1> DEFINE e == EncodeQString(s)
           n == IF s = Null THEN -1 ELSE Len(s)
           a == EncodeNumber("qint32", n)
           r == DecodeNumber("qint32", p)
<1>1. HasWidth("qint32", n) /\ (s = Null \/ s \in Seq(Byte))
  BY LengthHasWidth
<1>2. "qint32" \in Numbers /\ sizeof["qint32"] = 4
  BY NumberTypes
<1>3. s # Null => n = Len(s)
  OBVIOUS
<1>4. s = Null => n = -1
  OBVIOUS
<1>5. e = IF s = Null THEN a ELSE Then(a, Good(s))
  BY DEF EncodeQString
<1>6. DecodeQString(p) = Announced(IF r.ok THEN r.value ELSE 0, r.to)
  BY DEF DecodeQString
<1> HIDE DEF n
<1>7. /\ Encoded(a) /\ a.ok /\ Len(a.bytes) = 4
      /\ Reads(a, r, p, n)
  BY <1>1, <1>2, NumberCodec
<1> HIDE DEF a, r, e
<1>8. ASSUME Holds(p, a.bytes) PROVE DecodeQString(p) = Announced(n, p + Len(a.bytes))
  <2>1. r = Got(n, p + Len(a.bytes))
    BY <1>7, <1>8 DEF Reads
  <2>2. r.ok /\ r.value = n /\ r.to = p + Len(a.bytes)
    BY <2>1 DEF Got
  <2> QED
    BY <1>6, <2>2
<1>9. CASE s = Null
  <2>1. e = a /\ n = -1
    BY <1>4, <1>5, <1>9
  <2>2. Announced(-1, p + Len(a.bytes)) = Got(Null, p + Len(a.bytes))
    BY DEF Announced
  <2>3. Reads(e, DecodeQString(p), p, s)
    BY <1>8, <1>9, <2>1, <2>2, Zenon DEF Reads
  <2>4. Len(e.bytes) > 0
    <3>1. Len(e.bytes) = 4
      BY <1>7, <2>1, Zenon
    <3> QED
      BY <3>1
  <2> QED
    BY <1>7, <2>1, <2>3, <2>4, Zenon DEF e
<1>10. CASE s # Null
  <2>1. e = Then(a, Good(s)) /\ n = Len(s) /\ s \in Seq(Byte)
    BY <1>1, <1>3, <1>5, <1>10
  <2> DEFINE b == Good(s)
  <2>2. Encoded(b) /\ b.ok /\ b.bytes = s
    BY <2>1, GoodEncoded
  <2>2e. e = Then(a, b)
    BY <2>1
  <2> HIDE DEF b
  <2>3. /\ Encoded(e) /\ e.ok = b.ok /\ Len(a.bytes) \in Nat /\ Len(b.bytes) \in Nat
        /\ Len(e.bytes) = Len(a.bytes) + Len(b.bytes)
        /\ p + Len(e.bytes) = (p + Len(a.bytes)) + Len(b.bytes)
        /\ Holds(p, e.bytes) => Holds(p, a.bytes) /\ Holds(p + Len(a.bytes), b.bytes)
    BY <1>7, <2>2, <2>2e, ThenEncoded, ZenonT(60)
  <2>4. ASSUME Holds(p, e.bytes) PROVE DecodeQString(p) = Got(s, p + Len(e.bytes))
    <3>1. Holds(p, a.bytes) /\ Holds(p + Len(a.bytes), s)
      BY <2>2, <2>3, <2>4
    <3>2. p + Len(a.bytes) \in Nat
      BY <2>3
    <3>3. Announced(Len(s), p + Len(a.bytes)) = Got(s, (p + Len(a.bytes)) + Len(s))
      BY <2>1, <3>1, <3>2, AnnouncedReads
    <3> QED
      BY <1>8, <2>1, <2>2, <2>3, <3>1, <3>3
  <2>5. Len(e.bytes) > 0
    BY <1>7, <2>3
  <2>6. Encoded(e) /\ e.ok
    BY <2>2, <2>3
  <2> QED
    BY <2>4, <2>5, <2>6, Zenon DEF Reads, e
<1> QED
  BY <1>9, <1>10

(* The same of a QByteArray that has not one byte; it is refused when it   *)
(* breaks off.                                                             *)
LEMMA QByteArrayCodec ==
  ASSUME NEW s, IsByteString(s), NEW p \in Nat, data \in Seq(Byte)
  PROVE  /\ Encoded(EncodeQByteArray(s)) /\ EncodeQByteArray(s).ok
         /\ Len(EncodeQByteArray(s).bytes) > 0
         /\ LengthOf(s) # 1 => /\ Reads(EncodeQByteArray(s), DecodeQByteArray(p), p, s)
                               /\ Refuses(EncodeQByteArray(s), DecodeQByteArray(p), p)
<1> DEFINE e == EncodeQByteArray(s)
           n == IF s = Null THEN -1 ELSE Len(s)
           t == IF Len(s) > 1 THEN s ELSE <<>>
           a == EncodeNumber("qint32", n)
           r == DecodeNumber("qint32", p)
<1>1. HasWidth("qint32", n) /\ (s = Null \/ s \in Seq(Byte))
  BY LengthHasWidth
<1>2. "qint32" \in Numbers /\ sizeof["qint32"] = 4
  BY NumberTypes
<1>3. s # Null => n = Len(s)
  OBVIOUS
<1>4. s = Null => n = -1
  OBVIOUS
<1>5. e = IF s = Null THEN a ELSE Then(a, Good(t))
  BY DEF EncodeQByteArray
<1>6. DecodeQByteArray(p) = IF r.ok THEN Announced(r.value, r.to) ELSE r
  BY DEF DecodeQByteArray, OnSuccess
<1> HIDE DEF n
<1>7. /\ Encoded(a) /\ a.ok /\ Len(a.bytes) = 4
      /\ Reads(a, r, p, n) /\ Refuses(a, r, p)
  BY <1>1, <1>2, NumberCodec
<1>8. ASSUME s \in Seq(Byte) PROVE t \in Seq(Byte) /\ (Len(s) # 1 => t = s)
  <2>1. CASE Len(s) > 1
    BY <1>8, <2>1
  <2>2. CASE ~(Len(s) > 1)
    <3>1. t = <<>>
      BY <2>2
    <3>2. <<>> \in Seq(Byte)
      OBVIOUS
    <3>3. Len(s) # 1 => s = <<>>
      BY <1>8, <2>2, EmptyBytes
    <3> QED
      BY <3>1, <3>2, <3>3, Zenon
  <2> QED
    BY <2>1, <2>2
<1> HIDE DEF a, r, e, t
<1>9. ASSUME Holds(p, a.bytes) PROVE DecodeQByteArray(p) = Announced(n, p + Len(a.bytes))
  <2>1. r = Got(n, p + Len(a.bytes))
    BY <1>7, <1>9 DEF Reads
  <2>2. r.ok /\ r.value = n /\ r.to = p + Len(a.bytes)
    BY <2>1 DEF Got
  <2> QED
    BY <1>6, <2>2
<1>10. ASSUME Breaks(p, a.bytes) PROVE ~DecodeQByteArray(p).ok
  <2>1. ~r.ok
    BY <1>7, <1>10 DEF Refuses
  <2> QED
    BY <1>6, <2>1
<1>11. CASE s = Null
  <2>1. e = a /\ n = -1
    BY <1>4, <1>5, <1>11
  <2>2. Announced(-1, p + Len(a.bytes)) = Got(Null, p + Len(a.bytes))
    BY DEF Announced
  <2>3. Reads(e, DecodeQByteArray(p), p, s)
    BY <1>9, <1>11, <2>1, <2>2, Zenon DEF Reads
  <2>4. Len(e.bytes) > 0
    <3>1. Len(e.bytes) = 4
      BY <1>7, <2>1, Zenon
    <3> QED
      BY <3>1
  <2>5. Refuses(e, DecodeQByteArray(p), p)
    BY <1>10, <2>1, Zenon DEF Refuses
  <2> QED
    BY <1>7, <2>1, <2>3, <2>4, <2>5, Zenon DEF e
<1>12. CASE s # Null
  <2>1. e = Then(a, Good(t)) /\ n = Len(s) /\ s \in Seq(Byte) /\ t \in Seq(Byte)
    BY <1>1, <1>3, <1>5, <1>8, <1>12
  <2> DEFINE b == Good(t)
  <2>2. Encoded(b) /\ b.ok /\ b.bytes = t
    BY <2>1, GoodEncoded
  <2>2e. e = Then(a, b)
    BY <2>1
  <2> HIDE DEF b
  <2>3. /\ Encoded(e) /\ e.ok = b.ok /\ Len(a.bytes) \in Nat /\ Len(b.bytes) \in Nat
        /\ Len(e.bytes) = Len(a.bytes) + Len(b.bytes)
        /\ p + Len(e.bytes) = (p + Len(a.bytes)) + Len(b.bytes)
        /\ Holds(p, e.bytes) => Holds(p, a.bytes) /\ Holds(p + Len(a.bytes), b.bytes)
        /\ Breaks(p, e.bytes) =>
              \/ Breaks(p, a.bytes)
              \/ Holds(p, a.bytes) /\ Breaks(p + Len(a.bytes), b.bytes)
    BY <1>7, <2>2, <2>2e, ThenEncoded, ZenonT(60)
  <2>4. ASSUME Len(s) # 1, Holds(p, e.bytes) PROVE DecodeQByteArray(p) = Got(s, p + Len(e.bytes))
    <3>1. Holds(p, a.bytes) /\ Holds(p + Len(a.bytes), s) /\ t = s
      BY <1>8, <2>1, <2>2, <2>3, <2>4
    <3>2. p + Len(a.bytes) \in Nat
      BY <2>3
    <3>3. Announced(Len(s), p + Len(a.bytes)) = Got(s, (p + Len(a.bytes)) + Len(s))
      BY <2>1, <3>1, <3>2, AnnouncedReads
    <3> QED
      BY <1>9, <2>1, <2>2, <2>3, <3>1, <3>3
  <2>5. ASSUME Len(s) # 1, Breaks(p, e.bytes) PROVE ~DecodeQByteArray(p).ok
    <3>1. CASE Breaks(p, a.bytes)
      BY <1>10, <3>1
    <3>2. CASE Holds(p, a.bytes) /\ Breaks(p + Len(a.bytes), b.bytes)
      <4>1. Breaks(p + Len(a.bytes), s) /\ p + Len(a.bytes) \in Nat
        BY <1>8, <2>1, <2>2, <2>3, <2>5, <3>2
      <4>2. ~Announced(Len(s), p + Len(a.bytes)).ok
        BY <2>1, <4>1, AnnouncedReads
      <4> QED
        BY <1>9, <2>1, <3>2, <4>2
    <3> QED
      BY <2>3, <2>5, <3>1, <3>2
  <2>6. Len(e.bytes) > 0
    BY <1>7, <2>3
  <2>7. Encoded(e) /\ e.ok
    BY <2>2, <2>3
  <2>8. LengthOf(s) = Len(s)
    BY <1>12 DEF LengthOf
  <2> QED
    BY <2>4, <2>5, <2>6, <2>7, <2>8, Zenon DEF Reads, Refuses, e
<1> QED
  BY <1>11, <1>12

-----------------------------------------------------------------------------
(* Fixed lengths: booleans, GUIDs, dates.                                  *)

(* A bool is read as it was encoded, and refused when it breaks off. *)
LEMMA BoolCodec ==
  ASSUME NEW v \in BOOLEAN, NEW p \in Nat, data \in Seq(Byte)
  PROVE  /\ Encoded(EncodeBool(v)) /\ EncodeBool(v).ok /\ Len(EncodeBool(v).bytes) > 0
         /\ Reads(EncodeBool(v), DecodeBool(p), p, v)
         /\ Refuses(EncodeBool(v), DecodeBool(p), p)
<1> DEFINE x == IF v THEN 1 ELSE 0
           b == <<x>>
           e == EncodeBool(v)
<1>1. x \in Byte
  BY ByteRange
<1>2. x # 0 <=> v
  OBVIOUS
<1>3. e = Good(b)
  BY DEF EncodeBool
<1> HIDE DEF x
<1>4. b \in Seq(Byte) /\ Len(b) = 1 /\ b[1] = x
  BY <1>1
<1> HIDE DEF b
<1>5. Encoded(e) /\ e.ok /\ e.bytes = b
  BY <1>3, <1>4, GoodEncoded
<1> HIDE DEF e
<1>6. ASSUME Holds(p, b) PROVE DecodeBool(p) = Got(v, p + Len(b))
  <2>1. enoughData(p, 1)
    BY <1>4, <1>6, HeldBytes
  <2>2. data[p + 1] = x
    BY <1>4, <1>6 DEF Holds
  <2>3. DecodeBool(p) = Got(data[p + 1] # 0, p + 1)
    BY <2>1 DEF DecodeBool
  <2>4. (data[p + 1] # 0) = v
    BY <1>2, <2>2
  <2> QED
    BY <1>4, <2>3, <2>4, Zenon
<1>7. ASSUME Breaks(p, b) PROVE ~DecodeBool(p).ok
  <2>1. ~enoughData(p, 1)
    BY <1>4, <1>7 DEF Breaks, enoughData
  <2> QED
    BY <2>1 DEF DecodeBool, Failed
<1>8. Len(b) > 0
  BY <1>4
<1> QED
  BY <1>5, <1>6, <1>7, <1>8, Zenon DEF Reads, Refuses, e

(* A bool is read inside of the buffer. *)
LEMMA BoolBounded ==
  ASSUME NEW p \in Nat, p <= Len(data), data \in Seq(Byte)
  PROVE  Bounded(DecodeBool(p), p)
<1>1. CASE enoughData(p, 1)
  <2>1. p + 1 \in p .. Len(data)
    BY <1>1 DEF enoughData
  <2>2. DecodeBool(p) = Got(data[p + 1] # 0, p + 1)
    BY <1>1 DEF DecodeBool
  <2> QED
    BY <2>1, <2>2, GotBounded
<1>2. CASE ~enoughData(p, 1)
  <2>1. DecodeBool(p) = Failed(p)
    BY <1>2 DEF DecodeBool
  <2> QED
    BY <2>1, FailedBounded
<1> QED
  BY <1>1, <1>2

(* A function from 1 .. n to bytes is a sequence of n bytes. *)
LEMMA FunctionBytes ==
  ASSUME NEW n \in Nat, NEW f \in [1 .. n -> Byte]
  PROVE  f \in Seq(Byte) /\ Len(f) = n
<1>1. f = [i \in 1 .. n |-> f[i]] /\ \A i \in 1 .. n : f[i] \in Byte
  OBVIOUS
<1>2. f \in Seq(Byte)
  OBVIOUS
<1>3. Len(f) = n
  BY <1>1, <1>2
<1> QED
  BY <1>2, <1>3

(* A QUuid is read as it was encoded, and refused when it breaks off. *)
LEMMA QUuidCodec ==
  ASSUME NEW u, IsUuid(u), NEW p \in Nat, data \in Seq(Byte)
  PROVE  /\ Encoded(EncodeQUuid(u)) /\ EncodeQUuid(u).ok /\ Len(EncodeQUuid(u).bytes) > 0
         /\ Reads(EncodeQUuid(u), DecodeQUuid(p), p, u)
         /\ Refuses(EncodeQUuid(u), DecodeQUuid(p), p)
<1> DEFINE e == EncodeQUuid(u)
<1>1. u \in Seq(Byte) /\ Len(u) = 16
  <2>1. u \in [1 .. 16 -> Byte]
    BY DEF IsUuid
  <2>2. 16 \in Nat
    OBVIOUS
  <2> QED
    BY <2>1, <2>2, FunctionBytes, Zenon
<1>2. Encoded(e) /\ e.ok /\ e.bytes = u
  BY <1>1, GoodEncoded DEF EncodeQUuid
<1> HIDE DEF e
<1>3. ASSUME Holds(p, u) PROVE DecodeQUuid(p) = Got(u, p + Len(u))
  <2>1. enoughData(p, 16) /\ Bytes(p, 16) = u
    BY <1>1, <1>3, HeldBytes
  <2> QED
    BY <1>1, <2>1 DEF DecodeQUuid
<1>4. ASSUME Breaks(p, u) PROVE ~DecodeQUuid(p).ok
  <2>1. ~enoughData(p, 16)
    BY <1>1, <1>4 DEF Breaks, enoughData
  <2> QED
    BY <2>1 DEF DecodeQUuid, Failed
<1>5. Len(u) > 0
  BY <1>1
<1> QED
  BY <1>2, <1>3, <1>4, <1>5, Zenon DEF Reads, Refuses, e

(* A QUuid is read inside of the buffer. *)
LEMMA QUuidBounded ==
  ASSUME NEW p \in Nat, p <= Len(data), data \in Seq(Byte)
  PROVE  Bounded(DecodeQUuid(p), p)
<1>1. CASE enoughData(p, 16)
  <2>1. p + 16 \in p .. Len(data)
    BY <1>1 DEF enoughData
  <2>2. DecodeQUuid(p) = Got(Bytes(p, 16), p + 16)
    BY <1>1 DEF DecodeQUuid
  <2> QED
    BY <2>1, <2>2, GotBounded
<1>2. CASE ~enoughData(p, 16)
  <2>1. DecodeQUuid(p) = Failed(p)
    BY <1>2 DEF DecodeQUuid
  <2> QED
    BY <2>1, FailedBounded
<1> QED
  BY <1>1, <1>2

(* The bytes that stand for a date in 9999 or later. *)
LEMMA MaxInt64Bytes == MaxInt64 \in Seq(Byte) /\ Len(MaxInt64) = 8 /\ MaxInt64[1] = 255
<1>1. 127 \in Byte /\ 255 \in Byte
  BY ByteRange
<1>2. MaxInt64 \in [1 .. 8 -> Byte]
  <2> DEFINE b(i) == IF i = 8 THEN 127 ELSE 255
  <2>1. \A i \in 1 .. 8 : b(i) \in Byte
    BY <1>1
  <2>2. MaxInt64 = [i \in 1 .. 8 |-> b(i)]
    BY Zenon DEF MaxInt64
  <2> HIDE DEF b
  <2> QED
    BY <2>1, <2>2, Zenon
<1>3. MaxInt64[1] = 255
  BY DEF MaxInt64
<1>4. 8 \in Nat
  OBVIOUS
<1> HIDE DEF MaxInt64
<1>5. MaxInt64 \in Seq(Byte) /\ Len(MaxInt64) = 8
  BY <1>2, <1>4, FunctionBytes, Zenon
<1> QED
  BY <1>3, <1>5, Zenon

(* No date but the one that is too far is the largest number. *)
LEMMA DateIsNotMax ==
  ASSUME NEW v \in Int, v % 2 = 0
  PROVE  qToLittleEndian(v, 8) # MaxInt64
<1> DEFINE b == qToLittleEndian(v, 8)
<1>1. b[1] = Shifted(v, 1 - 1) % 256
  <2>1. 8 \in 1 .. 8 /\ 1 \in 1 .. 8
    OBVIOUS
  <2>2. \A i \in 1 .. 8 : b[i] = Shifted(v, i - 1) % 256
    BY <2>1, LittleEndianBytes, SMTT(30), ZenonT(60)
  <2> QED
    BY <2>1, <2>2, Zenon
<1>2. Shifted(v, 1 - 1) = v
  <2>1. 1 - 1 = 0
    OBVIOUS
  <2> QED
    BY <2>1, ShiftedStep
<1> HIDE DEF b
<1>3. b[1] # 255
  <2> DEFINE q == v \div 256
             r == v % 256
  <2>1. q \in Int /\ r \in Byte /\ v = r + 256 * q
    BY DivisionByBase
  <2>2. r \in Int
    BY <2>1, ByteRange
  <2> HIDE DEF q, r
  <2>3. r % 2 = 0
    BY <2>1, <2>2
  <2>4. r # 255
    BY <2>3
  <2> QED
    BY <1>1, <1>2, <2>4 DEF r
<1>4. b # MaxInt64
  BY <1>3, MaxInt64Bytes, Zenon
<1> QED
  BY <1>4 DEF b

(* A QDateTime is read inside of the buffer. *)
LEMMA QDateTimeBounded ==
  ASSUME NEW p \in Nat, p <= Len(data), data \in Seq(Byte)
  PROVE  Bounded(DecodeQDateTime(p), p)
<1> DEFINE r == DecodeNumber("qint64", p)
<1>1. CASE enoughData(p, 8) /\ Bytes(p, 8) = MaxInt64
  <2>1. p + 8 \in p .. Len(data)
    BY <1>1 DEF enoughData
  <2>2. DecodeQDateTime(p) = Got(Null, p + 8)
    BY <1>1 DEF DecodeQDateTime
  <2> QED
    BY <2>1, <2>2, GotBounded
<1>2. CASE ~(enoughData(p, 8) /\ Bytes(p, 8) = MaxInt64)
  <2>1. Bounded(r, p)
    BY NumberTypes, NumberBounded
  <2>2. DecodeQDateTime(p) =
          IF r.ok THEN Got(DateOf(r.value), r.to) ELSE r
    BY <1>2, Zenon DEF DecodeQDateTime, OnSuccess
  <2> HIDE DEF r
  <2>3. r.to \in p .. Len(data)
    BY <2>1 DEF Bounded
  <2>4. CASE r.ok
    <3>1. DecodeQDateTime(p) = Got(DateOf(r.value), r.to)
      BY <2>2, <2>4, Zenon
    <3> QED
      BY <2>3, <3>1, GotBounded
  <2>5. CASE ~r.ok
    BY <2>1, <2>2, <2>5, Zenon
  <2> QED
    BY <2>4, <2>5
<1> QED
  BY <1>1, <1>2

(* A date is read as it was encoded, as no date out of range, and refused  *)
(* when it breaks off.                                                     *)
LEMMA QDateTimeCodec ==
  ASSUME NEW v, IsField("QDateTime", v), NEW p \in Nat, data \in Seq(Byte)
  PROVE  /\ Encoded(EncodeQDateTime(v)) /\ EncodeQDateTime(v).ok
         /\ Len(EncodeQDateTime(v).bytes) > 0
         /\ Reads(EncodeQDateTime(v), DecodeQDateTime(p), p, ExpectedField("QDateTime", v))
         /\ Refuses(EncodeQDateTime(v), DecodeQDateTime(p), p)
<1> DEFINE e == EncodeQDateTime(v)
           r == DecodeNumber("qint64", p)
           x == ExpectedField("QDateTime", v)
<1>1. v = Far \/ (v \in Int /\ (v > 0 => HasWidth("qint64", 10000 * v)))
  BY NumberTypes DEF IsField, Numbers
<1>2. x = IF v = Far \/ v <= 0 THEN Null ELSE v
  BY SMTT(30) DEF ExpectedField
<1>3. e = CASE v = Far            -> Good(MaxInt64)
            [] v # Far /\ v <= 0  -> EncodeNumber("qint64", 0)
            [] v # Far /\ v > 0   -> EncodeNumber("qint64", 10000 * v)
  BY ZenonT(60) DEF EncodeQDateTime
<1>4. DecodeQDateTime(p) =
        IF enoughData(p, 8) /\ Bytes(p, 8) = MaxInt64 THEN Got(Null, p + 8)
        ELSE IF r.ok THEN Got(DateOf(r.value), r.to) ELSE r
  BY Zenon DEF DecodeQDateTime, OnSuccess
<1>5. sizeof["qint64"] = 8 /\ "qint64" \in Numbers
  BY NumberTypes
<1>6. ~enoughData(p, 8) => ~r.ok
  BY <1>5 DEF DecodeNumber, Failed
<1>7. \A b : b \in Seq(Byte) /\ Len(b) = 8 => (Breaks(p, b) => ~DecodeQDateTime(p).ok)
  <2> TAKE b
  <2> HAVE b \in Seq(Byte) /\ Len(b) = 8
  <2> HAVE Breaks(p, b)
  <2>1. ~enoughData(p, 8)
    BY DEF Breaks, enoughData
  <2> QED
    BY <1>4, <1>6, <2>1
<1> HIDE DEF e, x
<1>8. CASE v = Far
  <2>1. e = Good(MaxInt64) /\ x = Null
    BY <1>2, <1>3, <1>8
  <2>2. Encoded(e) /\ e.ok /\ e.bytes = MaxInt64 /\ Len(e.bytes) = 8
    BY <2>1, MaxInt64Bytes, GoodEncoded
  <2>3. ASSUME Holds(p, e.bytes) PROVE DecodeQDateTime(p) = Got(x, p + Len(e.bytes))
    <3>1. enoughData(p, 8) /\ Bytes(p, 8) = MaxInt64
      <4>1. Holds(p, MaxInt64)
        BY <2>2, <2>3, Zenon
      <4>2. enoughData(p, Len(MaxInt64)) /\ Bytes(p, Len(MaxInt64)) = MaxInt64
        BY <4>1, MaxInt64Bytes, HeldBytes, Zenon
      <4> QED
        BY <4>2, MaxInt64Bytes, Zenon
    <3> QED
      BY <1>4, <2>1, <2>2, <3>1, Zenon
  <2>4. Len(e.bytes) > 0
    BY <2>2
  <2>5. Refuses(e, DecodeQDateTime(p), p)
    BY <1>7, <2>2, MaxInt64Bytes, Zenon DEF Refuses
  <2> QED
    BY <2>2, <2>3, <2>4, <2>5, Zenon DEF Reads, e, x
<1>9. CASE v # Far
  <2> DEFINE y == IF v <= 0 THEN 0 ELSE 10000 * v
             b == qToLittleEndian(y, 8)
  <2>1. v \in Int
    BY <1>1, <1>9
  <2>2. HasWidth("qint64", y)
    BY <1>1, <1>9, Widths
  <2>3. y \in Int /\ y % 2 = 0
    BY <2>1
  <2>4. x = DateOf(y)
    BY <1>2, <1>9, <2>1 DEF DateOf
  <2>5. e = EncodeNumber("qint64", y)
    BY <1>3, <1>9, <2>1
  <2> HIDE DEF y
  <2>6. /\ Encoded(e) /\ e.ok /\ e.bytes = b /\ Len(e.bytes) = 8
        /\ Reads(e, r, p, y)
    <3> DEFINE d == EncodeNumber("qint64", y)
    <3>1. Encoded(d) /\ d.ok /\ d.bytes = qToLittleEndian(y, sizeof["qint64"])
          /\ Len(d.bytes) = sizeof["qint64"] /\ Reads(d, r, p, y)
      BY <1>5, <2>2, NumberCodec, Zenon
    <3> QED
      BY <1>5, <2>5, <3>1, Zenon
  <2>7. b # MaxInt64
    BY <2>3, DateIsNotMax
  <2> HIDE DEF b, r
  <2>8. b \in Seq(Byte) /\ Len(b) = 8 /\ e.bytes = b
    BY <2>6 DEF Encoded
  <2>9. ASSUME Holds(p, b) PROVE DecodeQDateTime(p) = Got(x, p + Len(b))
    <3>1. Bytes(p, 8) # MaxInt64
      BY <2>7, <2>8, <2>9, HeldBytes
    <3>2. r = Got(y, p + Len(b))
      BY <2>6, <2>9, Zenon DEF Reads
    <3>3. r.ok /\ r.value = y /\ r.to = p + Len(b)
      BY <3>2 DEF Got
    <3>4. DecodeQDateTime(p) =
            IF r.ok THEN Got(DateOf(r.value), r.to) ELSE r
      BY <1>4, <3>1, Zenon
    <3>5. DecodeQDateTime(p) = Got(DateOf(r.value), r.to)
      BY <3>3, <3>4, Zenon
    <3>6. DateOf(r.value) = x
      BY <2>4, <3>3, Zenon
    <3> QED
      BY <3>3, <3>5, <3>6, Zenon
  <2>10. Refuses(e, DecodeQDateTime(p), p)
    BY <1>7, <2>8, Zenon DEF Refuses
  <2>11. Len(e.bytes) > 0
    BY <2>6
  <2> QED
    BY <2>6, <2>8, <2>9, <2>10, <2>11, Zenon DEF Reads, e, x
<1> QED
  BY <1>8, <1>9

-----------------------------------------------------------------------------
(* Texts: a byte of flags before the parts that are there.                 *)

(* A call that appends nothing. *)
LEMMA NothingEncoded ==
  ASSUME data \in Seq(Byte)
  PROVE  /\ Encoded(Good(<<>>)) /\ Good(<<>>).ok /\ Good(<<>>).bytes = <<>>
         /\ Len(Good(<<>>).bytes) = 0
         /\ \A p \in Nat : ~Breaks(p, <<>>)
<1>1. <<>> \in Seq(Byte) /\ Len(<<>>) = 0
  OBVIOUS
<1>2. \A p \in Nat : ~Breaks(p, <<>>)
  BY <1>1 DEF Breaks
<1> QED
  BY <1>1, <1>2, GoodEncoded, Zenon

(* A part behind a flag is read as it was encoded, as null when it was     *)
(* empty.                                                                  *)
LEMMA OptionalCodec ==
  ASSUME NEW s, IsByteString(s), NEW flags, NEW bit, HasFlag(flags, bit) <=> LengthOf(s) # 0,
         NEW p \in Nat, data \in Seq(Byte)
  PROVE  /\ Encoded(EncodeOptional(s)) /\ EncodeOptional(s).ok
         /\ Reads(EncodeOptional(s), DecodeOptional(flags, bit, p), p, Visible(s))
         /\ LengthOf(s) = 0 => EncodeOptional(s) = Good(<<>>)
<1>1. CASE LengthOf(s) # 0
  <2>1. EncodeOptional(s) = EncodeQString(s) /\ Visible(s) = s
    BY <1>1 DEF EncodeOptional, Visible
  <2>2. DecodeOptional(flags, bit, p) = DecodeQString(p)
    BY <1>1, Zenon DEF DecodeOptional
  <2> QED
    BY <1>1, <2>1, <2>2, QStringCodec, Zenon
<1>2. CASE LengthOf(s) = 0
  <2>1. EncodeOptional(s) = Good(<<>>) /\ Visible(s) = Null
    BY <1>2 DEF EncodeOptional, Visible
  <2>2. DecodeOptional(flags, bit, p) = Got(Null, p)
    BY <1>2, Zenon DEF DecodeOptional
  <2>3. Len(Good(<<>>).bytes) = 0 /\ p + 0 = p
    BY NothingEncoded
  <2>4. Reads(EncodeOptional(s), DecodeOptional(flags, bit, p), p, Visible(s))
    BY <2>1, <2>2, <2>3, Zenon DEF Reads
  <2> QED
    BY <2>1, <2>4, NothingEncoded, Zenon
<1> QED
  BY <1>1, <1>2

(* A part behind a flag is read inside of the buffer. *)
LEMMA OptionalBounded ==
  ASSUME NEW flags, NEW bit, NEW p \in Nat, p <= Len(data), data \in Seq(Byte)
  PROVE  Bounded(DecodeOptional(flags, bit, p), p)
<1>1. CASE HasFlag(flags, bit)
  <2>1. DecodeOptional(flags, bit, p) = DecodeQString(p)
    BY <1>1, Zenon DEF DecodeOptional
  <2> QED
    BY <2>1, StringBounded, Zenon
<1>2. CASE ~HasFlag(flags, bit)
  <2>1. DecodeOptional(flags, bit, p) = Got(Null, p)
    BY <1>2, Zenon DEF DecodeOptional
  <2>2. p \in p .. Len(data)
    OBVIOUS
  <2> QED
    BY <2>1, <2>2, GotBounded, Zenon
<1> QED
  BY <1>1, <1>2

(* A read after one that has succeeded, or has failed. *)
LEMMA BoundedInTurn ==
  ASSUME NEW p \in Nat, data \in Seq(Byte), NEW r, Bounded(r, p)
  PROVE  /\ r.to \in p .. Len(data) /\ r.to \in Nat /\ r.to <= Len(data)
         /\ \A next : Bounded(next, r.to) => Bounded(next, p)
<1>1. r.to \in p .. Len(data) /\ Len(data) \in Nat
  BY DEF Bounded
<1>2. \A next : Bounded(next, r.to) => Bounded(next, p)
  BY <1>1, BoundedStep
<1> QED
  BY <1>1, <1>2

Flags(t) == (IF LengthOf(t[1]) # 0 THEN 1 ELSE 0) + (IF LengthOf(t[2]) # 0 THEN 2 ELSE 0)

(* The mask of a localized text tells which of its parts are there. *)
LEMMA FlagsAreRead ==
  ASSUME NEW t
  PROVE  /\ HasWidth("quint8", Flags(t))
         /\ HasFlag(Flags(t), 1) <=> LengthOf(t[1]) # 0
         /\ HasFlag(Flags(t), 2) <=> LengthOf(t[2]) # 0
<1> DEFINE m == Flags(t)
           a == LengthOf(t[1]) # 0
           b == LengthOf(t[2]) # 0
<1>1. m = (IF a THEN 1 ELSE 0) + (IF b THEN 2 ELSE 0)
  BY DEF Flags
<1> HIDE DEF m, a, b
<1>2. (HasFlag(m, 1) <=> a) /\ (HasFlag(m, 2) <=> b) /\ m \in Int /\ 0 <= m /\ m <= 255
  <2>1. CASE a /\ b
    BY <1>1, <2>1 DEF HasFlag
  <2>2. CASE a /\ ~b
    BY <1>1, <2>2 DEF HasFlag
  <2>3. CASE ~a /\ b
    BY <1>1, <2>3 DEF HasFlag
  <2>4. CASE ~a /\ ~b
    BY <1>1, <2>4 DEF HasFlag
  <2> QED
    BY <2>1, <2>2, <2>3, <2>4
<1>3. HasWidth("quint8", m)
  BY <1>2, Widths
<1> QED
  BY <1>2, <1>3, Zenon DEF m, a, b

(* The reads of a localized text, one after the other. *)
LEMMA TextDecoded ==
  ASSUME NEW p
  PROVE  LET m == DecodeNumber("quint8", p)
             l == DecodeOptional(m.value, 1, m.to)
             t == DecodeOptional(m.value, 2, l.to)
         IN /\ ~m.ok => DecodeLocalizedText(p) = m
            /\ m.ok /\ ~l.ok => DecodeLocalizedText(p) = l
            /\ m.ok /\ l.ok /\ ~t.ok => DecodeLocalizedText(p) = t
            /\ m.ok /\ l.ok /\ t.ok => DecodeLocalizedText(p) = Got(<<l.value, t.value>>, t.to)
BY Zenon DEF DecodeLocalizedText, OnSuccess

(* A read in two calls of what was encoded in two calls. *)
LEMMA TwoReads ==
  ASSUME NEW a, NEW b, Encoded(a), Encoded(b), a.ok, NEW p \in Nat, data \in Seq(Byte),
         NEW r, NEW s, NEW x, NEW y,
         Reads(a, r, p, x),
         r = Got(x, p + Len(a.bytes)) => Reads(b, s, p + Len(a.bytes), y)
  PROVE  Holds(p, Then(a, b).bytes) =>
           /\ r = Got(x, p + Len(a.bytes))
           /\ s = Got(y, p + Len(Then(a, b).bytes))
BY ThenEncoded, Zenon DEF Reads

(* The bytes break off in the second call, or in the first. *)
LEMMA TwoReadsBreak ==
  ASSUME NEW a, NEW b, Encoded(a), Encoded(b), a.ok, NEW p \in Nat, data \in Seq(Byte),
         NEW r, NEW x, Reads(a, r, p, x), Breaks(p, Then(a, b).bytes)
  PROVE  \/ Breaks(p, a.bytes)
         \/ r = Got(x, p + Len(a.bytes)) /\ Breaks(p + Len(a.bytes), b.bytes)
BY ThenEncoded, Zenon DEF Reads

(* The fields of a success. *)
LEMMA GotIt ==
  ASSUME NEW v, NEW q
  PROVE  Got(v, q).ok /\ Got(v, q).value = v /\ Got(v, q).to = q
BY DEF Got

(* A localized text is read as it was encoded, but for empty parts, which  *)
(* are null.                                                               *)
LEMMA LocalizedTextCodec ==
  ASSUME NEW t, IsField("QOpcUaLocalizedText", t), NEW p \in Nat, data \in Seq(Byte)
  PROVE  /\ Encoded(EncodeLocalizedText(t)) /\ EncodeLocalizedText(t).ok
         /\ Len(EncodeLocalizedText(t).bytes) > 0
         /\ Reads(EncodeLocalizedText(t), DecodeLocalizedText(p), p,
              <<Visible(t[1]), Visible(t[2])>>)
         /\ LengthOf(t[1]) = 0 /\ LengthOf(t[2]) = 0
            => Refuses(EncodeLocalizedText(t), DecodeLocalizedText(p), p)
<1> DEFINE f == EncodeNumber("quint8", Flags(t))
           a == EncodeOptional(t[1])
           b == EncodeOptional(t[2])
           ab == Then(a, b)
           e == EncodeLocalizedText(t)
           m == DecodeNumber("quint8", p)
           l == DecodeOptional(m.value, 1, m.to)
           s == DecodeOptional(m.value, 2, l.to)
           d == DecodeLocalizedText(p)
<1>1. e = Then(f, ab)
  BY Zenon DEF EncodeLocalizedText, Flags, EncodeOptional
<1>2. IsByteString(t[1]) /\ IsByteString(t[2])
  BY DEF IsField, sizeof
<1>3. Encoded(f) /\ f.ok /\ Len(f.bytes) = 1 /\ Reads(f, m, p, Flags(t)) /\ Refuses(f, m, p)
  BY NumberTypes, FlagsAreRead, NumberCodec
<1>4. /\ ~m.ok => d = m
      /\ m.ok /\ l.ok /\ s.ok => d = Got(<<l.value, s.value>>, s.to)
  BY TextDecoded
<1>5. l = DecodeOptional(m.value, 1, m.to) /\ s = DecodeOptional(m.value, 2, l.to)
  OBVIOUS
<1>6. \A q \in Nat : Reads(a, DecodeOptional(Flags(t), 1, q), q, Visible(t[1]))
  BY <1>2, FlagsAreRead, OptionalCodec, Zenon
<1>7. \A q \in Nat : Reads(b, DecodeOptional(Flags(t), 2, q), q, Visible(t[2]))
  BY <1>2, FlagsAreRead, OptionalCodec, Zenon
<1> HIDE DEF f, m, l, s, d
<1>8. Encoded(a) /\ a.ok /\ Encoded(b) /\ b.ok
  <2>1. HasFlag(Flags(t), 1) <=> LengthOf(t[1]) # 0
    BY FlagsAreRead
  <2>2. HasFlag(Flags(t), 2) <=> LengthOf(t[2]) # 0
    BY FlagsAreRead
  <2> QED
    BY <1>2, <2>1, <2>2, OptionalCodec, Zenon
<1> HIDE DEF a, b
<1>9. m = Got(Flags(t), p + Len(f.bytes)) => Reads(a, l, p + Len(f.bytes), Visible(t[1]))
  <2> SUFFICES ASSUME m = Got(Flags(t), p + Len(f.bytes))
               PROVE  Reads(a, l, p + Len(f.bytes), Visible(t[1]))
    OBVIOUS
  <2>1. m.value = Flags(t) /\ m.to = p + Len(f.bytes)
    BY GotIt
  <2>2. p + Len(f.bytes) \in Nat
    BY <1>3
  <2> QED
    BY <1>5, <1>6, <2>1, <2>2, Zenon
<1>10. m = Got(Flags(t), p + Len(f.bytes))
         /\ l = Got(Visible(t[1]), (p + Len(f.bytes)) + Len(a.bytes))
      => Reads(b, s, (p + Len(f.bytes)) + Len(a.bytes), Visible(t[2]))
  <2> SUFFICES ASSUME m = Got(Flags(t), p + Len(f.bytes)),
                      l = Got(Visible(t[1]), (p + Len(f.bytes)) + Len(a.bytes))
               PROVE  Reads(b, s, (p + Len(f.bytes)) + Len(a.bytes), Visible(t[2]))
    OBVIOUS
  <2>1. m.value = Flags(t) /\ l.to = (p + Len(f.bytes)) + Len(a.bytes)
    BY GotIt, SMTT(30), ZenonT(60)
  <2>2. (p + Len(f.bytes)) + Len(a.bytes) \in Nat
    <3>1. Len(a.bytes) \in Nat
      BY <1>8 DEF Encoded
    <3>2. p + Len(f.bytes) \in Nat
      BY <1>3
    <3>3. \A x \in Nat, y \in Nat : x + y \in Nat
      OBVIOUS
    <3> QED
      BY <3>1, <3>2, <3>3, Zenon
  <2> QED
    BY <1>5, <1>7, <2>1, <2>2, Zenon
<1>11. Encoded(ab) /\ ab.ok
  BY <1>8, ThenEncoded
<1>12. p + Len(f.bytes) \in Nat
  BY <1>3
<1>13. /\ Encoded(Then(f, ab)) /\ Then(f, ab).ok
       /\ Len(Then(f, ab).bytes) = Len(f.bytes) + Len(ab.bytes) /\ Len(ab.bytes) \in Nat
       /\ p + Len(Then(f, ab).bytes) = (p + Len(f.bytes)) + Len(ab.bytes)
       /\ Holds(p, Then(f, ab).bytes) => Holds(p, f.bytes) /\ Holds(p + Len(f.bytes), ab.bytes)
  BY <1>3, <1>11, ThenEncoded, SMTT(30), ZenonT(60)
<1>14. ASSUME Holds(p, Then(f, ab).bytes)
       PROVE  d = Got(<<Visible(t[1]), Visible(t[2])>>, p + Len(Then(f, ab).bytes))
  <2>1. m = Got(Flags(t), p + Len(f.bytes)) /\ Holds(p + Len(f.bytes), ab.bytes)
    BY <1>3, <1>13, <1>14, Zenon DEF Reads
  <2>2. /\ l = Got(Visible(t[1]), (p + Len(f.bytes)) + Len(a.bytes))
        /\ s = Got(Visible(t[2]), (p + Len(f.bytes)) + Len(ab.bytes))
    BY <1>8, <1>9, <1>10, <1>12, <2>1, TwoReads, Zenon
  <2>3. m.ok /\ l.ok /\ s.ok
    BY <2>1, <2>2, GotIt, Zenon
  <2>4. l.value = Visible(t[1]) /\ s.value = Visible(t[2])
        /\ s.to = (p + Len(f.bytes)) + Len(ab.bytes)
    BY <2>2, GotIt, ZenonT(60)
  <2>5. d = Got(<<l.value, s.value>>, s.to)
    BY <1>4, <2>3, Zenon
  <2> QED
    BY <1>13, <2>4, <2>5, Zenon
<1>15. ASSUME LengthOf(t[1]) = 0, LengthOf(t[2]) = 0, Breaks(p, Then(f, ab).bytes)
       PROVE  ~d.ok
  <2>1. ab.bytes = <<>>
    <3>1. a = Good(<<>>) /\ b = Good(<<>>)
      BY <1>15, Zenon DEF a, b, EncodeOptional
    <3> QED
      BY <3>1, NothingEncoded DEF Then, Good
  <2>2. ~Breaks(p + Len(f.bytes), ab.bytes)
    BY <1>12, <2>1, NothingEncoded, Zenon
  <2>3. Breaks(p, f.bytes)
    BY <1>3, <1>11, <1>15, <2>2, ThenEncoded, Zenon
  <2> QED
    BY <1>3, <1>4, <2>3, Zenon DEF Refuses
<1>16. Len(Then(f, ab).bytes) > 0
  BY <1>3, <1>13
<1> QED
  BY <1>1, <1>13, <1>14, <1>15, <1>16, Zenon DEF Reads, Refuses, d

(* A localized text is read inside of the buffer. *)
LEMMA LocalizedTextBounded ==
  ASSUME NEW p \in Nat, p <= Len(data), data \in Seq(Byte)
  PROVE  Bounded(DecodeLocalizedText(p), p)
<1> DEFINE m == DecodeNumber("quint8", p)
           l == DecodeOptional(m.value, 1, m.to)
           s == DecodeOptional(m.value, 2, l.to)
           d == DecodeLocalizedText(p)
<1>1. Bounded(m, p)
  BY NumberTypes, NumberBounded
<1>2. m.to \in Nat /\ m.to <= Len(data) /\ \A next : Bounded(next, m.to) => Bounded(next, p)
  BY <1>1, BoundedInTurn, Zenon
<1>3. Bounded(l, m.to)
  BY <1>2, OptionalBounded, Zenon
<1>4. l.to \in Nat /\ l.to <= Len(data) /\ \A next : Bounded(next, l.to) => Bounded(next, m.to)
  BY <1>2, <1>3, BoundedInTurn, Zenon
<1>5. Bounded(s, l.to)
  BY <1>4, OptionalBounded, Zenon
<1>6. s.to \in l.to .. Len(data)
  BY <1>4, <1>5, BoundedInTurn, Zenon
<1>7. Bounded(Got(<<l.value, s.value>>, s.to), l.to)
  BY <1>4, <1>6, GotBounded, Zenon
<1>8. /\ ~m.ok => d = m
      /\ m.ok /\ ~l.ok => d = l
      /\ m.ok /\ l.ok /\ ~s.ok => d = s
      /\ m.ok /\ l.ok /\ s.ok => d = Got(<<l.value, s.value>>, s.to)
  BY TextDecoded
<1> QED
  BY <1>1, <1>2, <1>3, <1>4, <1>5, <1>7, <1>8, Zenon

-----------------------------------------------------------------------------
(* Node ids.                                                               *)

(* The six forms of a node id that is encoded, and what each has room for. *)
LEMMA FormOfNodeId ==
  ASSUME NEW n, IsNodeId(n), ~IsRefused(n)
  PROVE  /\ n = [ns |-> n.ns, type |-> n.type, id |-> n.id]
         /\ HasWidth("quint16", n.ns)
         /\ \/ EncodingType(n) = 0 /\ n.type = "i" /\ n.ns = 0 /\ HasWidth("quint8", n.id)
            \/ EncodingType(n) = 1 /\ n.type = "i" /\ HasWidth("quint8", n.ns)
               /\ HasWidth("quint16", n.id)
            \/ EncodingType(n) = 2 /\ n.type = "i" /\ HasWidth("quint32", n.id)
            \/ EncodingType(n) = 3 /\ n.type = "s" /\ IsByteString(n.id)
            \/ EncodingType(n) = 4 /\ n.type = "g" /\ IsUuid(n.id)
            \/ EncodingType(n) = 5 /\ n.type = "b" /\ IsByteString(n.id)
<1>1. n # BadId
  BY DEF IsRefused
<1>2. /\ n = [ns |-> n.ns, type |-> n.type, id |-> n.id]
      /\ HasWidth("quint16", n.ns)
      /\ \/ n.type = "i" /\ HasWidth("quint32", n.id)
         \/ n.type = "g" /\ IsUuid(n.id)
         \/ n.type \in {"s", "b"} /\ IsByteString(n.id)
  BY <1>1, Zenon DEF IsNodeId
<1> DEFINE t == EncodingType(n)
<1>3. CASE n.type = "g" /\ IsUuid(n.id)
  <2>1. t = 4
    BY <1>3 DEF EncodingType
  <2> QED
    BY <1>2, <1>3, <2>1
<1>4. CASE n.type = "s" /\ IsByteString(n.id)
  <2>1. t = 3
    BY <1>4 DEF EncodingType
  <2> QED
    BY <1>2, <1>4, <2>1
<1>5. CASE n.type = "b" /\ IsByteString(n.id)
  <2>1. t = 5
    BY <1>5 DEF EncodingType
  <2> QED
    BY <1>2, <1>5, <2>1
<1>6. CASE n.type = "i" /\ HasWidth("quint32", n.id)
  <2>1. /\ n.id \in Nat /\ n.ns \in Nat
        /\ n.id <= 255 => HasWidth("quint8", n.id)
        /\ n.id <= 65535 => HasWidth("quint16", n.id)
        /\ n.ns <= 255 => HasWidth("quint8", n.ns)
    <3>1. n.id \in Nat
      BY <1>6, Widths
    <3>2. n.ns \in Nat
      BY <1>2, Widths
    <3> QED
      BY <3>1, <3>2, Widths
  <2>2. t = CASE n.id <= 255 /\ n.ns = 0                                       -> 0
              [] n.id <= 65535 /\ n.ns <= 255 /\ ~(n.id <= 255 /\ n.ns = 0)  -> 1
              [] ~(n.id <= 65535 /\ n.ns <= 255)                               -> 2
    BY <1>6, <2>1 DEF EncodingType
  <2>3. CASE n.id <= 255 /\ n.ns = 0
    BY <1>2, <1>6, <2>1, <2>2, <2>3
  <2>4. CASE n.id <= 65535 /\ n.ns <= 255 /\ ~(n.id <= 255 /\ n.ns = 0)
    <3>1. t = 1
      BY <2>2, <2>4
    <3> QED
      BY <1>2, <1>6, <2>1, <2>4, <3>1
  <2>5. CASE ~(n.id <= 65535 /\ n.ns <= 255)
    <3>1. t = 2
      BY <2>1, <2>2, <2>5
    <3> QED
      BY <1>2, <1>6, <2>1, <2>5, <3>1
  <2> QED
    BY <2>3, <2>4, <2>5
<1> QED
  BY <1>2, <1>3, <1>4, <1>5, <1>6

(* The reads of a node id, one after the other. *)
LEMMA NodeIdDecoded ==
  ASSUME NEW p
  PROVE  LET f == DecodeNumber("quint8", p)
             t == WithoutFlags(f.value)
             x == DecodeNamespaceIndex(t, f.to)
             i == DecodeIdentifier(t, x.to)
         IN /\ ~f.ok => DecodeNodeId(p) = f
            /\ f.ok /\ ~x.ok => DecodeNodeId(p) = x
            /\ f.ok /\ x.ok /\ ~i.ok => DecodeNodeId(p) = i
            /\ f.ok /\ x.ok /\ i.ok =>
                 DecodeNodeId(p) = Got([ns |-> x.value, type |-> IdentifierTypes[t + 1],
                                        id |-> i.value], i.to)
BY Zenon DEF DecodeNodeId, OnSuccess

(* A read of nothing for what was not encoded. *)
LEMMA NothingRead ==
  ASSUME NEW p \in Nat, data \in Seq(Byte), NEW v
  PROVE  Reads(Good(<<>>), Got(v, p), p, v) /\ Refuses(Good(<<>>), Got(v, p), p)
<1>1. Len(Good(<<>>).bytes) = 0 /\ p + 0 = p /\ ~Breaks(p, Good(<<>>).bytes)
  BY NothingEncoded
<1> QED
  BY <1>1, Zenon DEF Reads, Refuses

(* A namespace index is read as it was encoded, in each form that has one. *)
LEMMA NamespaceIndexCodec ==
  ASSUME NEW t \in 0 .. 5, NEW ns, HasWidth("quint16", ns), t = 0 => ns = 0,
         t = 1 => HasWidth("quint8", ns), NEW p \in Nat, data \in Seq(Byte)
  PROVE  /\ Encoded(EncodeNamespaceIndex(t, ns)) /\ EncodeNamespaceIndex(t, ns).ok
         /\ Reads(EncodeNamespaceIndex(t, ns), DecodeNamespaceIndex(t, p), p, ns)
         /\ Refuses(EncodeNamespaceIndex(t, ns), DecodeNamespaceIndex(t, p), p)
<1>1. CASE t = 0
  <2>1. EncodeNamespaceIndex(t, ns) = Good(<<>>) /\ DecodeNamespaceIndex(t, p) = Got(0, p)
    BY <1>1 DEF EncodeNamespaceIndex, DecodeNamespaceIndex
  <2> QED
    BY <1>1, <2>1, NothingEncoded, NothingRead, Zenon
<1>2. CASE t = 1
  <2>1. /\ EncodeNamespaceIndex(t, ns) = EncodeNumber("quint8", ns)
        /\ DecodeNamespaceIndex(t, p) = DecodeNumber("quint8", p)
    BY <1>2 DEF EncodeNamespaceIndex, DecodeNamespaceIndex
  <2>2. "quint8" \in Numbers
    BY NumberTypes
  <2> QED
    BY <1>2, <2>1, <2>2, NumberCodec, Zenon
<1>3. CASE t > 1
  <2>1. /\ EncodeNamespaceIndex(t, ns) = EncodeNumber("quint16", ns)
        /\ DecodeNamespaceIndex(t, p) = DecodeNumber("quint16", p)
    BY <1>3 DEF EncodeNamespaceIndex, DecodeNamespaceIndex
  <2>2. "quint16" \in Numbers
    BY NumberTypes
  <2> QED
    BY <2>1, <2>2, NumberCodec, Zenon
<1> QED
  BY <1>1, <1>2, <1>3

(* An identifier is read as it was encoded, in each form. *)
LEMMA IdentifierCodec ==
  ASSUME NEW n, IsNodeId(n), ~IsRefused(n), NEW p \in Nat, data \in Seq(Byte)
  PROVE  LET t == EncodingType(n)
             e == EncodeIdentifier(t, n.id)
             r == DecodeIdentifier(t, p)
         IN /\ Encoded(e) /\ e.ok
            /\ KeepsId(n) => Reads(e, r, p, n.id)
            /\ KeepsId(n) /\ n.type # "s" => Refuses(e, r, p)
<1> DEFINE t == EncodingType(n)
           e == EncodeIdentifier(t, n.id)
           r == DecodeIdentifier(t, p)
           Q == /\ Encoded(e) /\ e.ok
                /\ KeepsId(n) => Reads(e, r, p, n.id)
                /\ KeepsId(n) /\ n.type # "s" => Refuses(e, r, p)
<1>1. "quint8" \in Numbers /\ "quint16" \in Numbers /\ "quint32" \in Numbers
  BY NumberTypes
<1>2. \A k \in Numbers :
        HasWidth(k, n.id) =>
          LET d == EncodeNumber(k, n.id)
          IN /\ Encoded(d) /\ d.ok /\ Reads(d, DecodeNumber(k, p), p, n.id)
             /\ Refuses(d, DecodeNumber(k, p), p)
  BY NumberCodec, Zenon
<1>3. CASE t = 0 /\ HasWidth("quint8", n.id)
  <2>1. e = EncodeNumber("quint8", n.id) /\ r = DecodeNumber("quint8", p)
    BY <1>3 DEF EncodeIdentifier, DecodeIdentifier
  <2> QED
    BY <1>1, <1>2, <1>3, <2>1, Zenon
<1>4. CASE t = 1 /\ HasWidth("quint16", n.id)
  <2>1. e = EncodeNumber("quint16", n.id) /\ r = DecodeNumber("quint16", p)
    BY <1>4 DEF EncodeIdentifier, DecodeIdentifier
  <2> QED
    BY <1>1, <1>2, <1>4, <2>1, Zenon
<1>5. CASE t = 2 /\ HasWidth("quint32", n.id)
  <2>1. e = EncodeNumber("quint32", n.id) /\ r = DecodeNumber("quint32", p)
    BY <1>5 DEF EncodeIdentifier, DecodeIdentifier
  <2> QED
    BY <1>1, <1>2, <1>5, <2>1, Zenon
<1>6. CASE t = 3 /\ n.type = "s" /\ IsByteString(n.id)
  <2>1. e = EncodeQString(n.id) /\ r = DecodeQString(p)
    BY <1>6 DEF EncodeIdentifier, DecodeIdentifier
  <2> QED
    BY <1>6, <2>1, QStringCodec, Zenon
<1>7. CASE t = 4 /\ IsUuid(n.id)
  <2>1. e = EncodeQUuid(n.id) /\ r = DecodeQUuid(p)
    BY <1>7 DEF EncodeIdentifier, DecodeIdentifier
  <2> QED
    BY <1>7, <2>1, QUuidCodec, Zenon
<1>8. CASE t = 5 /\ n.type = "b" /\ IsByteString(n.id)
  <2>1. e = EncodeQByteArray(n.id) /\ r = DecodeQByteArray(p)
    BY <1>8 DEF EncodeIdentifier, DecodeIdentifier
  <2>2. ~IsRefused(n) /\ KeepsId(n) => LengthOf(n.id) # 1
    BY <1>8 DEF IsRefused, KeepsId, LengthOf
  <2> QED
    BY <1>8, <2>1, <2>2, QByteArrayCodec, Zenon
<1> HIDE DEF t, Q
<1>9. Q
  BY <1>3, <1>4, <1>5, <1>6, <1>7, <1>8, FormOfNodeId, Zenon DEF t, Q
<1> QED
  BY <1>9, Zenon DEF t, Q

(* What follows the first byte of a node id. *)
Rest(n) == Then(EncodeNamespaceIndex(EncodingType(n), n.ns), EncodeIdentifier(EncodingType(n),
  n.id))

(* A node id behind a first byte with the flags m. *)
Flagged(n, m) == Then(EncodeNumber("quint8", EncodingType(n) + m), Rest(n))

Masks == {0, 64, 128, 192}

(* The flags are removed from the first byte of a node id. *)
LEMMA FlaggedByte ==
  ASSUME NEW t \in 0 .. 5, NEW m \in Masks
  PROVE  HasWidth("quint8", t + m) /\ WithoutFlags(t + m) = t
<1>1. t + m \in Int /\ 0 <= t + m /\ t + m <= 255
  BY DEF Masks
<1>2. HasWidth("quint8", t + m)
  BY <1>1, Widths
<1>3. (t + m) % 64 = t
  BY DEF Masks
<1> QED
  BY <1>2, <1>3, Zenon DEF WithoutFlags

(* Both flags are read from the first byte. *)
LEMMA FlagsOfByte ==
  ASSUME NEW t \in 0 .. 5, NEW m \in Masks
  PROVE  /\ HasFlag(t + m, UriFlag) <=> m \in {128, 192}
         /\ HasFlag(t + m, ServerFlag) <=> m \in {64, 192}
<1>1. m \in {0, 64, 128, 192}
  BY DEF Masks
<1>2. CASE m = 0
  BY <1>1, <1>2 DEF HasFlag, UriFlag, ServerFlag
<1>3. CASE m = 64
  BY <1>1, <1>3 DEF HasFlag, UriFlag, ServerFlag
<1>4. CASE m = 128
  BY <1>1, <1>4 DEF HasFlag, UriFlag, ServerFlag
<1>5. CASE m = 192
  BY <1>1, <1>5 DEF HasFlag, UriFlag, ServerFlag
<1> QED
  BY <1>1, <1>2, <1>3, <1>4, <1>5

(* The form of a node id tells the type of its identifier. *)
LEMMA TypesOfIdentifiers ==
  ASSUME NEW n, IsNodeId(n), ~IsRefused(n)
  PROVE  EncodingType(n) \in 0 .. 5 /\ IdentifierTypes[EncodingType(n) + 1] = n.type
BY FormOfNodeId DEF IdentifierTypes

(* What follows the first byte of a node id is read as it was encoded. *)
LEMMA RestCodec ==
  ASSUME NEW n, IsNodeId(n), ~IsRefused(n), NEW p \in Nat, data \in Seq(Byte)
  PROVE  LET t == EncodingType(n)
             x == DecodeNamespaceIndex(t, p)
             i == DecodeIdentifier(t, x.to)
         IN /\ Encoded(Rest(n)) /\ Rest(n).ok
            /\ KeepsId(n) /\ Holds(p, Rest(n).bytes) =>
                 /\ x.ok /\ x.value = n.ns
                 /\ i = Got(n.id, p + Len(Rest(n).bytes))
            /\ KeepsId(n) /\ n.type # "s" /\ Breaks(p, Rest(n).bytes) => ~x.ok \/ ~i.ok
<1> DEFINE t == EncodingType(n)
           a == EncodeNamespaceIndex(t, n.ns)
           b == EncodeIdentifier(t, n.id)
           x == DecodeNamespaceIndex(t, p)
           i == DecodeIdentifier(t, x.to)
           q == p + Len(a.bytes)
<1>1. t \in 0 .. 5 /\ HasWidth("quint16", n.ns) /\ (t = 0 => n.ns = 0)
      /\ (t = 1 => HasWidth("quint8", n.ns))
  BY FormOfNodeId
<1>2. Rest(n) = Then(a, b)
  BY DEF Rest
<1>3. i = DecodeIdentifier(t, x.to)
  OBVIOUS
<1> HIDE DEF i
<1>4. Encoded(a) /\ a.ok /\ Reads(a, x, p, n.ns) /\ Refuses(a, x, p)
  BY <1>1, NamespaceIndexCodec
<1>5. /\ Encoded(b) /\ b.ok
      /\ \A k \in Nat :
           /\ KeepsId(n) => Reads(b, DecodeIdentifier(t, k), k, n.id)
           /\ KeepsId(n) /\ n.type # "s" => Refuses(b, DecodeIdentifier(t, k), k)
  BY IdentifierCodec
<1> HIDE DEF t, a, b, x
<1>6. q \in Nat
  <2>1. Len(a.bytes) \in Nat
    BY <1>4 DEF Encoded
  <2> QED
    BY <2>1
<1> HIDE DEF q
<1>7. Encoded(Rest(n)) /\ Rest(n).ok
  BY <1>2, <1>4, <1>5, ThenEncoded, Zenon
<1>8. ASSUME KeepsId(n), Holds(p, Then(a, b).bytes)
      PROVE  x.ok /\ x.value = n.ns /\ i = Got(n.id, p + Len(Then(a, b).bytes))
  <2>1. x = Got(n.ns, q) => Reads(b, i, q, n.id)
    <3> SUFFICES ASSUME x = Got(n.ns, q) PROVE Reads(b, i, q, n.id)
      OBVIOUS
    <3>1. x.to = q
      BY GotIt, ZenonT(60)
    <3> QED
      BY <1>3, <1>5, <1>6, <1>8, <3>1, Zenon
  <2>2. x = Got(n.ns, q) /\ i = Got(n.id, p + Len(Then(a, b).bytes))
    BY <1>4, <1>5, <1>8, <2>1, TwoReads, Zenon DEF q
  <2> QED
    BY <2>2, GotIt, Zenon
<1>9. ASSUME KeepsId(n), n.type # "s", Breaks(p, Then(a, b).bytes)
      PROVE  ~x.ok \/ ~i.ok
  <2>1. CASE Breaks(p, a.bytes)
    BY <1>4, <2>1, Zenon DEF Refuses
  <2>2. CASE x = Got(n.ns, q) /\ Breaks(q, b.bytes)
    <3>1. x.to = q
      BY <2>2, GotIt, ZenonT(60)
    <3> QED
      BY <1>3, <1>5, <1>6, <1>9, <2>2, <3>1, Zenon DEF Refuses
  <2> QED
    BY <1>4, <1>5, <1>9, <2>1, <2>2, TwoReadsBreak, Zenon DEF q
<1> QED
  BY <1>2, <1>7, <1>8, <1>9, Zenon DEF t, x, i

(* A node id is read as it was encoded, whatever the flags in its first    *)
(* byte.                                                                   *)
LEMMA FlaggedCodec ==
  ASSUME NEW n, IsNodeId(n), ~IsRefused(n), NEW m \in Masks,
         NEW p \in Nat, data \in Seq(Byte)
  PROVE  LET e == Flagged(n, m)
         IN /\ Encoded(e) /\ e.ok /\ Len(e.bytes) > 0
            /\ KeepsId(n) => Reads(e, DecodeNodeId(p), p, n)
            /\ KeepsId(n) /\ n.type # "s" => Refuses(e, DecodeNodeId(p), p)
<1> DEFINE t == EncodingType(n)
           c == t + m
           a == EncodeNumber("quint8", c)
           b == Rest(n)
           e == Then(a, b)
           f == DecodeNumber("quint8", p)
           x == DecodeNamespaceIndex(WithoutFlags(f.value), f.to)
           i == DecodeIdentifier(WithoutFlags(f.value), x.to)
           d == DecodeNodeId(p)
           q == p + Len(a.bytes)
<1>1. t \in 0 .. 5 /\ IdentifierTypes[t + 1] = n.type
  BY TypesOfIdentifiers
<1>2. HasWidth("quint8", c) /\ WithoutFlags(c) = t
  BY <1>1, FlaggedByte, Zenon
<1>3. Flagged(n, m) = e
  BY DEF Flagged
<1> HIDE DEF c
<1>4. Encoded(a) /\ a.ok /\ Len(a.bytes) = 1 /\ Reads(a, f, p, c) /\ Refuses(a, f, p)
  BY <1>2, NumberTypes, NumberCodec
<1>5. /\ ~f.ok => d = f
      /\ f.ok /\ ~x.ok => d = x
      /\ f.ok /\ x.ok /\ ~i.ok => d = i
      /\ f.ok /\ x.ok /\ i.ok =>
           d = Got([ns |-> x.value, type |-> IdentifierTypes[WithoutFlags(f.value) + 1],
             id |-> i.value], i.to)
  BY NodeIdDecoded
<1>6. x = DecodeNamespaceIndex(WithoutFlags(f.value), f.to)
        /\ i = DecodeIdentifier(WithoutFlags(f.value), x.to)
  OBVIOUS
<1>7. q \in Nat
  BY <1>4
<1>8. n = [ns |-> n.ns, type |-> n.type, id |-> n.id]
  BY FormOfNodeId
<1> HIDE DEF a, b, f, x, i, d, q
<1>9. /\ Encoded(b) /\ b.ok
      /\ WithoutFlags(f.value) = t /\ f.to = q =>
           /\ KeepsId(n) /\ Holds(q, b.bytes) =>
                x.ok /\ x.value = n.ns /\ i = Got(n.id, q + Len(b.bytes))
           /\ KeepsId(n) /\ n.type # "s" /\ Breaks(q, b.bytes) => ~x.ok \/ ~i.ok
  BY <1>6, <1>7, RestCodec, Zenon DEF b
<1>10. Encoded(a) /\ a.ok
  BY <1>4
<1>11. Encoded(b) /\ b.ok
  BY <1>9
<1> HIDE DEF t
<1>12. /\ Encoded(e) /\ e.ok /\ Len(b.bytes) \in Nat
       /\ Len(e.bytes) = Len(a.bytes) + Len(b.bytes)
       /\ p + Len(e.bytes) = q + Len(b.bytes)
       /\ Holds(p, e.bytes) => Holds(p, a.bytes) /\ Holds(q, b.bytes)
       /\ Breaks(p, e.bytes) => Breaks(p, a.bytes) \/ (Holds(p, a.bytes) /\ Breaks(q, b.bytes))
  BY <1>10, <1>11, ThenEncoded, Zenon DEF q
<1>13. Len(e.bytes) > 0
  BY <1>4, <1>12
<1> HIDE DEF e
<1>14. Holds(p, a.bytes) => f.ok /\ WithoutFlags(f.value) = t /\ f.to = q
  <2> SUFFICES ASSUME Holds(p, a.bytes) PROVE f.ok /\ WithoutFlags(f.value) = t /\ f.to = q
    OBVIOUS
  <2>1. f = Got(c, q)
    BY <1>4, Zenon DEF Reads, q
  <2>2. f.ok /\ f.value = c /\ f.to = q
    BY <2>1, GotIt, ZenonT(60)
  <2> QED
    BY <1>2, <2>2, Zenon
<1>15. ASSUME KeepsId(n), Holds(p, e.bytes) PROVE d = Got(n, p + Len(e.bytes))
  <2>1. f.ok /\ WithoutFlags(f.value) = t /\ x.ok /\ x.value = n.ns
          /\ i = Got(n.id, q + Len(b.bytes))
    BY <1>9, <1>12, <1>14, <1>15, Zenon
  <2>2. i.ok /\ i.value = n.id /\ i.to = p + Len(e.bytes)
    <3>1. i = Got(n.id, p + Len(e.bytes))
      BY <1>12, <2>1, Zenon
    <3> QED
      BY <3>1, GotIt, ZenonT(60)
  <2>3. d = Got([ns |-> x.value, type |-> IdentifierTypes[WithoutFlags(f.value) + 1],
          id |-> i.value], i.to)
    BY <1>5, <2>1, <2>2, Zenon
  <2>4. IdentifierTypes[WithoutFlags(f.value) + 1] = n.type
    BY <1>1, <2>1, Zenon
  <2>5. d = Got([ns |-> n.ns, type |-> n.type, id |-> n.id], p + Len(e.bytes))
    BY <2>1, <2>2, <2>3, <2>4, Zenon
  <2> QED
    BY <1>8, <2>5, Zenon
<1>16. ASSUME KeepsId(n), n.type # "s", Breaks(p, e.bytes) PROVE ~d.ok
  <2>1. CASE Breaks(p, a.bytes)
    BY <1>4, <1>5, <2>1, Zenon DEF Refuses
  <2>2. CASE Holds(p, a.bytes) /\ Breaks(q, b.bytes)
    <3>1. f.ok /\ (~x.ok \/ ~i.ok)
      BY <1>9, <1>14, <1>16, <2>2, Zenon
    <3> QED
      BY <1>5, <3>1, Zenon
  <2> QED
    BY <1>12, <1>16, <2>1, <2>2, Zenon
<1> QED
  BY <1>3, <1>12, <1>13, <1>15, <1>16, Zenon DEF Reads, Refuses, d

(* A node id of its own has no flags, unless it is refused. *)
LEMMA NodeIdIsFlagged ==
  ASSUME NEW n, IsNodeId(n)
  PROVE  /\ IsRefused(n) => EncodeNodeId(n) = Bad(<<>>)
         /\ ~IsRefused(n) => EncodeNodeId(n) = Flagged(n, 0)
<1>1. CASE IsRefused(n)
  BY <1>1 DEF EncodeNodeId
<1>2. CASE ~IsRefused(n)
  <2>1. EncodingType(n) \in 0 .. 5
    BY <1>2, TypesOfIdentifiers, Zenon
  <2> DEFINE t == EncodingType(n)
  <2> HIDE DEF t
  <2>2. t + 0 = t
    BY <2>1 DEF t
  <2>3. EncodeNodeId(n) = Then(EncodeNumber("quint8", t), Rest(n))
    BY <1>2, Zenon DEF EncodeNodeId, Rest, t
  <2>4. Flagged(n, 0) = Then(EncodeNumber("quint8", t + 0), Rest(n))
    BY Zenon DEF Flagged, t
  <2> QED
    BY <1>2, <2>2, <2>3, <2>4, Zenon
<1> QED
  BY <1>1, <1>2

(* A call that fails and appends nothing. *)
LEMMA RefusedEncoded == Encoded(Bad(<<>>)) /\ ~Bad(<<>>).ok
BY DEF Encoded, Bad

(* A node id is read as it was encoded, and refused when it breaks off     *)
(* before its string.                                                      *)
LEMMA NodeIdCodec ==
  ASSUME NEW n, IsNodeId(n), NEW p \in Nat, data \in Seq(Byte)
  PROVE  LET e == EncodeNodeId(n)
         IN /\ Encoded(e) /\ (e.ok <=> ~IsRefused(n))
            /\ e.ok => /\ Len(e.bytes) > 0
                       /\ KeepsId(n) => Reads(e, DecodeNodeId(p), p, n)
                       /\ KeepsId(n) /\ n.type # "s" => Refuses(e, DecodeNodeId(p), p)
<1>1. CASE IsRefused(n)
  BY <1>1, NodeIdIsFlagged, RefusedEncoded, Zenon
<1>2. CASE ~IsRefused(n)
  <2>1. 0 \in Masks
    BY DEF Masks
  <2>2. EncodeNodeId(n) = Flagged(n, 0)
    BY <1>2, NodeIdIsFlagged, Zenon
  <2> QED
    BY <1>2, <2>1, <2>2, FlaggedCodec, Zenon
<1> QED
  BY <1>1, <1>2

(* Namespace index and identifier are read inside of the buffer, in any    *)
(* form.                                                                   *)
LEMMA IdentifierBounded ==
  ASSUME NEW t \in Nat, NEW p \in Nat, p <= Len(data), data \in Seq(Byte)
  PROVE  Bounded(DecodeNamespaceIndex(t, p), p) /\ Bounded(DecodeIdentifier(t, p), p)
<1>1. \A k \in {"quint8", "quint16", "quint32"} : Bounded(DecodeNumber(k, p), p)
  BY NumberTypes, NumberBounded
<1>2. Bounded(DecodeQString(p), p) /\ Bounded(DecodeQByteArray(p), p)
  BY StringBounded
<1>3. Bounded(DecodeQUuid(p), p)
  BY QUuidBounded
<1>4. Bounded(Got(0, p), p) /\ Bounded(Failed(p), p)
  <2>1. p \in p .. Len(data)
    OBVIOUS
  <2> QED
    BY <2>1, GotBounded, FailedBounded
<1>5. CASE t = 0
  BY <1>1, <1>4, <1>5 DEF DecodeNamespaceIndex, DecodeIdentifier
<1>6. CASE t = 1
  BY <1>1, <1>6 DEF DecodeNamespaceIndex, DecodeIdentifier
<1>7. CASE t = 2
  BY <1>1, <1>7 DEF DecodeNamespaceIndex, DecodeIdentifier
<1>8. CASE t = 3
  BY <1>1, <1>2, <1>8 DEF DecodeNamespaceIndex, DecodeIdentifier
<1>9. CASE t = 4
  BY <1>1, <1>3, <1>9 DEF DecodeNamespaceIndex, DecodeIdentifier
<1>10. CASE t = 5
  BY <1>1, <1>2, <1>10 DEF DecodeNamespaceIndex, DecodeIdentifier
<1>11. CASE t > 5
  BY <1>1, <1>4, <1>11 DEF DecodeNamespaceIndex, DecodeIdentifier
<1>12. t = 0 \/ t = 1 \/ t = 2 \/ t = 3 \/ t = 4 \/ t = 5 \/ t > 5
  OBVIOUS
<1> QED
  BY <1>5, <1>6, <1>7, <1>8, <1>9, <1>10, <1>11, <1>12, Zenon

(* A node id is read inside of the buffer. *)
LEMMA NodeIdBounded ==
  ASSUME NEW p \in Nat, p <= Len(data), data \in Seq(Byte)
  PROVE  Bounded(DecodeNodeId(p), p)
<1> DEFINE f == DecodeNumber("quint8", p)
           t == WithoutFlags(f.value)
           x == DecodeNamespaceIndex(t, f.to)
           i == DecodeIdentifier(t, x.to)
           v == [ns |-> x.value, type |-> IdentifierTypes[t + 1], id |-> i.value]
           d == DecodeNodeId(p)
<1>1. /\ ~f.ok => d = f
      /\ f.ok /\ ~x.ok => d = x
      /\ f.ok /\ x.ok /\ ~i.ok => d = i
      /\ f.ok /\ x.ok /\ i.ok => d = Got(v, i.to)
  BY NodeIdDecoded
<1>2. Bounded(f, p) /\ (f.ok => f.value \in Int)
  BY NumberTypes, NumberBounded
<1>3. x = DecodeNamespaceIndex(t, f.to) /\ i = DecodeIdentifier(t, x.to)
  OBVIOUS
<1> HIDE DEF f, x, i, v, d
<1>4. f.ok => t \in Nat
  BY <1>2 DEF WithoutFlags
<1> HIDE DEF t
<1>5. CASE ~f.ok
  BY <1>1, <1>2, <1>5, Zenon DEF d
<1>6. CASE f.ok
  <2>1. f.to \in Nat /\ f.to <= Len(data) /\ \A next : Bounded(next, f.to) => Bounded(next, p)
    BY <1>2, BoundedInTurn, Zenon
  <2>2. Bounded(x, f.to)
    BY <1>3, <1>4, <1>6, <2>1, IdentifierBounded, Zenon
  <2>3. x.to \in Nat /\ x.to <= Len(data) /\ \A next : Bounded(next, x.to) => Bounded(next, f.to)
    BY <2>1, <2>2, BoundedInTurn, Zenon
  <2>4. Bounded(i, x.to)
    BY <1>3, <1>4, <1>6, <2>3, IdentifierBounded, Zenon
  <2>5. Bounded(Got(v, i.to), x.to)
    BY <2>3, <2>4, BoundedInTurn, GotBounded, Zenon
  <2> QED
    BY <1>1, <1>6, <2>1, <2>2, <2>3, <2>4, <2>5, Zenon DEF d
<1> QED
  BY <1>5, <1>6

(* A quint8 is encoded as itself. *)
LEMMA OneByte ==
  ASSUME NEW c \in Nat, HasWidth("quint8", c)
  PROVE  LET b == EncodeNumber("quint8", c).bytes
         IN b \in Seq(Byte) /\ Len(b) = 1 /\ b[1] = c
<1>1. c <= 255
  BY Widths
<1>2. qToLittleEndian(c, 1) \in Seq(Byte) /\ Len(qToLittleEndian(c, 1)) = 1
      /\ qToLittleEndian(c, 1)[1] = Shifted(c, 1 - 1) % 256
  <2>1. 1 \in 1 .. 8 /\ c \in Int /\ 1 \in 1 .. 1
    OBVIOUS
  <2>2. /\ qToLittleEndian(c, 1) \in Seq(Byte)
        /\ Len(qToLittleEndian(c, 1)) = 1
        /\ \A i \in 1 .. 1 : qToLittleEndian(c, 1)[i] = Shifted(c, i - 1) % 256
    BY <2>1, LittleEndianBytes
  <2> QED
    BY <2>1, <2>2
<1>3. Shifted(c, 1 - 1) = c
  <2>1. 1 - 1 = 0 /\ c \in Int
    OBVIOUS
  <2> QED
    BY <2>1, ShiftedStep, Zenon
<1>4. c % 256 = c
  BY <1>1
<1>5. EncodeNumber("quint8", c).bytes = qToLittleEndian(c, 1)
  BY NumberTypes DEF EncodeNumber, Good
<1> QED
  BY <1>2, <1>3, <1>4, <1>5, Zenon

(* The bytes of two calls. *)
LEMMA ThenBytes ==
  ASSUME NEW a, NEW b, a.ok
  PROVE  Then(a, b).bytes = a.bytes \o b.bytes
BY DEF Then

(* The bytes b behind the first one. *)
Behind(x, b) ==
  /\ x \in Seq(Byte) /\ Len(x) = 1 + Len(b) /\ Len(b) \in Nat /\ DOMAIN x = 1 .. 1 + Len(b)
  /\ \A k \in 1 .. Len(b) : x[1 + k] = b[k]

(* What follows a first byte. *)
LEMMA BehindFirst ==
  ASSUME NEW a, NEW b, NEW x, a \in Seq(Byte) /\ Len(a) = 1 /\ b \in Seq(Byte) /\ x = a \o b
  PROVE  Behind(x, b) /\ x[1] = a[1]
<1> DEFINE c == a \o b
<1>1. /\ c \in Seq(Byte) /\ Len(c) = Len(a) + Len(b) /\ Len(b) \in Nat
      /\ \A k \in 1 .. Len(a) : c[k] = a[k]
      /\ \A k \in 1 .. Len(b) : c[Len(a) + k] = b[k]
  BY ConcatBytes
<1> HIDE DEF c
<1>2. DOMAIN c = 1 .. 1 + Len(b) /\ Len(c) = 1 + Len(b)
  BY <1>1
<1>3. c[1] = a[1] /\ \A k \in 1 .. Len(b) : c[1 + k] = b[k]
  BY <1>1
<1>4. x = c
  BY DEF c
<1>5. Behind(c, b)
  BY <1>1, <1>2, <1>3 DEF Behind
<1> QED
  BY <1>3, <1>4, <1>5, Zenon

(* The flags are added to the first byte of a node id, and to no other. *)
LEMMA FlaggedBytes ==
  ASSUME NEW n, IsNodeId(n), ~IsRefused(n), NEW m \in Masks, data \in Seq(Byte)
  PROVE  /\ Flagged(n, m).bytes = [EncodeNodeId(n).bytes EXCEPT ![1] = @ + m]
         /\ Len(Flagged(n, m).bytes) \in Nat
         /\ Flagged(n, m).bytes[1] = EncodingType(n) + m
<1> DEFINE t == EncodingType(n)
           R == Rest(n).bytes
           a == EncodeNumber("quint8", t).bytes
           b == EncodeNumber("quint8", t + m).bytes
           x == EncodeNodeId(n).bytes
           y == Flagged(n, m).bytes
<1>1. t \in 0 .. 5 /\ 0 \in Masks /\ t \in Nat
  BY TypesOfIdentifiers DEF Masks
<1>2. HasWidth("quint8", t) /\ HasWidth("quint8", t + m) /\ t + m \in Nat /\ m \in Int
  <2>1. HasWidth("quint8", t + 0) /\ HasWidth("quint8", t + m)
    BY <1>1, FlaggedByte, Zenon
  <2>2. t + 0 = t /\ t + m \in Nat /\ m \in Int
    BY <1>1 DEF Masks
  <2> QED
    BY <2>1, <2>2, Zenon
<1>3. a \in Seq(Byte) /\ Len(a) = 1 /\ a[1] = t /\ b \in Seq(Byte) /\ Len(b) = 1 /\ b[1] = t + m
  BY <1>1, <1>2, OneByte
<1>4. R \in Seq(Byte)
  <2>1. 0 \in Nat
    OBVIOUS
  <2> QED
    BY <2>1, RestCodec, Zenon DEF Encoded
<1>5. EncodeNumber("quint8", t).ok /\ EncodeNumber("quint8", t + m).ok
  BY DEF EncodeNumber, Good
<1>6. y = b \o R
  BY <1>5, ThenBytes, Zenon DEF Flagged
<1>7. x = a \o R
  <2>1. EncodeNodeId(n) = Then(EncodeNumber("quint8", t), Rest(n))
    BY Zenon DEF EncodeNodeId, Rest
  <2> QED
    BY <1>5, <2>1, ThenBytes, Zenon
<1> HIDE DEF a, b, R, x, y, t
<1>8. Behind(x, R) /\ x[1] = t
  <2>1. a \in Seq(Byte) /\ Len(a) = 1 /\ R \in Seq(Byte) /\ x = a \o R
    BY <1>3, <1>4, <1>6, <1>7, Zenon
  <2>2. Behind(x, R) /\ x[1] = a[1]
    BY <2>1, BehindFirst, Zenon
  <2>3. a[1] = t
    BY <1>3, Zenon
  <2> QED
    BY <2>2, <2>3, Zenon
<1>9. Behind(y, R) /\ y[1] = t + m
  <2>1. b \in Seq(Byte) /\ Len(b) = 1 /\ R \in Seq(Byte) /\ y = b \o R
    BY <1>3, <1>4, <1>6, <1>7, Zenon
  <2>2. Behind(y, R) /\ y[1] = b[1]
    BY <2>1, BehindFirst, Zenon
  <2>3. b[1] = t + m
    BY <1>3, Zenon
  <2> QED
    BY <2>2, <2>3, Zenon
<1>10. y = [x EXCEPT ![1] = @ + m]
  <2>1. Len(R) \in Nat
    BY <1>4
  <2>2. \A k \in 1 .. Len(x) : y[k] = IF k = 1 THEN x[1] + m ELSE x[k]
    <3> TAKE k \in 1 .. Len(x)
    <3>1. CASE k = 1
      BY <1>8, <1>9, <3>1 DEF Behind
    <3>2. CASE k # 1
      <4>1. k - 1 \in 1 .. Len(R) /\ 1 + (k - 1) = k
        BY <1>8, <2>1, <3>2 DEF Behind
      <4> QED
        BY <1>8, <1>9, <3>2, <4>1 DEF Behind
    <3> QED
      BY <3>1, <3>2
  <2>3. y = [k \in 1 .. Len(x) |-> y[k]]
    BY <1>8, <1>9 DEF Behind
  <2>4. [x EXCEPT ![1] = @ + m] = [k \in 1 .. Len(x) |-> IF k = 1 THEN x[1] + m ELSE x[k]]
    <3>1. [x EXCEPT ![1] = @ + m] = [k \in DOMAIN x |-> IF k = 1 THEN x[1] + m ELSE x[k]]
      OBVIOUS
    <3> QED
      BY <1>8, <3>1 DEF Behind
  <2> QED
    BY <2>2, <2>3, <2>4
<1> QED
  <2>1. Len(y) \in Nat
    BY <1>9 DEF Behind
  <2> QED
    BY <1>9, <1>10, <2>1, Zenon DEF x, y, t

-----------------------------------------------------------------------------
(* Expanded node ids.                                                      *)

(* A server index is read as it was encoded, as 0 when it was left out. *)
LEMMA ServerIndexCodec ==
  ASSUME NEW s, HasWidth("quint32", s), NEW flags, HasFlag(flags, ServerFlag) <=> s # 0,
         NEW p \in Nat, data \in Seq(Byte)
  PROVE  /\ Encoded(EncodeServerIndex(s)) /\ EncodeServerIndex(s).ok
         /\ Reads(EncodeServerIndex(s), DecodeServerIndex(flags, p), p, s)
         /\ Refuses(EncodeServerIndex(s), DecodeServerIndex(flags, p), p)
<1>1. CASE s # 0
  <2>1. EncodeServerIndex(s) = EncodeNumber("quint32", s)
    BY <1>1, Zenon DEF EncodeServerIndex
  <2>2. DecodeServerIndex(flags, p) = DecodeNumber("quint32", p)
    BY <1>1, Zenon DEF DecodeServerIndex
  <2>3. "quint32" \in Numbers
    BY NumberTypes
  <2> QED
    BY <2>1, <2>2, <2>3, NumberCodec, Zenon
<1>2. CASE s = 0
  <2>1. EncodeServerIndex(s) = Good(<<>>)
    BY <1>2, Zenon DEF EncodeServerIndex
  <2>2. DecodeServerIndex(flags, p) = Got(0, p)
    BY <1>2, Zenon DEF DecodeServerIndex
  <2> QED
    BY <1>2, <2>1, <2>2, NothingEncoded, NothingRead, Zenon
<1> QED
  BY <1>1, <1>2

(* A server index is read inside of the buffer. *)
LEMMA ServerIndexBounded ==
  ASSUME NEW flags, NEW p \in Nat, p <= Len(data), data \in Seq(Byte)
  PROVE  Bounded(DecodeServerIndex(flags, p), p)
<1>1. CASE HasFlag(flags, ServerFlag)
  <2>1. DecodeServerIndex(flags, p) = DecodeNumber("quint32", p)
    BY <1>1, Zenon DEF DecodeServerIndex
  <2>2. "quint32" \in Numbers
    BY NumberTypes
  <2> QED
    BY <2>1, <2>2, NumberBounded, Zenon
<1>2. CASE ~HasFlag(flags, ServerFlag)
  <2>1. DecodeServerIndex(flags, p) = Got(0, p)
    BY <1>2, Zenon DEF DecodeServerIndex
  <2>2. p \in p .. Len(data)
    OBVIOUS
  <2> QED
    BY <2>1, <2>2, GotBounded, Zenon
<1> QED
  BY <1>1, <1>2

(* The reads of an expanded node id, one after the other. *)
LEMMA ExpandedDecoded ==
  ASSUME NEW p, enoughData(p, 1)
  PROVE  LET g == data[p + 1]
             i == DecodeNodeId(p)
             u == DecodeOptional(g, UriFlag, i.to)
             s == DecodeServerIndex(g, u.to)
             d == DecodeExpandedNodeId(p)
         IN /\ ~i.ok => d = i
            /\ i.ok /\ ~u.ok => d = u
            /\ i.ok /\ u.ok /\ ~s.ok => d = s
            /\ i.ok /\ u.ok /\ s.ok =>
                 d = Got([nodeId |-> i.value, namespaceUri |-> u.value, serverIndex |-> s.value],
                   s.to)
BY Zenon DEF DecodeExpandedNodeId, OnSuccess

(* An expanded node id is read inside of the buffer. *)
LEMMA ExpandedBounded ==
  ASSUME NEW p \in Nat, p <= Len(data), data \in Seq(Byte)
  PROVE  Bounded(DecodeExpandedNodeId(p), p)
<1> DEFINE g == data[p + 1]
           i == DecodeNodeId(p)
           u == DecodeOptional(g, UriFlag, i.to)
           s == DecodeServerIndex(g, u.to)
           v == [nodeId |-> i.value, namespaceUri |-> u.value, serverIndex |-> s.value]
           d == DecodeExpandedNodeId(p)
<1>1. CASE ~enoughData(p, 1)
  <2>1. DecodeExpandedNodeId(p) = Failed(p)
    BY <1>1, Zenon DEF DecodeExpandedNodeId
  <2> QED
    BY <2>1, FailedBounded, Zenon
<1>2. CASE enoughData(p, 1)
  <2>1. /\ ~i.ok => d = i
        /\ i.ok /\ ~u.ok => d = u
        /\ i.ok /\ u.ok /\ ~s.ok => d = s
        /\ i.ok /\ u.ok /\ s.ok => d = Got(v, s.to)
    BY <1>2, ExpandedDecoded
  <2>2. Bounded(i, p)
    BY NodeIdBounded
  <2>3. i.to \in Nat /\ i.to <= Len(data) /\ \A next : Bounded(next, i.to) => Bounded(next, p)
    BY <2>2, BoundedInTurn, Zenon
  <2>4. Bounded(u, i.to)
    BY <2>3, OptionalBounded, Zenon
  <2>5. u.to \in Nat /\ u.to <= Len(data) /\ \A next : Bounded(next, u.to) => Bounded(next, i.to)
    BY <2>3, <2>4, BoundedInTurn, Zenon
  <2>6. Bounded(s, u.to)
    BY <2>5, ServerIndexBounded, Zenon
  <2>7. Bounded(Got(v, s.to), u.to)
    BY <2>5, <2>6, BoundedInTurn, GotBounded, Zenon
  <2> HIDE DEF i, u, s, v
  <2> QED
    BY <2>1, <2>2, <2>3, <2>4, <2>5, <2>6, <2>7, Zenon
<1> QED
  BY <1>1, <1>2

(* The first byte of what is held, or breaks off behind it, is in the      *)
(* buffer.                                                                 *)
LEMMA FirstByte ==
  ASSUME NEW b \in Seq(Byte), Len(b) > 0, NEW p \in Nat, data \in Seq(Byte), enoughData(p, 1),
         Holds(p, b) \/ Breaks(p, b)
  PROVE  data[p + 1] = b[1]
<1>1. Len(data) - p >= 1 /\ Len(data) \in Nat /\ Len(b) \in Nat
  BY DEF enoughData
<1>2. CASE Holds(p, b)
  <2>1. 1 \in 1 .. Len(b)
    OBVIOUS
  <2> QED
    BY <1>2, <2>1 DEF Holds
<1>3. CASE Breaks(p, b)
  <2>1. 1 \in 1 .. Len(data) - p
    BY <1>1
  <2> QED
    BY <1>3, <2>1 DEF Breaks
<1> QED
  BY <1>2, <1>3

(* The first byte of two calls is that of the first. *)
LEMMA FirstOfTwo ==
  ASSUME NEW a, NEW b, Encoded(a), Encoded(b), a.ok, Len(a.bytes) > 0
  PROVE  Then(a, b).bytes[1] = a.bytes[1]
<1> DEFINE x == a.bytes
           y == b.bytes
<1>1. Then(a, b).bytes = x \o y
  BY ThenBytes
<1>2. x \in Seq(Byte) /\ y \in Seq(Byte) /\ Len(x) > 0
  BY DEF Encoded
<1> HIDE DEF x, y
<1>3. 1 \in 1 .. Len(x)
  BY <1>2
<1>4. (x \o y)[1] = x[1]
  BY <1>2, <1>3, ConcatBytes
<1> QED
  BY <1>1, <1>4, Zenon DEF x

MaskOf(x) ==
  (IF LengthOf(x.namespaceUri) # 0 THEN UriFlag ELSE 0) + (IF x.serverIndex # 0 THEN ServerFlag
    ELSE 0)

(* The first byte tells whether there is a namespace URI and a server      *)
(* index.                                                                  *)
LEMMA MaskFlags ==
  ASSUME NEW x, NEW t \in 0 .. 5
  PROVE  /\ MaskOf(x) \in Masks
         /\ HasFlag(t + MaskOf(x), UriFlag) <=> LengthOf(x.namespaceUri) # 0
         /\ HasFlag(t + MaskOf(x), ServerFlag) <=> x.serverIndex # 0
<1> DEFINE a == LengthOf(x.namespaceUri) # 0
           b == x.serverIndex # 0
           m == MaskOf(x)
<1>1. m = (IF a THEN 128 ELSE 0) + (IF b THEN 64 ELSE 0)
  BY DEF MaskOf, UriFlag, ServerFlag
<1> HIDE DEF a, b, m
<1>2. m \in Masks /\ (m \in {128, 192} <=> a) /\ (m \in {64, 192} <=> b)
  <2>1. CASE a /\ b
    BY <1>1, <2>1 DEF Masks
  <2>2. CASE a /\ ~b
    BY <1>1, <2>2 DEF Masks
  <2>3. CASE ~a /\ b
    BY <1>1, <2>3 DEF Masks
  <2>4. CASE ~a /\ ~b
    BY <1>1, <2>4 DEF Masks
  <2> QED
    BY <2>1, <2>2, <2>3, <2>4
<1>3. (HasFlag(t + m, UriFlag) <=> m \in {128, 192})
        /\ (HasFlag(t + m, ServerFlag) <=> m \in {64, 192})
  BY <1>2, FlagsOfByte
<1> QED
  BY <1>2, <1>3 DEF a, b, m

(* What follows the node id of an expanded one. *)
Beyond(x) == Then(EncodeOptional(x.namespaceUri), EncodeServerIndex(x.serverIndex))

(* Namespace URI and server index are read as they were encoded. *)
LEMMA BeyondCodec ==
  ASSUME NEW x, IsByteString(x.namespaceUri), HasWidth("quint32", x.serverIndex), NEW g,
         HasFlag(g, UriFlag) <=> LengthOf(x.namespaceUri) # 0,
         HasFlag(g, ServerFlag) <=> x.serverIndex # 0,
         NEW p \in Nat, data \in Seq(Byte)
  PROVE  LET u == DecodeOptional(g, UriFlag, p)
             s == DecodeServerIndex(g, u.to)
         IN /\ Encoded(Beyond(x)) /\ Beyond(x).ok
            /\ Holds(p, Beyond(x).bytes) =>
                 /\ u.ok /\ u.value = Visible(x.namespaceUri)
                 /\ s = Got(x.serverIndex, p + Len(Beyond(x).bytes))
            /\ LengthOf(x.namespaceUri) = 0 /\ Breaks(p, Beyond(x).bytes) => ~u.ok \/ ~s.ok
<1> DEFINE a == EncodeOptional(x.namespaceUri)
           b == EncodeServerIndex(x.serverIndex)
           u == DecodeOptional(g, UriFlag, p)
           s == DecodeServerIndex(g, u.to)
           q == p + Len(a.bytes)
<1>1. Beyond(x) = Then(a, b)
  BY DEF Beyond
<1>2. /\ Encoded(a) /\ a.ok /\ Reads(a, u, p, Visible(x.namespaceUri))
      /\ LengthOf(x.namespaceUri) = 0 => a = Good(<<>>)
  BY OptionalCodec, Zenon
<1>3. /\ Encoded(b) /\ b.ok
      /\ \A k \in Nat : /\ Reads(b, DecodeServerIndex(g, k), k, x.serverIndex)
                        /\ Refuses(b, DecodeServerIndex(g, k), k)
  <2>1. 0 \in Nat
    OBVIOUS
  <2> QED
    BY <2>1, ServerIndexCodec, Zenon
<1>4. s = DecodeServerIndex(g, u.to)
  OBVIOUS
<1> HIDE DEF a, b, u, s
<1>5. q \in Nat
  <2>1. Len(a.bytes) \in Nat
    BY <1>2 DEF Encoded
  <2> QED
    BY <2>1
<1> HIDE DEF q
<1>6. Encoded(Beyond(x)) /\ Beyond(x).ok
  BY <1>1, <1>2, <1>3, ThenEncoded, ZenonT(60)
<1>7. ASSUME Holds(p, Then(a, b).bytes)
      PROVE  u.ok /\ u.value = Visible(x.namespaceUri)
             /\ s = Got(x.serverIndex, p + Len(Then(a, b).bytes))
  <2>1. u = Got(Visible(x.namespaceUri), q) => Reads(b, s, q, x.serverIndex)
    <3> SUFFICES ASSUME u = Got(Visible(x.namespaceUri), q) PROVE Reads(b, s, q, x.serverIndex)
      OBVIOUS
    <3>1. u.to = q
      BY GotIt, ZenonT(60)
    <3> QED
      BY <1>3, <1>4, <1>5, <3>1, Zenon
  <2>2. u = Got(Visible(x.namespaceUri), q) /\ s = Got(x.serverIndex, p + Len(Then(a, b).bytes))
    BY <1>2, <1>3, <1>7, <2>1, TwoReads, Zenon DEF q
  <2> QED
    BY <2>2, GotIt, Zenon
<1>8. ASSUME LengthOf(x.namespaceUri) = 0, Breaks(p, Then(a, b).bytes) PROVE ~u.ok \/ ~s.ok
  <2>1. ~Breaks(p, a.bytes)
    BY <1>2, <1>8, NothingEncoded, Zenon
  <2>2. u = Got(Visible(x.namespaceUri), q) /\ Breaks(q, b.bytes)
    BY <1>2, <1>3, <1>8, <2>1, TwoReadsBreak, Zenon DEF q
  <2>3. u.to = q
    BY <2>2, GotIt, ZenonT(60)
  <2> QED
    BY <1>3, <1>4, <1>5, <2>2, <2>3, Zenon DEF Refuses
<1> QED
  BY <1>1, <1>6, <1>7, <1>8, Zenon DEF u, s

(* An expanded node id is a node id with flags, and what they announce. *)
LEMMA ExpandedEncoded ==
  ASSUME NEW x, IsNodeId(x.nodeId), data \in Seq(Byte)
  PROVE  LET n == x.nodeId
             h == Flagged(n, MaskOf(x))
         IN /\ IsRefused(n) => EncodeExpandedNodeId(x) = Bad(<<>>)
            /\ ~IsRefused(n) => EncodeExpandedNodeId(x) = Then(Good(h.bytes), Beyond(x))
<1> DEFINE n == x.nodeId
           i == EncodeNodeId(n)
           h == Flagged(n, MaskOf(x))
<1>1. 0 \in Nat
  OBVIOUS
<1>2. i.ok <=> ~IsRefused(n)
  BY <1>1, NodeIdCodec, Zenon
<1>3. CASE IsRefused(n)
  BY <1>2, <1>3, Zenon DEF EncodeExpandedNodeId
<1>4. CASE ~IsRefused(n)
  <2>1. EncodeExpandedNodeId(x) = Then(Good([i.bytes EXCEPT ![1] = @ + MaskOf(x)]), Beyond(x))
    BY <1>2, <1>4, Zenon DEF EncodeExpandedNodeId, MaskOf, Beyond
  <2>2. MaskOf(x) \in Masks
    <3>1. 0 \in 0 .. 5
      OBVIOUS
    <3> QED
      BY <3>1, MaskFlags, Zenon
  <2>3. h.bytes = [i.bytes EXCEPT ![1] = @ + MaskOf(x)]
    BY <1>4, <2>2, FlaggedBytes, Zenon
  <2> QED
    BY <1>4, <2>1, <2>3, Zenon
<1> QED
  BY <1>3, <1>4

(* An expanded node id is read as it was encoded, but for an empty URI,    *)
(* which is null.                                                          *)
LEMMA ExpandedCodec ==
  ASSUME NEW x, IsField("QOpcUaExpandedNodeId", x), NEW p \in Nat, data \in Seq(Byte)
  PROVE  LET n == x.nodeId
             e == EncodeExpandedNodeId(x)
             d == DecodeExpandedNodeId(p)
         IN /\ Encoded(e)
            /\ e.ok =>
                 /\ Len(e.bytes) > 0
                 /\ KeepsId(n) => Reads(e, d, p, [x EXCEPT !.namespaceUri = Visible(@)])
                 /\ KeepsId(n) /\ n.type # "s" /\ LengthOf(x.namespaceUri) = 0 => Refuses(e, d, p)
<1> DEFINE n == x.nodeId
           t == EncodingType(n)
           m == MaskOf(x)
           h == Flagged(n, m)
           a == Good(h.bytes)
           b == Beyond(x)
           e == Then(a, b)
           g == data[p + 1]
           i == DecodeNodeId(p)
           u == DecodeOptional(g, UriFlag, i.to)
           s == DecodeServerIndex(g, u.to)
           d == DecodeExpandedNodeId(p)
           q == p + Len(a.bytes)
           y == [x EXCEPT !.namespaceUri = Visible(@)]
<1>1. /\ x = [nodeId |-> x.nodeId, namespaceUri |-> x.namespaceUri, serverIndex |-> x.serverIndex]
      /\ IsNodeId(n) /\ IsByteString(x.namespaceUri) /\ HasWidth("quint32", x.serverIndex)
  BY DEF IsField, sizeof
<1>2. CASE IsRefused(n)
  <2>1. EncodeExpandedNodeId(x) = Bad(<<>>)
    BY <1>1, <1>2, ExpandedEncoded, Zenon
  <2> QED
    BY <2>1, RefusedEncoded, Zenon
<1>3. CASE ~IsRefused(n)
  <2>1. EncodeExpandedNodeId(x) = e
    BY <1>1, <1>3, ExpandedEncoded, Zenon
  <2>2. t \in 0 .. 5
    BY <1>1, <1>3, TypesOfIdentifiers, Zenon
  <2> DEFINE c == t + m
  <2>3. /\ m \in Masks
        /\ HasFlag(c, UriFlag) <=> LengthOf(x.namespaceUri) # 0
        /\ HasFlag(c, ServerFlag) <=> x.serverIndex # 0
    BY <2>2, MaskFlags, Zenon
  <2>4. /\ Encoded(h) /\ h.ok /\ Len(h.bytes) > 0
        /\ KeepsId(n) => Reads(h, i, p, n)
        /\ KeepsId(n) /\ n.type # "s" => Refuses(h, i, p)
    BY <1>1, <1>3, <2>3, FlaggedCodec, Zenon
  <2>5. h.bytes[1] = c
    BY <1>1, <1>3, <2>3, FlaggedBytes, Zenon
  <2>6. /\ Encoded(b) /\ b.ok
        /\ \A k \in Nat :
             LET v == DecodeOptional(c, UriFlag, k)
                 w == DecodeServerIndex(c, v.to)
             IN /\ Holds(k, b.bytes) =>
                     /\ v.ok /\ v.value = Visible(x.namespaceUri)
                     /\ w = Got(x.serverIndex, k + Len(b.bytes))
                /\ LengthOf(x.namespaceUri) = 0 /\ Breaks(k, b.bytes) => ~v.ok \/ ~w.ok
    <3>1. 0 \in Nat
      OBVIOUS
    <3> QED
      BY <1>1, <2>3, <3>1, BeyondCodec, Zenon
  <2>7. enoughData(p, 1) =>
          /\ ~i.ok => d = i
          /\ i.ok /\ ~u.ok => d = u
          /\ i.ok /\ u.ok /\ ~s.ok => d = s
          /\ i.ok /\ u.ok /\ s.ok =>
               d = Got([nodeId |-> i.value, namespaceUri |-> u.value, serverIndex |-> s.value],
                 s.to)
    BY ExpandedDecoded
  <2>8. ~enoughData(p, 1) => ~d.ok
    BY DEF DecodeExpandedNodeId, Failed
  <2>9. u = DecodeOptional(g, UriFlag, i.to) /\ s = DecodeServerIndex(g, u.to)
    OBVIOUS
  <2>10. y = [nodeId |-> n, namespaceUri |-> Visible(x.namespaceUri), serverIndex |-> x.serverIndex]
    BY <1>1
  <2> HIDE DEF c, h, i, u, s, d, g, b, y
  <2>11. Encoded(a) /\ a.ok /\ a.bytes = h.bytes /\ Len(a.bytes) > 0
    BY <2>4, GoodEncoded DEF Encoded
  <2>12. Encoded(a) /\ a.ok /\ Len(a.bytes) > 0
    BY <2>11
  <2>13. Encoded(b) /\ b.ok
    BY <2>6
  <2>14. q \in Nat
    BY <2>11 DEF Encoded
  <2> HIDE DEF a, q, m, t, n
  <2>15. /\ Encoded(e) /\ e.ok /\ Len(b.bytes) \in Nat /\ Len(a.bytes) \in Nat
         /\ Len(e.bytes) = Len(a.bytes) + Len(b.bytes)
         /\ p + Len(e.bytes) = q + Len(b.bytes)
         /\ Holds(p, e.bytes) => Holds(p, a.bytes) /\ Holds(q, b.bytes)
         /\ Breaks(p, e.bytes) => Breaks(p, a.bytes) \/ (Holds(p, a.bytes) /\ Breaks(q, b.bytes))
    BY <2>13, <2>12, ThenEncoded, Zenon DEF q
  <2>16. Len(e.bytes) > 0
    <3>1. \A k \in Nat, l \in Nat : k > 0 => k + l > 0
      OBVIOUS
    <3> QED
      BY <2>12, <2>15, <3>1, Zenon
  <2>17. e.bytes[1] = c
    <3>1. a.bytes[1] = c
      BY <2>5, <2>11, Zenon
    <3>2. e.bytes[1] = a.bytes[1]
      BY <2>13, <2>12, FirstOfTwo, Zenon
    <3> QED
      BY <3>1, <3>2, Zenon
  <2> HIDE DEF e
  <2>18. ASSUME Holds(p, e.bytes) \/ Breaks(p, e.bytes), enoughData(p, 1) PROVE g = c
    BY <2>15, <2>16, <2>17, <2>18, FirstByte, Zenon DEF Encoded, g
  <2>19. ASSUME KeepsId(n), Holds(p, e.bytes) PROVE d = Got(y, p + Len(e.bytes))
    <3>1. enoughData(p, 1)
      <4>1. p + Len(e.bytes) <= Len(data) /\ Len(data) \in Nat /\ Len(e.bytes) \in Nat
        BY <2>15, <2>19, HeldInside, Zenon DEF Encoded
      <4> QED
        BY <2>16, <4>1 DEF enoughData
    <3>2. g = c
      BY <2>18, <2>19, <3>1, Zenon
    <3>3. i = Got(n, q)
      BY <2>4, <2>11, <2>15, <2>19, Zenon DEF Reads, q
    <3>4. i.ok /\ i.value = n /\ i.to = q
      BY <3>3, GotIt, ZenonT(60)
    <3>5. u.ok /\ u.value = Visible(x.namespaceUri) /\ s = Got(x.serverIndex, q + Len(b.bytes))
      BY <2>6, <2>9, <2>14, <2>15, <2>19, <3>2, <3>4, Zenon
    <3>6. s = Got(x.serverIndex, p + Len(e.bytes))
      BY <2>15, <3>5, Zenon
    <3>7. s.ok /\ s.value = x.serverIndex /\ s.to = p + Len(e.bytes)
      BY <3>6, GotIt, ZenonT(60)
    <3>8. d = Got([nodeId |-> i.value, namespaceUri |-> u.value, serverIndex |-> s.value], s.to)
      BY <2>7, <3>1, <3>4, <3>5, <3>7, Zenon
    <3> QED
      BY <2>10, <3>4, <3>5, <3>7, <3>8, Zenon
  <2>20. ASSUME KeepsId(n), n.type # "s", LengthOf(x.namespaceUri) = 0, Breaks(p, e.bytes),
                enoughData(p, 1)
         PROVE  ~d.ok
    <3>1. CASE Breaks(p, a.bytes)
      BY <2>4, <2>7, <2>11, <2>20, <3>1, Zenon DEF Refuses
    <3>2. CASE Holds(p, a.bytes) /\ Breaks(q, b.bytes)
      <4>1. g = c
        BY <2>18, <2>20, Zenon
      <4>2. i = Got(n, q)
        BY <2>4, <2>11, <2>20, <3>2, Zenon DEF Reads, q
      <4>3. i.ok /\ i.to = q
        BY <4>2, GotIt, Zenon
      <4>4. ~u.ok \/ ~s.ok
        BY <2>6, <2>9, <2>14, <2>20, <3>2, <4>1, <4>3, Zenon
      <4> QED
        BY <2>7, <2>20, <4>3, <4>4, Zenon
    <3> QED
      BY <2>15, <2>20, <3>1, <3>2, Zenon
  <2> QED
    BY <2>1, <2>8, <2>15, <2>16, <2>19, <2>20, Zenon DEF Reads, Refuses, d, n, y
<1> QED
  BY <1>2, <1>3

-----------------------------------------------------------------------------
(* Extension objects.                                                      *)

BodyOf(x) == IF x.encoding = 0 THEN Null ELSE x.body

(* The body of an extension object is read as it was encoded, as null when *)
(* there is none.                                                          *)
LEMMA BodyCodec ==
  ASSUME NEW x, x.encoding \in 0 .. 2, IsByteString(x.body), NEW p \in Nat, data \in Seq(Byte)
  PROVE  LET e == EncodeBody(x.encoding, x.body)
             r == DecodeBody(x.encoding, p)
         IN /\ Encoded(e) /\ e.ok
            /\ (x.encoding # 0 => LengthOf(x.body) # 1) => Reads(e, r, p, BodyOf(x))
                 /\ Refuses(e, r, p)
<1>1. CASE x.encoding = 0
  <2>1. EncodeBody(x.encoding, x.body) = Good(<<>>) /\ BodyOf(x) = Null
    BY <1>1, Zenon DEF EncodeBody, BodyOf
  <2>2. DecodeBody(x.encoding, p) = Got(Null, p)
    BY <1>1 DEF DecodeBody
  <2> QED
    BY <2>1, <2>2, NothingEncoded, NothingRead, Zenon
<1>2. CASE x.encoding # 0
  <2>1. EncodeBody(x.encoding, x.body) = EncodeQByteArray(x.body) /\ BodyOf(x) = x.body
    BY <1>2, Zenon DEF EncodeBody, BodyOf
  <2>2. DecodeBody(x.encoding, p) = DecodeQByteArray(p)
    BY <1>2 DEF DecodeBody
  <2> QED
    BY <1>2, <2>1, <2>2, QByteArrayCodec, Zenon
<1> QED
  BY <1>1, <1>2

(* A body is read inside of the buffer, or refused, for any encoding. *)
LEMMA BodyBounded ==
  ASSUME NEW encoding \in Nat, NEW p \in Nat, p <= Len(data), data \in Seq(Byte)
  PROVE  Bounded(DecodeBody(encoding, p), p)
<1>1. CASE encoding = 0
  <2>1. DecodeBody(encoding, p) = Got(Null, p)
    BY <1>1 DEF DecodeBody
  <2>2. p \in p .. Len(data)
    OBVIOUS
  <2> QED
    BY <2>1, <2>2, GotBounded, Zenon
<1>2. CASE encoding \in {1, 2}
  <2>1. DecodeBody(encoding, p) = DecodeQByteArray(p)
    BY <1>2 DEF DecodeBody
  <2> QED
    BY <2>1, StringBounded, Zenon
<1>3. CASE encoding > 2
  <2>1. DecodeBody(encoding, p) = Failed(p)
    BY <1>3 DEF DecodeBody
  <2> QED
    BY <2>1, FailedBounded, Zenon
<1> QED
  BY <1>1, <1>2, <1>3

(* The reads of an extension object, one after the other. *)
LEMMA ObjectDecoded ==
  ASSUME NEW p
  PROVE  LET i == DecodeNodeId(p)
             f == DecodeNumber("quint8", i.to)
             r == DecodeBody(f.value, f.to)
             d == DecodeExtensionObject(p)
         IN /\ ~i.ok => d = i
            /\ i.ok /\ ~f.ok => d = f
            /\ i.ok /\ f.ok /\ ~r.ok => d = r
            /\ i.ok /\ f.ok /\ r.ok =>
                 d = Got([typeId |-> i.value, encoding |-> f.value, body |-> r.value], r.to)
BY Zenon DEF DecodeExtensionObject, OnSuccess

(* A quint8 is read inside of the buffer. *)
LEMMA ReadByte ==
  ASSUME NEW p \in Nat, data \in Seq(Byte), p <= Len(data)
  PROVE  Bounded(DecodeNumber("quint8", p), p)
         /\ (DecodeNumber("quint8", p).ok => DecodeNumber("quint8", p).value \in Nat)
<1> DEFINE f == DecodeNumber("quint8", p)
<1>1. Bounded(f, p)
  BY NumberTypes, NumberBounded
<1>2. ASSUME f.ok PROVE f.value \in Nat
  <2>1. enoughData(p, 1)
    BY <1>2, ByteIsEnough, Zenon
  <2>2. f = Got(data[p + 1], p + 1) /\ data[p + 1] \in Byte
    BY <2>1, ByteIsRead
  <2> HIDE DEF f
  <2>3. f.value = data[p + 1]
    BY <2>2, GotIt, ZenonT(60)
  <2> QED
    BY <2>2, <2>3, ByteRange
<1> QED
  BY <1>1, <1>2

(* An extension object is read inside of the buffer. *)
LEMMA ObjectBounded ==
  ASSUME NEW p \in Nat, p <= Len(data), data \in Seq(Byte)
  PROVE  Bounded(DecodeExtensionObject(p), p)
<1> DEFINE i == DecodeNodeId(p)
           f == DecodeNumber("quint8", i.to)
           r == DecodeBody(f.value, f.to)
           v == [typeId |-> i.value, encoding |-> f.value, body |-> r.value]
           d == DecodeExtensionObject(p)
<1>1. /\ ~i.ok => d = i
      /\ i.ok /\ ~f.ok => d = f
      /\ i.ok /\ f.ok /\ ~r.ok => d = r
      /\ i.ok /\ f.ok /\ r.ok => d = Got(v, r.to)
  BY ObjectDecoded
<1>2. Bounded(i, p)
  BY NodeIdBounded
<1>3. i.to \in Nat /\ i.to <= Len(data) /\ \A next : Bounded(next, i.to) => Bounded(next, p)
  BY <1>2, BoundedInTurn, Zenon
<1>4. Bounded(f, i.to) /\ (f.ok => f.value \in Nat)
  BY <1>3, ReadByte, Zenon
<1>5. r = DecodeBody(f.value, f.to)
  OBVIOUS
<1> HIDE DEF i, f, r, v, d
<1>6. CASE i.ok /\ f.ok
  <2>1. f.to \in Nat /\ f.to <= Len(data) /\ \A next : Bounded(next, f.to) => Bounded(next, i.to)
    BY <1>3, <1>4, BoundedInTurn, Zenon
  <2>2. Bounded(r, f.to)
    BY <1>4, <1>5, <1>6, <2>1, BodyBounded, Zenon
  <2>3. Bounded(Got(v, r.to), f.to)
    BY <2>1, <2>2, BoundedInTurn, GotBounded, Zenon
  <2> QED
    BY <1>1, <1>3, <1>6, <2>1, <2>2, <2>3, Zenon DEF d
<1>7. CASE ~(i.ok /\ f.ok)
  BY <1>1, <1>2, <1>3, <1>4, <1>7, Zenon DEF d
<1> QED
  BY <1>6, <1>7

Content(x) == Then(EncodeNumber("quint8", x.encoding), EncodeBody(x.encoding, x.body))

(* Encoding and body of an extension object are read as they were encoded. *)
LEMMA ContentCodec ==
  ASSUME NEW x, x.encoding \in 0 .. 2, IsByteString(x.body), NEW p \in Nat, data \in Seq(Byte)
  PROVE  LET f == DecodeNumber("quint8", p)
             r == DecodeBody(f.value, f.to)
             e == Content(x)
         IN /\ Encoded(e) /\ e.ok
            /\ (x.encoding # 0 => LengthOf(x.body) # 1) =>
                 /\ Holds(p, e.bytes) =>
                      f.ok /\ f.value = x.encoding /\ r = Got(BodyOf(x), p + Len(e.bytes))
                 /\ Breaks(p, e.bytes) => ~f.ok \/ ~r.ok
<1> DEFINE a == EncodeNumber("quint8", x.encoding)
           b == EncodeBody(x.encoding, x.body)
           e == Content(x)
           f == DecodeNumber("quint8", p)
           r == DecodeBody(f.value, f.to)
           q == p + Len(a.bytes)
           K == x.encoding # 0 => LengthOf(x.body) # 1
<1>1. e = Then(a, b)
  BY DEF Content
<1>2. Encoded(a) /\ a.ok /\ Reads(a, f, p, x.encoding) /\ Refuses(a, f, p)
  <2>1. HasWidth("quint8", x.encoding)
    BY Widths
  <2>2. "quint8" \in Numbers
    BY NumberTypes
  <2> QED
    BY <2>1, <2>2, NumberCodec, Zenon
<1>3. /\ Encoded(b) /\ b.ok
      /\ \A k \in Nat :
           K => /\ Reads(b, DecodeBody(x.encoding, k), k, BodyOf(x))
                /\ Refuses(b, DecodeBody(x.encoding, k), k)
  <2>1. 0 \in Nat
    OBVIOUS
  <2> QED
    BY <2>1, BodyCodec, Zenon
<1>4. r = DecodeBody(f.value, f.to)
  OBVIOUS
<1> HIDE DEF a, b, f, r, K
<1>5. q \in Nat
  <2>1. Len(a.bytes) \in Nat
    BY <1>2 DEF Encoded
  <2> QED
    BY <2>1
<1> HIDE DEF q
<1>6. Encoded(e) /\ e.ok
  BY <1>1, <1>2, <1>3, ThenEncoded, Zenon
<1> HIDE DEF e
<1>7. ASSUME K, Holds(p, e.bytes)
      PROVE  f.ok /\ f.value = x.encoding /\ r = Got(BodyOf(x), p + Len(e.bytes))
  <2>1. f = Got(x.encoding, q) => Reads(b, r, q, BodyOf(x))
    <3> SUFFICES ASSUME f = Got(x.encoding, q) PROVE Reads(b, r, q, BodyOf(x))
      OBVIOUS
    <3>1. f.to = q /\ f.value = x.encoding
      BY GotIt, ZenonT(60)
    <3> QED
      BY <1>3, <1>4, <1>5, <1>7, <3>1, Zenon
  <2>2. f = Got(x.encoding, q) /\ r = Got(BodyOf(x), p + Len(e.bytes))
    <3>1. Holds(p, Then(a, b).bytes)
      BY <1>1, <1>7, Zenon
    <3>2. f = Got(x.encoding, q) /\ r = Got(BodyOf(x), p + Len(Then(a, b).bytes))
      <4>1. Encoded(a) /\ a.ok /\ Reads(a, f, p, x.encoding) /\ Encoded(b)
        BY <1>2, <1>3, Zenon
      <4>2. f = Got(x.encoding, p + Len(a.bytes)) => Reads(b, r, p + Len(a.bytes), BodyOf(x))
        BY <2>1, Zenon DEF q
      <4> QED
        <5> DEFINE z == x.encoding
        <5> HIDE DEF z
        <5>1. Reads(a, f, p, z) /\ (f = Got(z, p + Len(a.bytes))
                => Reads(b, r, p + Len(a.bytes), BodyOf(x)))
          BY <4>1, <4>2, Zenon DEF z
        <5>2. f = Got(z, p + Len(a.bytes)) /\ r = Got(BodyOf(x), p + Len(Then(a, b).bytes))
          BY <3>1, <4>1, <5>1, TwoReads, Zenon
        <5> QED
          BY <5>2, Zenon DEF z, q
    <3> QED
      BY <1>1, <3>2, Zenon
  <2> QED
    BY <2>2, GotIt, Zenon
<1>8. ASSUME K, Breaks(p, e.bytes) PROVE ~f.ok \/ ~r.ok
  <2>1. CASE Breaks(p, a.bytes)
    BY <1>2, <2>1, Zenon DEF Refuses
  <2>2. CASE f = Got(x.encoding, q) /\ Breaks(q, b.bytes)
    <3>1. f.to = q /\ f.value = x.encoding
      BY <2>2, GotIt, ZenonT(60)
    <3> QED
      BY <1>3, <1>4, <1>5, <1>8, <2>2, <3>1, Zenon DEF Refuses
  <2> QED
    BY <1>1, <1>2, <1>3, <1>8, <2>1, <2>2, TwoReadsBreak, Zenon DEF q
<1> QED
  BY <1>6, <1>7, <1>8, Zenon DEF e, f, r, K

(* An extension object is read as it was encoded, but for the body it does *)
(* not have.                                                               *)
LEMMA ObjectCodec ==
  ASSUME NEW x, IsField("QOpcUaExtensionObject", x), NEW p \in Nat, data \in Seq(Byte)
  PROVE  LET n == x.typeId
             e == EncodeExtensionObject(x)
             d == DecodeExtensionObject(p)
             K == KeepsId(n) /\ (x.encoding # 0 => LengthOf(x.body) # 1)
         IN /\ Encoded(e)
            /\ e.ok => /\ Len(e.bytes) > 0
                       /\ K => Reads(e, d, p, [x EXCEPT !.body = BodyOf(x)])
                       /\ K /\ n.type # "s" => Refuses(e, d, p)
<1> DEFINE n == x.typeId
           a == EncodeNodeId(n)
           b == Content(x)
           e == EncodeExtensionObject(x)
           i == DecodeNodeId(p)
           f == DecodeNumber("quint8", i.to)
           r == DecodeBody(f.value, f.to)
           d == DecodeExtensionObject(p)
           q == p + Len(a.bytes)
           B == x.encoding # 0 => LengthOf(x.body) # 1
           y == [x EXCEPT !.body = BodyOf(x)]
<1>1. /\ x = [typeId |-> x.typeId, encoding |-> x.encoding, body |-> x.body]
      /\ IsNodeId(n) /\ x.encoding \in 0 .. 2 /\ IsByteString(x.body)
  BY DEF IsField, sizeof
<1>2. e = Then(a, b)
  BY DEF EncodeExtensionObject, Content
<1>3. /\ Encoded(a)
      /\ a.ok => /\ Len(a.bytes) > 0
                 /\ KeepsId(n) => Reads(a, i, p, n)
                 /\ KeepsId(n) /\ n.type # "s" => Refuses(a, i, p)
  BY <1>1, NodeIdCodec, Zenon
<1>4. /\ Encoded(b) /\ b.ok
      /\ \A k \in Nat :
           LET g == DecodeNumber("quint8", k)
               s == DecodeBody(g.value, g.to)
           IN B => /\ Holds(k, b.bytes) =>
                        g.ok /\ g.value = x.encoding /\ s = Got(BodyOf(x), k + Len(b.bytes))
                   /\ Breaks(k, b.bytes) => ~g.ok \/ ~s.ok
  <2>1. 0 \in Nat
    OBVIOUS
  <2> QED
    BY <1>1, <2>1, ContentCodec, Zenon
<1>5. /\ ~i.ok => d = i
      /\ i.ok /\ ~f.ok => d = f
      /\ i.ok /\ f.ok /\ ~r.ok => d = r
      /\ i.ok /\ f.ok /\ r.ok =>
           d = Got([typeId |-> i.value, encoding |-> f.value, body |-> r.value], r.to)
  BY ObjectDecoded
<1>6. f = DecodeNumber("quint8", i.to) /\ r = DecodeBody(f.value, f.to)
  OBVIOUS
<1>7. y = [typeId |-> n, encoding |-> x.encoding, body |-> BodyOf(x)]
  BY <1>1
<1> HIDE DEF n, a, b, i, f, r, d, B, y
<1>8. CASE ~a.ok
  <2>1. e = a
    BY <1>2, <1>8, ThenStops, Zenon
  <2> QED
    BY <1>3, <1>8, <2>1, Zenon DEF e
<1>9. CASE a.ok
  <2>1. q \in Nat
    <3>1. Len(a.bytes) \in Nat
      BY <1>3 DEF Encoded
    <3> QED
      BY <3>1
  <2> HIDE DEF q
  <2>2. Encoded(a) /\ a.ok /\ Encoded(b) /\ b.ok
    BY <1>3, <1>4, <1>9
  <2>3. /\ Encoded(Then(a, b)) /\ Then(a, b).ok /\ Len(b.bytes) \in Nat /\ Len(a.bytes) \in Nat
        /\ Len(Then(a, b).bytes) = Len(a.bytes) + Len(b.bytes)
        /\ p + Len(Then(a, b).bytes) = q + Len(b.bytes)
        /\ Holds(p, Then(a, b).bytes) => Holds(p, a.bytes) /\ Holds(q, b.bytes)
        /\ Breaks(p, Then(a, b).bytes) => Breaks(p, a.bytes)
             \/ (Holds(p, a.bytes) /\ Breaks(q, b.bytes))
    BY <2>2, ThenEncoded, Zenon DEF q
  <2>4. /\ Encoded(e) /\ e.ok
        /\ p + Len(e.bytes) = q + Len(b.bytes)
        /\ Holds(p, e.bytes) => Holds(p, a.bytes) /\ Holds(q, b.bytes)
        /\ Breaks(p, e.bytes) => Breaks(p, a.bytes) \/ (Holds(p, a.bytes) /\ Breaks(q, b.bytes))
    BY <1>2, <2>3, Zenon
  <2>5. Len(e.bytes) > 0
    <3>1. \A k \in Nat, l \in Nat : k > 0 => k + l > 0
      OBVIOUS
    <3>2. Len(a.bytes) > 0
      BY <1>3, <1>9
    <3>3. Len(Then(a, b).bytes) > 0
      BY <2>3, <3>1, <3>2, Zenon
    <3> QED
      BY <1>2, <3>3, Zenon
  <2> HIDE DEF e
  <2>6. ASSUME KeepsId(n), B, Holds(p, e.bytes) PROVE d = Got(y, p + Len(e.bytes))
    <3>1. i = Got(n, q) /\ Holds(q, b.bytes)
      BY <1>3, <1>9, <2>4, <2>6, Zenon DEF Reads, q
    <3>2. i.ok /\ i.value = n /\ i.to = q
      BY <3>1, GotIt, Zenon
    <3>3. f.ok /\ f.value = x.encoding /\ r = Got(BodyOf(x), q + Len(b.bytes))
      BY <1>4, <1>6, <2>1, <2>6, <3>1, <3>2, Zenon
    <3>4. r = Got(BodyOf(x), p + Len(e.bytes))
      BY <2>4, <3>3, Zenon
    <3>5. r.ok /\ r.value = BodyOf(x) /\ r.to = p + Len(e.bytes)
      BY <3>4, GotIt, Zenon
    <3>6. d = Got([typeId |-> i.value, encoding |-> f.value, body |-> r.value], r.to)
      BY <1>5, <3>2, <3>3, <3>5, Zenon
    <3> QED
      BY <1>7, <3>2, <3>3, <3>5, <3>6, Zenon
  <2>7. ASSUME KeepsId(n), B, n.type # "s", Breaks(p, e.bytes) PROVE ~d.ok
    <3>1. CASE Breaks(p, a.bytes)
      BY <1>3, <1>5, <1>9, <2>7, <3>1, Zenon DEF Refuses
    <3>2. CASE Holds(p, a.bytes) /\ Breaks(q, b.bytes)
      <4>1. i = Got(n, q)
        BY <1>3, <1>9, <2>7, <3>2, Zenon DEF Reads, q
      <4>2. i.ok /\ i.to = q
        BY <4>1, GotIt, Zenon
      <4>3. ~f.ok \/ ~r.ok
        BY <1>4, <1>6, <2>1, <2>7, <3>2, <4>2, Zenon
      <4> QED
        BY <1>5, <4>2, <4>3, Zenon
    <3> QED
      BY <2>4, <2>7, <3>1, <3>2, Zenon
  <2> QED
    BY <2>4, <2>5, <2>6, <2>7, Zenon DEF Reads, Refuses, e, d, n, B, y
<1> QED
  BY <1>8, <1>9

-----------------------------------------------------------------------------
(* The fields.                                                             *)

OtherTypes ==
  {"bool", "QString", "QByteArray", "QUuid", "QDateTime", "NodeId", "QOpcUaExpandedNodeId",
   "QOpcUaLocalizedText", "QOpcUaExtensionObject"}

FieldTypes == Numbers \cup OtherTypes

(* What is a field has the type of one. *)
LEMMA TypesOfFields ==
  ASSUME NEW type, NEW v, IsField(type, v)
  PROVE  type \in FieldTypes
BY DEF IsField, FieldTypes, OtherTypes, Numbers

(* A field that is a number. *)
LEMMA NumberField ==
  ASSUME NEW type \in Numbers, NEW v, NEW p
  PROVE  /\ EncodeField(type, v) = EncodeNumber(type, v)
              /\ DecodeField(type, p) = DecodeNumber(type, p)
         /\ IsField(type, v) => HasWidth(type, v)
         /\ ExpectedField(type, v) = v
<1>1. type \in DOMAIN sizeof \ {"bool"}
  BY DEF Numbers
<1>2. type \notin {"bool", "QString", "QByteArray", "QUuid", "QDateTime", "NodeId",
        "QOpcUaExpandedNodeId",
                   "QOpcUaLocalizedText", "QOpcUaExtensionObject"}
  BY NumberTypes
<1> QED
  BY <1>1, <1>2 DEF EncodeField, DecodeField, IsField, ExpectedField

(* No other field is a number. *)
LEMMA SameTypes == \A type \in OtherTypes : type \notin Numbers
BY NumberTypes DEF OtherTypes

(* A field that is a bool. *)
LEMMA BoolField ==
  ASSUME NEW v, NEW p
  PROVE  /\ EncodeField("bool", v) = EncodeBool(v) /\ DecodeField("bool", p) = DecodeBool(p)
         /\ IsField("bool", v) => v \in BOOLEAN
         /\ ExpectedField("bool", v) = v
         /\ (KeepsBytes("bool", v) <=> TRUE) /\ (NoQString("bool", v) <=> TRUE)
<1>1. "bool" \notin DOMAIN sizeof \ {"bool"}
  BY SameTypes DEF OtherTypes, Numbers
<1>2. EncodeField("bool", v) = EncodeBool(v) /\ DecodeField("bool", p) = DecodeBool(p)
  BY <1>1 DEF EncodeField, DecodeField
<1>3. IsField("bool", v) => v \in BOOLEAN
  BY <1>1 DEF IsField
<1>4. ExpectedField("bool", v) = v
  BY <1>1 DEF ExpectedField
<1>5. (KeepsBytes("bool", v) <=> TRUE) /\ (NoQString("bool", v) <=> TRUE)
  BY <1>1 DEF KeepsBytes, NoQString
<1> QED
  BY <1>2, <1>3, <1>4, <1>5

(* A field that is a QString. *)
LEMMA QStringField ==
  ASSUME NEW v, NEW p
  PROVE  /\ EncodeField("QString", v) = EncodeQString(v)
              /\ DecodeField("QString", p) = DecodeQString(p)
         /\ IsField("QString", v) => IsByteString(v)
         /\ ExpectedField("QString", v) = v
         /\ (KeepsBytes("QString", v) <=> TRUE) /\ (NoQString("QString", v) <=> FALSE)
<1>1. "QString" \notin DOMAIN sizeof \ {"bool"}
  BY SameTypes DEF OtherTypes, Numbers
<1>2. EncodeField("QString", v) = EncodeQString(v) /\ DecodeField("QString", p) = DecodeQString(p)
  BY <1>1 DEF EncodeField, DecodeField
<1>3. IsField("QString", v) => IsByteString(v)
  BY <1>1 DEF IsField
<1>4. ExpectedField("QString", v) = v
  BY <1>1 DEF ExpectedField
<1>5. (KeepsBytes("QString", v) <=> TRUE) /\ (NoQString("QString", v) <=> FALSE)
  BY <1>1 DEF KeepsBytes, NoQString
<1> QED
  BY <1>2, <1>3, <1>4, <1>5

(* A field that is a QByteArray. *)
LEMMA QByteArrayField ==
  ASSUME NEW v, NEW p
  PROVE  /\ EncodeField("QByteArray", v) = EncodeQByteArray(v)
              /\ DecodeField("QByteArray", p) = DecodeQByteArray(p)
         /\ IsField("QByteArray", v) => IsByteString(v)
         /\ ExpectedField("QByteArray", v) = v
         /\ (KeepsBytes("QByteArray", v) <=> (LengthOf(v) # 1))
              /\ (NoQString("QByteArray", v) <=> TRUE)
<1>1. "QByteArray" \notin DOMAIN sizeof \ {"bool"}
  BY SameTypes DEF OtherTypes, Numbers
<1>2. EncodeField("QByteArray", v) = EncodeQByteArray(v)
        /\ DecodeField("QByteArray", p) = DecodeQByteArray(p)
  BY <1>1 DEF EncodeField, DecodeField
<1>3. IsField("QByteArray", v) => IsByteString(v)
  BY <1>1 DEF IsField
<1>4. ExpectedField("QByteArray", v) = v
  BY <1>1 DEF ExpectedField
<1>5. (KeepsBytes("QByteArray", v) <=> (LengthOf(v) # 1)) /\ (NoQString("QByteArray", v) <=> TRUE)
  BY <1>1 DEF KeepsBytes, NoQString
<1> QED
  BY <1>2, <1>3, <1>4, <1>5

(* A field that is a QUuid. *)
LEMMA QUuidField ==
  ASSUME NEW v, NEW p
  PROVE  /\ EncodeField("QUuid", v) = EncodeQUuid(v) /\ DecodeField("QUuid", p) = DecodeQUuid(p)
         /\ IsField("QUuid", v) => IsUuid(v)
         /\ ExpectedField("QUuid", v) = v
         /\ (KeepsBytes("QUuid", v) <=> TRUE) /\ (NoQString("QUuid", v) <=> TRUE)
<1>1. "QUuid" \notin DOMAIN sizeof \ {"bool"}
  BY SameTypes DEF OtherTypes, Numbers
<1>2. EncodeField("QUuid", v) = EncodeQUuid(v) /\ DecodeField("QUuid", p) = DecodeQUuid(p)
  BY <1>1 DEF EncodeField, DecodeField
<1>3. IsField("QUuid", v) => IsUuid(v)
  BY <1>1 DEF IsField
<1>4. ExpectedField("QUuid", v) = v
  BY <1>1 DEF ExpectedField
<1>5. (KeepsBytes("QUuid", v) <=> TRUE) /\ (NoQString("QUuid", v) <=> TRUE)
  BY <1>1 DEF KeepsBytes, NoQString
<1> QED
  BY <1>2, <1>3, <1>4, <1>5

(* A field that is a QDateTime. *)
LEMMA QDateTimeField ==
  ASSUME NEW v, NEW p
  PROVE  /\ EncodeField("QDateTime", v) = EncodeQDateTime(v)
              /\ DecodeField("QDateTime", p) = DecodeQDateTime(p)
         /\ (KeepsBytes("QDateTime", v) <=> TRUE) /\ (NoQString("QDateTime", v) <=> TRUE)
<1>1. "QDateTime" \notin DOMAIN sizeof \ {"bool"}
  BY SameTypes DEF OtherTypes, Numbers
<1>2. EncodeField("QDateTime", v) = EncodeQDateTime(v)
        /\ DecodeField("QDateTime", p) = DecodeQDateTime(p)
  BY <1>1 DEF EncodeField, DecodeField
<1>3. (KeepsBytes("QDateTime", v) <=> TRUE) /\ (NoQString("QDateTime", v) <=> TRUE)
  BY <1>1 DEF KeepsBytes, NoQString
<1> QED
  BY <1>2, <1>3

(* A field that is a node id. *)
LEMMA NodeIdField ==
  ASSUME NEW v, NEW p
  PROVE  /\ EncodeField("NodeId", v) = EncodeNodeId(v) /\ DecodeField("NodeId", p) = DecodeNodeId(p)
         /\ IsField("NodeId", v) => IsNodeId(v)
         /\ ExpectedField("NodeId", v) = v
         /\ (KeepsBytes("NodeId", v) <=> KeepsId(v)) /\ (NoQString("NodeId", v) <=> (v.type # "s"))
<1>1. "NodeId" \notin DOMAIN sizeof \ {"bool"}
  BY SameTypes DEF OtherTypes, Numbers
<1>2. EncodeField("NodeId", v) = EncodeNodeId(v) /\ DecodeField("NodeId", p) = DecodeNodeId(p)
  BY <1>1 DEF EncodeField, DecodeField
<1>3. IsField("NodeId", v) => IsNodeId(v)
  BY <1>1 DEF IsField
<1>4. ExpectedField("NodeId", v) = v
  BY <1>1 DEF ExpectedField
<1>5. (KeepsBytes("NodeId", v) <=> KeepsId(v)) /\ (NoQString("NodeId", v) <=> (v.type # "s"))
  BY <1>1 DEF KeepsBytes, NoQString
<1> QED
  BY <1>2, <1>3, <1>4, <1>5

(* A field that is an expanded node id. *)
LEMMA ExpandedNodeIdField ==
  ASSUME NEW v, NEW p
  PROVE  /\ EncodeField("QOpcUaExpandedNodeId", v) = EncodeExpandedNodeId(v)
              /\ DecodeField("QOpcUaExpandedNodeId", p) = DecodeExpandedNodeId(p)
         /\ ExpectedField("QOpcUaExpandedNodeId", v) = [v EXCEPT !.namespaceUri = Visible(@)]
         /\ (KeepsBytes("QOpcUaExpandedNodeId", v) <=> KeepsId(v.nodeId))
              /\ (NoQString("QOpcUaExpandedNodeId", v) <=> (v.nodeId.type # "s"
                   /\ LengthOf(v.namespaceUri) = 0))
<1>1. "QOpcUaExpandedNodeId" \notin DOMAIN sizeof \ {"bool"}
  BY SameTypes DEF OtherTypes, Numbers
<1>2. EncodeField("QOpcUaExpandedNodeId", v) = EncodeExpandedNodeId(v)
        /\ DecodeField("QOpcUaExpandedNodeId", p) = DecodeExpandedNodeId(p)
  BY <1>1 DEF EncodeField, DecodeField
<1>3. ExpectedField("QOpcUaExpandedNodeId", v) = [v EXCEPT !.namespaceUri = Visible(@)]
  BY <1>1 DEF ExpectedField
<1>4. (KeepsBytes("QOpcUaExpandedNodeId", v) <=> KeepsId(v.nodeId))
        /\ (NoQString("QOpcUaExpandedNodeId", v) <=> (v.nodeId.type # "s"
             /\ LengthOf(v.namespaceUri) = 0))
  BY <1>1 DEF KeepsBytes, NoQString
<1> QED
  BY <1>2, <1>3, <1>4

(* A field that is a localized text. *)
LEMMA LocalizedTextField ==
  ASSUME NEW v, NEW p
  PROVE  /\ EncodeField("QOpcUaLocalizedText", v) = EncodeLocalizedText(v)
              /\ DecodeField("QOpcUaLocalizedText", p) = DecodeLocalizedText(p)
         /\ ExpectedField("QOpcUaLocalizedText", v) = <<Visible(v[1]), Visible(v[2])>>
         /\ (KeepsBytes("QOpcUaLocalizedText", v) <=> TRUE)
              /\ (NoQString("QOpcUaLocalizedText", v) <=> (LengthOf(v[1]) = 0
                   /\ LengthOf(v[2]) = 0))
<1>1. "QOpcUaLocalizedText" \notin DOMAIN sizeof \ {"bool"}
  BY SameTypes DEF OtherTypes, Numbers
<1>2. EncodeField("QOpcUaLocalizedText", v) = EncodeLocalizedText(v)
        /\ DecodeField("QOpcUaLocalizedText", p) = DecodeLocalizedText(p)
  BY <1>1 DEF EncodeField, DecodeField
<1>3. ExpectedField("QOpcUaLocalizedText", v) = <<Visible(v[1]), Visible(v[2])>>
  BY <1>1 DEF ExpectedField
<1>4. (KeepsBytes("QOpcUaLocalizedText", v) <=> TRUE) /\ (NoQString("QOpcUaLocalizedText", v)
        <=> (LengthOf(v[1]) = 0 /\ LengthOf(v[2]) = 0))
  BY <1>1 DEF KeepsBytes, NoQString
<1> QED
  BY <1>2, <1>3, <1>4

(* A field that is an extension object. *)
LEMMA ExtensionObjectField ==
  ASSUME NEW v, NEW p
  PROVE  /\ EncodeField("QOpcUaExtensionObject", v) = EncodeExtensionObject(v)
              /\ DecodeField("QOpcUaExtensionObject", p) = DecodeExtensionObject(p)
         /\ ExpectedField("QOpcUaExtensionObject", v) = [v EXCEPT !.body = BodyOf(v)]
         /\ (KeepsBytes("QOpcUaExtensionObject", v) <=> (KeepsId(v.typeId)
              /\ (v.encoding # 0 => LengthOf(v.body) # 1)))
                   /\ (NoQString("QOpcUaExtensionObject", v) <=> (v.typeId.type # "s"))
<1>1. "QOpcUaExtensionObject" \notin DOMAIN sizeof \ {"bool"}
  BY SameTypes DEF OtherTypes, Numbers
<1>2. EncodeField("QOpcUaExtensionObject", v) = EncodeExtensionObject(v)
        /\ DecodeField("QOpcUaExtensionObject", p) = DecodeExtensionObject(p)
  BY <1>1 DEF EncodeField, DecodeField
<1>3. ExpectedField("QOpcUaExtensionObject", v) = [v EXCEPT !.body = BodyOf(v)]
  BY <1>1 DEF ExpectedField, BodyOf
<1>4. (KeepsBytes("QOpcUaExtensionObject", v) <=> (KeepsId(v.typeId)
        /\ (v.encoding # 0 => LengthOf(v.body) # 1))) /\ (NoQString("QOpcUaExtensionObject", v)
             <=> (v.typeId.type # "s"))
  BY <1>1 DEF KeepsBytes, NoQString
<1> QED
  BY <1>2, <1>3, <1>4

(* A field of any type is read as it was encoded, and refused when it      *)
(* breaks off.                                                             *)
LEMMA FieldCodec ==
  ASSUME NEW type, NEW v, IsField(type, v), NEW p \in Nat, data \in Seq(Byte)
  PROVE  LET e == EncodeField(type, v)
             d == DecodeField(type, p)
         IN /\ Encoded(e)
            /\ e.ok => /\ Len(e.bytes) > 0
                       /\ KeepsBytes(type, v) => Reads(e, d, p, ExpectedField(type, v))
                       /\ KeepsBytes(type, v) /\ NoQString(type, v) => Refuses(e, d, p)
<1>1. CASE type \in Numbers
  <2>1. HasWidth(type, v) /\ EncodeField(type, v) = EncodeNumber(type, v)
        /\ DecodeField(type, p) = DecodeNumber(type, p) /\ ExpectedField(type, v) = v
    BY <1>1, NumberField
  <2> DEFINE e == EncodeNumber(type, v)
             d == DecodeNumber(type, p)
  <2>2. Encoded(e) /\ e.ok /\ Len(e.bytes) = sizeof[type] /\ Reads(e, d, p, v) /\ Refuses(e, d, p)
    BY <1>1, <2>1, NumberCodec, Zenon
  <2>3. sizeof[type] > 0
    BY <1>1, NumberTypes
  <2> QED
    BY <2>1, <2>2, <2>3, Zenon
<1>2. CASE type = "bool"
  <2>1. IsField("bool", v)
    BY <1>2
  <2> QED
    BY <1>2, <2>1, BoolField, BoolCodec, Zenon
<1>3. CASE type = "QString"
  <2>1. IsField("QString", v)
    BY <1>3
  <2> QED
    BY <1>3, <2>1, QStringField, QStringCodec, Zenon
<1>4. CASE type = "QByteArray"
  <2>1. IsField("QByteArray", v)
    BY <1>4
  <2> QED
    BY <1>4, <2>1, QByteArrayField, QByteArrayCodec, Zenon
<1>5. CASE type = "QUuid"
  <2>1. IsField("QUuid", v)
    BY <1>5
  <2> QED
    BY <1>5, <2>1, QUuidField, QUuidCodec, Zenon
<1>6. CASE type = "QDateTime"
  <2>1. IsField("QDateTime", v)
    BY <1>6
  <2> QED
    BY <1>6, <2>1, QDateTimeField, QDateTimeCodec, Zenon
<1>7. CASE type = "NodeId"
  <2>1. IsField("NodeId", v)
    BY <1>7
  <2> QED
    BY <1>7, <2>1, NodeIdField, NodeIdCodec, Zenon
<1>8. CASE type = "QOpcUaExpandedNodeId"
  <2> DEFINE e == EncodeExpandedNodeId(v)
             d == DecodeExpandedNodeId(p)
             x == [v EXCEPT !.namespaceUri = Visible(@)]
             K == KeepsId(v.nodeId)
             N == (v.nodeId.type # "s" /\ LengthOf(v.namespaceUri) = 0)
  <2>1. IsField("QOpcUaExpandedNodeId", v)
    BY <1>8
  <2>2. /\ Encoded(e)
        /\ e.ok => /\ Len(e.bytes) > 0
                   /\ K => Reads(e, d, p, x)
                   /\ K /\ N => Refuses(e, d, p)
    BY <2>1, ExpandedCodec, Zenon
  <2>3. /\ EncodeField("QOpcUaExpandedNodeId", v) = e /\ DecodeField("QOpcUaExpandedNodeId",
             p) = d /\ ExpectedField("QOpcUaExpandedNodeId", v) = x
        /\ (KeepsBytes("QOpcUaExpandedNodeId", v) <=> K) /\ (NoQString("QOpcUaExpandedNodeId", v)
             <=> N)
    BY ExpandedNodeIdField, Zenon
  <2> HIDE DEF e, d, x, K, N
  <2> QED
    BY <1>8, <2>2, <2>3, Zenon
<1>9. CASE type = "QOpcUaLocalizedText"
  <2>1. IsField("QOpcUaLocalizedText", v)
    BY <1>9
  <2> QED
    BY <1>9, <2>1, LocalizedTextField, LocalizedTextCodec, Zenon
<1>10. CASE type = "QOpcUaExtensionObject"
  <2> DEFINE e == EncodeExtensionObject(v)
             d == DecodeExtensionObject(p)
             x == [v EXCEPT !.body = BodyOf(v)]
             K == (KeepsId(v.typeId) /\ (v.encoding # 0 => LengthOf(v.body) # 1))
             N == (v.typeId.type # "s")
  <2>1. IsField("QOpcUaExtensionObject", v)
    BY <1>10
  <2>2. /\ Encoded(e)
        /\ e.ok => /\ Len(e.bytes) > 0
                   /\ K => Reads(e, d, p, x)
                   /\ K /\ N => Refuses(e, d, p)
    BY <2>1, ObjectCodec, Zenon
  <2>3. /\ EncodeField("QOpcUaExtensionObject", v) = e /\ DecodeField("QOpcUaExtensionObject",
             p) = d /\ ExpectedField("QOpcUaExtensionObject", v) = x
        /\ (KeepsBytes("QOpcUaExtensionObject", v) <=> K)
             /\ (NoQString("QOpcUaExtensionObject", v) <=> N)
    BY ExtensionObjectField, Zenon
  <2> HIDE DEF e, d, x, K, N
  <2> QED
    BY <1>10, <2>2, <2>3, Zenon
<1> QED
  BY <1>1, <1>2, <1>3, <1>4, <1>5, <1>6, <1>7, <1>8, <1>9, <1>10, TypesOfFields
     DEF FieldTypes, OtherTypes

(* A field of any type is read inside of the buffer, whatever the buffer   *)
(* holds.                                                                  *)
LEMMA FieldBounded ==
  ASSUME NEW type \in FieldTypes, NEW p \in Nat, p <= Len(data), data \in Seq(Byte)
  PROVE  Bounded(DecodeField(type, p), p)
<1>1. CASE type \in Numbers
  BY <1>1, NumberField, NumberBounded, Zenon
<1>2. CASE type = "bool"
  BY <1>2, BoolField, BoolBounded, Zenon
<1>3. CASE type = "QString"
  BY <1>3, QStringField, StringBounded, Zenon
<1>4. CASE type = "QByteArray"
  BY <1>4, QByteArrayField, StringBounded, Zenon
<1>5. CASE type = "QUuid"
  BY <1>5, QUuidField, QUuidBounded, Zenon
<1>6. CASE type = "QDateTime"
  BY <1>6, QDateTimeField, QDateTimeBounded, Zenon
<1>7. CASE type = "NodeId"
  BY <1>7, NodeIdField, NodeIdBounded, Zenon
<1>8. CASE type = "QOpcUaExpandedNodeId"
  BY <1>8, ExpandedNodeIdField, ExpandedBounded, Zenon
<1>9. CASE type = "QOpcUaLocalizedText"
  BY <1>9, LocalizedTextField, LocalizedTextBounded, Zenon
<1>10. CASE type = "QOpcUaExtensionObject"
  BY <1>10, ExtensionObjectField, ObjectBounded, Zenon
<1> QED
  BY <1>1, <1>2, <1>3, <1>4, <1>5, <1>6, <1>7, <1>8, <1>9, <1>10 DEF FieldTypes, OtherTypes

-----------------------------------------------------------------------------
(* Calls one after the other.                                              *)

(* A set with 0 and, with each number below n, the one behind it. *)
LEMMA Ascent ==
  ASSUME NEW n \in Nat, NEW T, 0 \in T, \A i \in 1 .. n : i - 1 \in T => i \in T
  PROVE  \A i \in 0 .. n : i \in T
<1> SUFFICES ASSUME NEW j \in 0 .. n, j \notin T PROVE FALSE
  OBVIOUS
<1> DEFINE U == {k \in Nat : k <= n /\ k \notin T}
<1>1. j \in U
  OBVIOUS
<1>2. PICK k \in U : \A l \in U : k <= l
  <2>1. U \in SUBSET Nat /\ U # {}
    BY <1>1
  <2> HIDE DEF U
  <2> QED
    BY <2>1, LeastNumber
<1>3. k \in Nat /\ k <= n /\ k \notin T
  OBVIOUS
<1>4. k \in 1 .. n
  BY <1>3
<1>5. k - 1 \in Nat /\ k - 1 <= n /\ k - 1 \notin U
  BY <1>2, <1>4
<1>6. k - 1 \in T
  BY <1>5
<1> QED
  BY <1>3, <1>4, <1>6

(* What the calls of encode() have appended, call by call. *)
IsChain(g, first, calls, n) ==
  /\ Chain(first, calls) = g[n]
  /\ g[0] = first
  /\ \A i \in 1 .. n : g[i] = Then(g[i - 1], calls[i])

LEMMA ChainSteps ==
  ASSUME NEW first, NEW calls, Len(calls) \in Nat
  PROVE  \E g : IsChain(g, first, calls, Len(calls))
<1> DEFINE n == Len(calls)
           P(f) == f = [i \in 0 .. n |-> IF i = 0 THEN first ELSE Then(f[i - 1], calls[i])]
           s == CHOOSE h : P(h)
           Partial(j, f) == /\ f[0] = first
                            /\ \A i \in 1 .. j : f[i] = Then(f[i - 1], calls[i])
           T == {j \in 0 .. n : \E f : Partial(j, f)}
<1>1. Chain(first, calls) = s[n]
  BY Zenon DEF Chain
<1> HIDE DEF n
<1>2. n \in Nat
  BY DEF n
<1>3. 0 \in T
  <2> DEFINE f == [i \in {0} |-> first]
  <2>1. f[0] = first
    OBVIOUS
  <2>2. 1 .. 0 = {} /\ 0 \in 0 .. n
    BY <1>2
  <2> HIDE DEF f
  <2>3. Partial(0, f)
    BY <2>1, <2>2
  <2> HIDE DEF Partial
  <2> QED
    BY <2>2, <2>3
<1>4. ASSUME NEW j \in 1 .. n, j - 1 \in T PROVE j \in T
  <2>1. PICK f : Partial(j - 1, f)
    BY <1>4
  <2> DEFINE x == Then(f[j - 1], calls[j])
             g == [i \in 0 .. j |-> IF i = j THEN x ELSE f[i]]
  <2> HIDE DEF x
  <2>2. g[j] = x /\ \A i \in 0 .. j - 1 : g[i] = f[i]
    BY <1>2
  <2> HIDE DEF g
  <2>3. j - 1 \in 0 .. j - 1 /\ 0 \in 0 .. j - 1
    BY <1>2
  <2>4. g[0] = first
    BY <2>1, <2>2, <2>3, Zenon
  <2>5. g[j] = Then(g[j - 1], calls[j])
    <3>1. g[j - 1] = f[j - 1]
      BY <2>2, <2>3, Zenon
    <3> QED
      BY <2>2, <3>1, Zenon DEF x
  <2>6. ASSUME NEW i \in 1 .. j PROVE g[i] = Then(g[i - 1], calls[i])
    <3>1. CASE i = j
      BY <2>5, <3>1, Zenon
    <3>2. CASE i # j
      <4>1. i \in 1 .. j - 1 /\ i \in 0 .. j - 1 /\ i - 1 \in 0 .. j - 1
        BY <1>2, <3>2
      <4>2. f[i] = Then(f[i - 1], calls[i])
        BY <2>1, <4>1, Zenon
      <4>3. g[i] = f[i] /\ g[i - 1] = f[i - 1]
        BY <2>2, <4>1, Zenon
      <4> QED
        BY <4>2, <4>3, Zenon
    <3> QED
      BY <3>1, <3>2
  <2>7. Partial(j, g)
    BY <2>4, <2>6, Zenon
  <2> HIDE DEF Partial
  <2>8. j \in 0 .. n
    BY <1>2
  <2> QED
    BY <2>7, <2>8
<1>5. n \in T
  <2> HIDE DEF T
  <2>1. \A i \in 0 .. n : i \in T
    BY <1>2, <1>3, <1>4, Ascent
  <2> QED
    BY <1>2, <2>1
<1>6. PICK f : Partial(n, f)
  BY <1>5
<1> DEFINE h == [i \in 0 .. n |-> f[i]]
<1>7. P(h)
  <2>1. ASSUME NEW i \in 0 .. n PROVE h[i] = IF i = 0 THEN first ELSE Then(h[i - 1], calls[i])
    <3>1. h[i] = f[i]
      OBVIOUS
    <3>2. CASE i = 0
      BY <1>6, <3>1, <3>2, Zenon
    <3>3. CASE i # 0
      <4>1. i \in 1 .. n /\ i - 1 \in 0 .. n
        BY <1>2, <3>3
      <4>2. h[i - 1] = f[i - 1]
        BY <4>1
      <4>3. f[i] = Then(f[i - 1], calls[i])
        BY <1>6, <4>1, Zenon
      <4> HIDE DEF h
      <4> QED
        BY <3>1, <3>3, <4>2, <4>3, Zenon
    <3> QED
      BY <3>2, <3>3
  <2>2. h = [i \in 0 .. n |-> h[i]]
    OBVIOUS
  <2> HIDE DEF h
  <2> QED
    BY <2>1, <2>2, Zenon
<1>8. P(s)
  <2> HIDE DEF P, h
  <2> QED
    BY <1>7, Zenon
<1> HIDE DEF s
<1>9. ASSUME NEW i \in 0 .. n PROVE s[i] = IF i = 0 THEN first ELSE Then(s[i - 1], calls[i])
  BY <1>8, Zenon
<1>10. s[0] = first
  <2>1. 0 \in 0 .. n
    BY <1>2
  <2> QED
    BY <1>9, <2>1, Zenon
<1>11. ASSUME NEW i \in 1 .. n PROVE s[i] = Then(s[i - 1], calls[i])
  <2>1. i \in 0 .. n /\ i # 0
    BY <1>2
  <2> QED
    BY <1>9, <2>1, Zenon
<1> HIDE DEF P
<1>12. IsChain(s, first, calls, n)
  BY <1>1, <1>10, <1>11, Zenon DEF IsChain
<1> QED
  BY <1>12, Zenon DEF n

(* What the calls of decode() have read, call by call. *)
IsTurn(g, calls, p, n) ==
  /\ InTurn(calls, p) = g[n]
  /\ g[0] = Got(<<>>, p)
  /\ \A i \in 1 .. n : g[i] = IF g[i - 1].ok
       THEN AndThen(g[i - 1], calls[i][g[i - 1].to]) ELSE g[i - 1]

LEMMA InTurnSteps ==
  ASSUME NEW calls, NEW p, Len(calls) \in Nat
  PROVE  \E g : IsTurn(g, calls, p, Len(calls))
<1> DEFINE n == Len(calls)
           P(f) == f = [i \in 0 .. n |-> IF i = 0 THEN Got(<<>>, p) ELSE IF f[i - 1].ok
             THEN AndThen(f[i - 1], calls[i][f[i - 1].to]) ELSE f[i - 1]]
           s == CHOOSE h : P(h)
           Partial(j, f) == /\ f[0] = Got(<<>>, p)
                            /\ \A i \in 1 .. j : f[i] = IF f[i - 1].ok
                                 THEN AndThen(f[i - 1], calls[i][f[i - 1].to]) ELSE f[i - 1]
           T == {j \in 0 .. n : \E f : Partial(j, f)}
<1>1. InTurn(calls, p) = s[n]
  BY Zenon DEF InTurn, OnSuccess
<1> HIDE DEF n
<1>2. n \in Nat
  BY DEF n
<1>3. 0 \in T
  <2> DEFINE f == [i \in {0} |-> Got(<<>>, p)]
  <2>1. f[0] = Got(<<>>, p)
    OBVIOUS
  <2>2. 1 .. 0 = {} /\ 0 \in 0 .. n
    BY <1>2
  <2> HIDE DEF f
  <2>3. Partial(0, f)
    BY <2>1, <2>2
  <2> HIDE DEF Partial
  <2> QED
    BY <2>2, <2>3
<1>4. ASSUME NEW j \in 1 .. n, j - 1 \in T PROVE j \in T
  <2>1. PICK f : Partial(j - 1, f)
    BY <1>4
  <2> DEFINE x == IF f[j - 1].ok THEN AndThen(f[j - 1], calls[j][f[j - 1].to]) ELSE f[j - 1]
             g == [i \in 0 .. j |-> IF i = j THEN x ELSE f[i]]
  <2> HIDE DEF x
  <2>2. g[j] = x /\ \A i \in 0 .. j - 1 : g[i] = f[i]
    BY <1>2
  <2> HIDE DEF g
  <2>3. j - 1 \in 0 .. j - 1 /\ 0 \in 0 .. j - 1
    BY <1>2
  <2>4. g[0] = Got(<<>>, p)
    BY <2>1, <2>2, <2>3, Zenon
  <2>5. g[j] = IF g[j - 1].ok THEN AndThen(g[j - 1], calls[j][g[j - 1].to]) ELSE g[j - 1]
    <3>1. g[j - 1] = f[j - 1]
      BY <2>2, <2>3, Zenon
    <3> QED
      BY <2>2, <3>1, Zenon DEF x
  <2>6. ASSUME NEW i \in 1 .. j PROVE g[i] = IF g[i - 1].ok
                 THEN AndThen(g[i - 1], calls[i][g[i - 1].to]) ELSE g[i - 1]
    <3>1. CASE i = j
      BY <2>5, <3>1, Zenon
    <3>2. CASE i # j
      <4>1. i \in 1 .. j - 1 /\ i \in 0 .. j - 1 /\ i - 1 \in 0 .. j - 1
        BY <1>2, <3>2
      <4>2. f[i] = IF f[i - 1].ok THEN AndThen(f[i - 1], calls[i][f[i - 1].to]) ELSE f[i - 1]
        BY <2>1, <4>1, Zenon
      <4>3. g[i] = f[i] /\ g[i - 1] = f[i - 1]
        BY <2>2, <4>1, Zenon
      <4> QED
        BY <4>2, <4>3, Zenon
    <3> QED
      BY <3>1, <3>2
  <2>7. Partial(j, g)
    BY <2>4, <2>6, Zenon
  <2> HIDE DEF Partial
  <2>8. j \in 0 .. n
    BY <1>2
  <2> QED
    BY <2>7, <2>8
<1>5. n \in T
  <2> HIDE DEF T
  <2>1. \A i \in 0 .. n : i \in T
    BY <1>2, <1>3, <1>4, Ascent
  <2> QED
    BY <1>2, <2>1
<1>6. PICK f : Partial(n, f)
  BY <1>5
<1> DEFINE h == [i \in 0 .. n |-> f[i]]
<1>7. P(h)
  <2>1. ASSUME NEW i \in 0 .. n PROVE h[i] = IF i = 0 THEN Got(<<>>, p) ELSE IF h[i - 1].ok
                 THEN AndThen(h[i - 1], calls[i][h[i - 1].to]) ELSE h[i - 1]
    <3>1. h[i] = f[i]
      OBVIOUS
    <3>2. CASE i = 0
      BY <1>6, <3>1, <3>2, Zenon
    <3>3. CASE i # 0
      <4>1. i \in 1 .. n /\ i - 1 \in 0 .. n
        BY <1>2, <3>3
      <4>2. h[i - 1] = f[i - 1]
        BY <4>1
      <4>3. f[i] = IF f[i - 1].ok THEN AndThen(f[i - 1], calls[i][f[i - 1].to]) ELSE f[i - 1]
        BY <1>6, <4>1, Zenon
      <4> HIDE DEF h
      <4> QED
        BY <3>1, <3>3, <4>2, <4>3, Zenon
    <3> QED
      BY <3>2, <3>3
  <2>2. h = [i \in 0 .. n |-> h[i]]
    OBVIOUS
  <2> HIDE DEF h
  <2> QED
    BY <2>1, <2>2, Zenon
<1>8. P(s)
  <2> HIDE DEF P, h
  <2> QED
    BY <1>7, Zenon
<1> HIDE DEF s
<1>9. ASSUME NEW i \in 0 .. n PROVE s[i] = IF i = 0 THEN Got(<<>>, p) ELSE IF s[i - 1].ok
               THEN AndThen(s[i - 1], calls[i][s[i - 1].to]) ELSE s[i - 1]
  BY <1>8, Zenon
<1>10. s[0] = Got(<<>>, p)
  <2>1. 0 \in 0 .. n
    BY <1>2
  <2> QED
    BY <1>9, <2>1, Zenon
<1>11. ASSUME NEW i \in 1 .. n PROVE s[i] = IF s[i - 1].ok
                THEN AndThen(s[i - 1], calls[i][s[i - 1].to]) ELSE s[i - 1]
  <2>1. i \in 0 .. n /\ i # 0
    BY <1>2
  <2> QED
    BY <1>9, <2>1, Zenon
<1> HIDE DEF P
<1>12. IsTurn(s, calls, p, n)
  BY <1>1, <1>10, <1>11, Zenon DEF IsTurn
<1> QED
  BY <1>12, Zenon DEF n

(* Two calls succeed only if both do. *)
LEMMA ThenOk ==
  ASSUME NEW a, NEW b, Encoded(a), Encoded(b), data \in Seq(Byte)
  PROVE  Encoded(Then(a, b)) /\ (Then(a, b).ok => a.ok /\ b.ok)
<1>1. CASE a.ok
  <2>1. 0 \in Nat
    OBVIOUS
  <2> QED
    BY <1>1, <2>1, ThenEncoded, Zenon
<1>2. CASE ~a.ok
  BY <1>2, ThenStops, Zenon
<1> QED
  BY <1>1, <1>2

(* A chain of calls appends bytes. *)
LEMMA ChainEncoded ==
  ASSUME NEW first, Encoded(first), NEW calls, Len(calls) \in Nat, data \in Seq(Byte),
         \A i \in 1 .. Len(calls) : Encoded(calls[i])
  PROVE  Encoded(Chain(first, calls))
<1>chain. PICK g : IsChain(g, first, calls, Len(calls))
  BY ChainSteps, Zenon
<1>1. /\ Chain(first, calls) = g[Len(calls)]
      /\ g[0] = first
      /\ \A i \in 1 .. Len(calls) : g[i] = Then(g[i - 1], calls[i])
  BY <1>chain, Zenon DEF IsChain
<1> DEFINE T == {i \in 0 .. Len(calls) : Encoded(g[i])}
<1>2. 0 \in T
  BY <1>1
<1>3. ASSUME NEW i \in 1 .. Len(calls), i - 1 \in T PROVE i \in T
  <2>1. Encoded(g[i - 1]) /\ Encoded(calls[i])
    BY <1>3
  <2>2. Encoded(Then(g[i - 1], calls[i]))
    BY <2>1, ThenOk, Zenon
  <2>3. Encoded(g[i])
    BY <1>1, <2>2, Zenon
  <2> QED
    BY <2>3
<1>4. Len(calls) \in T
  <2> HIDE DEF T
  <2>1. \A i \in 0 .. Len(calls) : i \in T
    BY <1>2, <1>3, Ascent
  <2> QED
    BY <2>1
<1> QED
  BY <1>1, <1>4

Prefix(x, n) == [k \in 1 .. n |-> x[k]]

(* The values that have been read, one more at a time. *)
LEMMA PrefixStep ==
  ASSUME NEW x, NEW n \in Nat
  PROVE  Prefix(x, 0) = <<>> /\ (n # 0 => Append(Prefix(x, n - 1), x[n]) = Prefix(x, n))
<1>1. Prefix(x, 0) = <<>>
  BY DEF Prefix
<1>2. ASSUME n # 0 PROVE Append(Prefix(x, n - 1), x[n]) = Prefix(x, n)
  <2> DEFINE S == {x[k] : k \in 1 .. n}
             a == Prefix(x, n - 1)
             b == Prefix(x, n)
  <2>1. a = [k \in 1 .. n - 1 |-> x[k]] /\ b = [k \in 1 .. n |-> x[k]]
    BY DEF Prefix
  <2>2. \A k \in 1 .. n : x[k] \in S
    OBVIOUS
  <2> HIDE DEF S, a, b
  <2>3. n - 1 \in Nat
    BY <1>2
  <2>4. a \in [1 .. n - 1 -> S] /\ b \in [1 .. n -> S] /\ x[n] \in S
    BY <1>2, <2>1, <2>2
  <2>5. a \in Seq(S) /\ Len(a) = n - 1
    <3>1. a \in Seq(S)
      BY <2>3, <2>4
    <3>2. Len(a) = n - 1
      BY <2>1, <2>3, <3>1
    <3> QED
      BY <3>1, <3>2
  <2>6. Append(a, x[n]) = [k \in 1 .. n |-> IF k = n THEN x[n] ELSE a[k]]
    BY <2>3, <2>4, <2>5
  <2>7. \A k \in 1 .. n : (IF k = n THEN x[n] ELSE a[k]) = x[k]
    BY <2>1
  <2>8. Append(a, x[n]) = b
    BY <2>1, <2>6, <2>7
  <2> QED
    BY <2>8 DEF a, b
<1> QED
  BY <1>1, <1>2

(* Reads one after the other stay inside of the buffer when each of them   *)
(* does.                                                                   *)
LEMMA TurnBounded ==
  ASSUME NEW reads, Len(reads) \in Nat, NEW p \in Nat, p <= Len(data), data \in Seq(Byte),
         \A i \in 1 .. Len(reads) : \A q \in 0 .. Len(data) : Bounded(reads[i][q], q)
  PROVE  Bounded(InTurn(reads, p), p)
<1>turn. PICK h : IsTurn(h, reads, p, Len(reads))
  BY InTurnSteps, Zenon
<1>1. /\ InTurn(reads, p) = h[Len(reads)]
      /\ h[0] = Got(<<>>, p)
      /\ \A i \in 1 .. Len(reads) :
           h[i] = IF h[i - 1].ok THEN AndThen(h[i - 1], reads[i][h[i - 1].to]) ELSE h[i - 1]
  BY <1>turn, Zenon DEF IsTurn
<1> DEFINE T == {i \in 0 .. Len(reads) : Bounded(h[i], p)}
<1>2. 0 \in T
  <2>1. p \in p .. Len(data)
    OBVIOUS
  <2>2. Bounded(h[0], p)
    BY <1>1, <2>1, GotBounded, Zenon
  <2> QED
    BY <2>2
<1>3. ASSUME NEW i \in 1 .. Len(reads), i - 1 \in T PROVE i \in T
  <2>1. Bounded(h[i - 1], p)
    BY <1>3
  <2> DEFINE q == h[i - 1].to
             c == reads[i][q]
  <2>2. q \in Nat /\ q <= Len(data) /\ q \in p .. Len(data) /\ \A next : Bounded(next, q)
          => Bounded(next, p)
    BY <2>1, BoundedInTurn, Zenon
  <2>3. Bounded(c, q)
    <3>1. q \in 0 .. Len(data)
      BY <2>2
    <3> QED
      BY <3>1, Zenon
  <2>4. Bounded(AndThen(h[i - 1], c), p)
    <3>1. CASE c.ok
      <4>1. AndThen(h[i - 1], c) = Got(Append(h[i - 1].value, c.value), c.to)
        BY <3>1, Zenon DEF AndThen
      <4>2. c.to \in q .. Len(data)
        BY <2>2, <2>3, BoundedInTurn, Zenon
      <4>3. Bounded(Got(Append(h[i - 1].value, c.value), c.to), q)
        BY <2>2, <4>2, GotBounded, Zenon
      <4> QED
        BY <2>2, <4>1, <4>3, Zenon
    <3>2. CASE ~c.ok
      <4>1. AndThen(h[i - 1], c) = c
        BY <3>2, Zenon DEF AndThen
      <4> QED
        BY <2>2, <2>3, <4>1, Zenon
    <3> QED
      BY <3>1, <3>2
  <2>5. Bounded(h[i], p)
    BY <1>1, <2>1, <2>4, Zenon
  <2> QED
    BY <2>5
<1>4. Len(reads) \in T
  <2> HIDE DEF T
  <2>1. \A i \in 0 .. Len(reads) : i \in T
    BY <1>2, <1>3, Ascent
  <2> QED
    BY <2>1
<1> QED
  BY <1>1, <1>4

(* Calls of decode() for what the calls of encode() have appended. *)
LEMMA TurnReads ==
  ASSUME NEW first, Encoded(first), first.ok, NEW calls, Len(calls) \in Nat,
         NEW reads, Len(reads) = Len(calls), NEW x, NEW p \in Nat, data \in Seq(Byte),
         \A i \in 1 .. Len(calls) : Encoded(calls[i]),
         \A i \in 1 .. Len(calls) :
           calls[i].ok => \A k \in 0 .. Len(data) : Reads(calls[i], reads[i][k], k, x[i]),
         Chain(first, calls).ok
  PROVE  LET e == Chain(first, calls)
             r == InTurn(reads, p + Len(first.bytes))
         IN /\ Holds(p, e.bytes) =>
                 Holds(p, first.bytes) /\ r = Got(Prefix(x, Len(calls)), p + Len(e.bytes))
            /\ /\ \A i \in 1 .. Len(calls) :
                    calls[i].ok => \A k \in 0 .. Len(data) : Refuses(calls[i], reads[i][k], k)
               /\ Breaks(p, e.bytes)
               => Breaks(p, first.bytes) \/ (Holds(p, first.bytes) /\ ~r.ok)
<1> DEFINE n == Len(calls)
           s == p + Len(first.bytes)
           R == \A i \in 1 .. Len(calls) :
                  calls[i].ok => \A k \in 0 .. Len(data) : Refuses(calls[i], reads[i][k], k)
<1>chain. PICK g : IsChain(g, first, calls, n)
  BY ChainSteps, Zenon
<1>1. /\ Chain(first, calls) = g[n]
      /\ g[0] = first
      /\ \A i \in 1 .. n : g[i] = Then(g[i - 1], calls[i])
  BY <1>chain, Zenon DEF IsChain
<1>turn. PICK h : IsTurn(h, reads, s, n)
  <2>1. n = Len(reads) /\ Len(reads) \in Nat
    OBVIOUS
  <2> HIDE DEF n, s
  <2>2. PICK h : IsTurn(h, reads, s, Len(reads))
    BY <2>1, InTurnSteps, Zenon
  <2> QED
    BY <2>1, <2>2, Zenon
<1>2. /\ InTurn(reads, s) = h[n]
      /\ h[0] = Got(<<>>, s)
      /\ \A i \in 1 .. n : h[i] = IF h[i - 1].ok THEN AndThen(h[i - 1], reads[i][h[i - 1].to])
                                                 ELSE h[i - 1]
  BY <1>turn, Zenon DEF IsTurn
<1> HIDE DEF n, s, R
<1>3. n \in Nat
  BY DEF n
<1> DEFINE A(i) == /\ Encoded(g[i])
                   /\ g[i].ok => /\ Holds(p, g[i].bytes) =>
                                      Holds(p, first.bytes)
                                        /\ h[i] = Got(Prefix(x, i), p + Len(g[i].bytes))
                                 /\ R /\ Breaks(p, g[i].bytes) =>
                                      Breaks(p, first.bytes) \/ (Holds(p, first.bytes) /\ ~h[i].ok)
           T == {i \in 0 .. n : A(i)}
<1>4. 0 \in T
  <2>1. Prefix(x, 0) = <<>>
    <3>1. 0 \in Nat
      OBVIOUS
    <3> QED
      BY <3>1, PrefixStep, Zenon
  <2>2. A(0)
    BY <1>1, <1>2, <2>1, Zenon DEF s
  <2> HIDE DEF A
  <2> QED
    BY <1>3, <2>2
<1>5. ASSUME NEW i \in 1 .. n, i - 1 \in T PROVE i \in T
  <2> DEFINE a == g[i - 1]
             c == calls[i]
             q == p + Len(a.bytes)
             r == h[i - 1]
             d == reads[i][r.to]
  <2>1. A(i - 1) /\ i \in Nat /\ i # 0 /\ i \in 0 .. n
    BY <1>3, <1>5
  <2>2. g[i] = Then(a, c) /\ h[i] = IF r.ok THEN AndThen(r, d) ELSE r
    BY <1>1, <1>2, Zenon
  <2>3. /\ Encoded(c)
        /\ c.ok => \A k \in 0 .. Len(data) : Reads(c, reads[i][k], k, x[i])
        /\ R /\ c.ok => \A k \in 0 .. Len(data) : Refuses(c, reads[i][k], k)
    BY Zenon DEF n, R
  <2>4. Append(Prefix(x, i - 1), x[i]) = Prefix(x, i)
    BY <2>1, PrefixStep, Zenon
  <2>5. d = reads[i][r.to]
    OBVIOUS
  <2> DEFINE y == Prefix(x, i - 1)
  <2>6. /\ Encoded(a)
        /\ a.ok => /\ Holds(p, a.bytes) => Holds(p, first.bytes) /\ r = Got(y, q)
                   /\ R /\ Breaks(p, a.bytes) =>
                          Breaks(p, first.bytes) \/ (Holds(p, first.bytes) /\ ~r.ok)
    BY <2>1, Zenon
  <2> HIDE DEF a, c, r, d, y, A
  <2>7. Encoded(Then(a, c)) /\ (Then(a, c).ok => a.ok /\ c.ok)
    BY <2>3, <2>6, ThenOk, Zenon
  <2>8. ASSUME Then(a, c).ok
        PROVE  /\ Holds(p, Then(a, c).bytes) =>
                    Holds(p, first.bytes) /\ h[i] = Got(Prefix(x, i), p + Len(Then(a, c).bytes))
               /\ R /\ Breaks(p, Then(a, c).bytes) =>
                    Breaks(p, first.bytes) \/ (Holds(p, first.bytes) /\ ~h[i].ok)
    <3>1. a.ok /\ c.ok
      BY <2>7, <2>8
    <3>2. Len(a.bytes) \in Nat
      BY <2>6 DEF Encoded
    <3>3. q \in Nat
      BY <3>2
    <3> HIDE DEF q
    <3>4. /\ p + Len(Then(a, c).bytes) = q + Len(c.bytes)
          /\ Holds(p, Then(a, c).bytes) => Holds(p, a.bytes) /\ Holds(q, c.bytes)
          /\ Breaks(p, Then(a, c).bytes) => Breaks(p, a.bytes)
               \/ (Holds(p, a.bytes) /\ Breaks(q, c.bytes))
      BY <2>3, <2>6, <3>1, ThenEncoded, Zenon DEF q
    <3>5. ASSUME Holds(p, Then(a, c).bytes)
          PROVE  Holds(p, first.bytes) /\ h[i] = Got(Prefix(x, i), p + Len(Then(a, c).bytes))
      <4>1. Holds(p, first.bytes) /\ r = Got(y, q) /\ Holds(q, c.bytes)
        BY <2>6, <3>1, <3>4, <3>5, Zenon
      <4>2. q \in 0 .. Len(data)
        BY <2>3, <3>3, <4>1, HeldInside DEF Encoded
      <4>3. r.ok /\ r.value = y /\ r.to = q
        BY <4>1, GotIt, Zenon
      <4>4. d = Got(x[i], q + Len(c.bytes))
        BY <2>3, <2>5, <3>1, <4>1, <4>2, <4>3, Zenon DEF Reads
      <4>5. d.ok /\ d.value = x[i] /\ d.to = q + Len(c.bytes)
        BY <4>4, GotIt, Zenon
      <4>6. AndThen(r, d) = Got(Append(y, x[i]), q + Len(c.bytes))
        BY <4>3, <4>5, Zenon DEF AndThen
      <4> QED
        BY <2>2, <2>4, <3>4, <4>1, <4>3, <4>6, Zenon DEF y
    <3>6. ASSUME R, Breaks(p, Then(a, c).bytes)
          PROVE  Breaks(p, first.bytes) \/ (Holds(p, first.bytes) /\ ~h[i].ok)
      <4>1. CASE Breaks(p, a.bytes)
        BY <2>2, <2>6, <3>1, <3>6, <4>1, Zenon
      <4>2. CASE Holds(p, a.bytes) /\ Breaks(q, c.bytes)
        <5>1. Holds(p, first.bytes) /\ r = Got(y, q)
          BY <2>6, <3>1, <4>2, Zenon
        <5>2. r.ok /\ r.to = q
          BY <5>1, GotIt, Zenon
        <5>3. q \in 0 .. Len(data)
          BY <3>3, <4>2 DEF Breaks
        <5>4. ~d.ok
          BY <2>3, <2>5, <3>1, <3>6, <4>2, <5>2, <5>3, Zenon DEF Refuses
        <5>5. AndThen(r, d) = d
          BY <5>4, Zenon DEF AndThen
        <5> QED
          BY <2>2, <5>1, <5>2, <5>4, <5>5, Zenon
      <4> QED
        BY <3>4, <3>6, <4>1, <4>2, Zenon
    <3> QED
      BY <3>5, <3>6, Zenon
  <2>9. A(i)
    BY <2>2, <2>7, <2>8, Zenon DEF A
  <2> QED
    BY <2>1, <2>9
<1>6. n \in T
  <2> HIDE DEF T
  <2>1. \A i \in 0 .. n : i \in T
    BY <1>3, <1>4, <1>5, Ascent
  <2> QED
    BY <1>3, <2>1
<1>7. A(n)
  BY <1>6
<1> QED
  BY <1>1, <1>2, <1>7, Zenon DEF n, s, R

-----------------------------------------------------------------------------
(* Arrays.                                                                 *)

(* A function from 1 .. n is a sequence of n elements. *)
LEMMA SequenceLength ==
  ASSUME NEW n \in Nat, NEW S, NEW f \in [1 .. n -> S]
  PROVE  f \in Seq(S) /\ Len(f) = n
<1>1. f = [i \in 1 .. n |-> f[i]] /\ \A i \in 1 .. n : f[i] \in S
  OBVIOUS
<1>2. f \in Seq(S)
  OBVIOUS
<1>3. Len(f) = n
  BY <1>1, <1>2
<1> QED
  BY <1>2, <1>3

(* The same for any integer, the length that an array announces. *)
LEMMA FunctionLength ==
  ASSUME NEW n \in Int, NEW f, f = [i \in 1 .. n |-> f[i]]
  PROVE  Len(f) = (IF n > 0 THEN n ELSE 0) /\ DOMAIN f = 1 .. n
<1> DEFINE S == {f[i] : i \in 1 .. n}
           m == IF n > 0 THEN n ELSE 0
<1>1. \A i \in 1 .. n : f[i] \in S
  OBVIOUS
<1>2. m \in Nat /\ 1 .. n = 1 .. m
  OBVIOUS
<1> HIDE DEF S, m
<1>3. f \in [1 .. m -> S]
  BY <1>1, <1>2
<1>4. Len(f) = m
  BY <1>2, <1>3, SequenceLength
<1>5. DOMAIN f = 1 .. n
  BY <1>2, <1>3
<1> QED
  BY <1>4, <1>5 DEF m

(* An array is read as it was encoded, and refused when it breaks off. *)
LEMMA ArrayCodec ==
  ASSUME NEW type, NEW s, IsSequence(s), HasWidth("qint32", Len(s)),
         \A i \in 1 .. Len(s) : IsField(type, s[i]), NEW p \in Nat, data \in Seq(Byte)
  PROVE  LET e == encodeArray(type, s)
             d == decodeArray(type, p)
             keeps == \A i \in 1 .. Len(s) : KeepsBytes(type, s[i])
             strict == \A i \in 1 .. Len(s) : NoQString(type, s[i])
         IN /\ Encoded(e)
            /\ e.ok => /\ keeps => Reads(e, d, p, [i \in DOMAIN s |-> ExpectedField(type, s[i])])
                       /\ keeps /\ strict => Refuses(e, d, p)
<1> DEFINE n == Len(s)
           first == EncodeNumber("qint32", n)
           calls == [i \in DOMAIN s |-> EncodeField(type, s[i])]
           reads == [i \in 1 .. n |-> [q \in 0 .. Len(data) |-> DecodeField(type, q)]]
           x == [i \in DOMAIN s |-> ExpectedField(type, s[i])]
           e == encodeArray(type, s)
           d == decodeArray(type, p)
           size == DecodeNumber("qint32", p)
           q == p + Len(first.bytes)
           r == InTurn(reads, q)
<1>1. n \in Nat /\ DOMAIN s = 1 .. n
  BY DEF IsSequence
<1>2. calls = [i \in 1 .. n |-> EncodeField(type, s[i])]
        /\ x = [i \in 1 .. n |-> ExpectedField(type, s[i])]
  BY <1>1
<1>3. e = Chain(first, calls)
  BY Zenon DEF encodeArray
<1>4. d = IF size.ok
          THEN InTurn([i \in 1 .. size.value |-> [k \in 0 .. Len(data) |-> DecodeField(type, k)]],
            size.to)
          ELSE size
  BY Zenon DEF decodeArray, OnSuccess
<1>5. Encoded(first) /\ first.ok /\ Reads(first, size, p, n) /\ Refuses(first, size, p)
  <2>1. "qint32" \in Numbers
    BY NumberTypes
  <2> QED
    BY <2>1, NumberCodec, Zenon
<1> HIDE DEF n, first, calls, x, e, d, size
<1>6. Len(calls) = n /\ \A i \in 1 .. n : calls[i] = EncodeField(type, s[i])
  <2>1. calls = [i \in 1 .. n |-> calls[i]] /\ \A i \in 1 .. n : calls[i] = EncodeField(type, s[i])
    BY <1>2
  <2>2. Len(calls) = n
    BY <1>1, <2>1, FunctionLength
  <2> QED
    BY <2>1, <2>2
<1>7. Len(reads) = n /\ \A i \in 1 .. n : \A k \in 0 .. Len(data) :
        reads[i][k] = DecodeField(type, k)
  <2>1. reads = [i \in 1 .. n |-> reads[i]]
        /\ \A i \in 1 .. n : \A k \in 0 .. Len(data) : reads[i][k] = DecodeField(type, k)
    OBVIOUS
  <2>2. Len(reads) = n
    BY <1>1, <2>1, FunctionLength
  <2> QED
    BY <2>1, <2>2
<1>8. x = Prefix(x, n) /\ \A i \in 1 .. n : x[i] = ExpectedField(type, s[i])
  BY <1>2 DEF Prefix
<1>9. \A i \in 1 .. n : IsField(type, s[i])
  BY Zenon DEF n
<1>10. \A k \in 0 .. Len(data) : k \in Nat
  OBVIOUS
<1>11. Holds(p, first.bytes) => d = InTurn(reads, q)
  <2>1. ASSUME Holds(p, first.bytes) PROVE d = InTurn(reads, q)
    <3> HIDE DEF reads, q
    <3>1. size = Got(n, q)
      BY <1>5, <2>1, Zenon DEF Reads, q
    <3>2. size.ok /\ size.value = n /\ size.to = q
      BY <3>1 DEF Got
    <3> QED
      BY <1>4, <3>2, Zenon DEF reads
  <2> QED
    BY <2>1
<1> HIDE DEF reads
<1>12. \A i \in 1 .. n : Encoded(calls[i])
  BY <1>6, <1>9, FieldCodec, Zenon
<1>13. Encoded(e)
  <2>1. n \in Nat /\ \A i \in 1 .. Len(calls) : Encoded(calls[i])
    BY <1>1, <1>6, <1>12
  <2> QED
    BY <1>3, <1>5, <1>6, <2>1, ChainEncoded
<1>14. ASSUME e.ok, \A i \in 1 .. n : KeepsBytes(type, s[i])
       PROVE  /\ Reads(e, d, p, x)
              /\ (\A i \in 1 .. n : NoQString(type, s[i])) => Refuses(e, d, p)
  <2>1. \A i \in 1 .. n :
          calls[i].ok => \A k \in 0 .. Len(data) : Reads(calls[i], reads[i][k], k, x[i])
    BY <1>6, <1>7, <1>8, <1>9, <1>10, <1>14, FieldCodec, Zenon
  <2>2. Len(calls) \in Nat /\ Len(reads) = Len(calls) /\ n = Len(calls)
    BY <1>1, <1>6, <1>7
  <2>3. Chain(first, calls).ok
    BY <1>3, <1>14
  <2>4. /\ Holds(p, e.bytes) => Holds(p, first.bytes) /\ r = Got(Prefix(x, n), p + Len(e.bytes))
        /\ /\ \A i \in 1 .. n :
                calls[i].ok => \A k \in 0 .. Len(data) : Refuses(calls[i], reads[i][k], k)
           /\ Breaks(p, e.bytes)
           => Breaks(p, first.bytes) \/ (Holds(p, first.bytes) /\ ~r.ok)
    BY <1>3, <1>5, <1>12, <2>1, <2>2, <2>3, TurnReads
  <2> HIDE DEF r
  <2>5. Holds(p, first.bytes) => d = r
    BY <1>11 DEF r
  <2>6. Reads(e, d, p, x)
    BY <1>8, <2>4, <2>5, Zenon DEF Reads
  <2>7. ASSUME \A i \in 1 .. n : NoQString(type, s[i]) PROVE Refuses(e, d, p)
    <3>1. \A i \in 1 .. n :
            calls[i].ok => \A k \in 0 .. Len(data) : Refuses(calls[i], reads[i][k], k)
      BY <1>6, <1>7, <1>9, <1>10, <1>14, <2>7, FieldCodec, Zenon
    <3>2. Breaks(p, e.bytes) => Breaks(p, first.bytes) \/ ~d.ok
      BY <2>4, <2>5, <3>1, Zenon
    <3>3. Breaks(p, first.bytes) => ~d.ok
      <4>1. Breaks(p, first.bytes) => ~size.ok
        BY <1>5, Zenon DEF Refuses
      <4>2. ~size.ok => d = size
        BY <1>4, Zenon
      <4> QED
        BY <4>1, <4>2, Zenon
    <3> QED
      BY <3>2, <3>3, Zenon DEF Refuses
  <2> QED
    BY <2>6, <2>7
<1> HIDE DEF r
<1>15. /\ Encoded(e)
       /\ e.ok => /\ (\A i \in 1 .. n : KeepsBytes(type, s[i])) => Reads(e, d, p, x)
                  /\ (\A i \in 1 .. n : KeepsBytes(type, s[i]))
                       /\ (\A i \in 1 .. n : NoQString(type, s[i]))
                     => Refuses(e, d, p)
  BY <1>13, <1>14, Zenon
<1> QED
  BY <1>15, Zenon DEF n, e, d, x

(* An array of any announced length is read inside of the buffer. *)
LEMMA ArrayBounded ==
  ASSUME NEW type \in FieldTypes, NEW p \in Nat, p <= Len(data), data \in Seq(Byte)
  PROVE  Bounded(decodeArray(type, p), p)
<1> DEFINE d == decodeArray(type, p)
           size == DecodeNumber("qint32", p)
           n == size.value
           reads == [i \in 1 .. n |-> [k \in 0 .. Len(data) |-> DecodeField(type, k)]]
           r == InTurn(reads, size.to)
<1>1. d = IF size.ok THEN r ELSE size
  BY Zenon DEF decodeArray, OnSuccess
<1>2. Bounded(size, p) /\ (size.ok => n \in Int)
  <2>1. "qint32" \in Numbers
    BY NumberTypes
  <2> QED
    BY <2>1, NumberBounded, Zenon
<1> HIDE DEF d, size, n
<1>3. ASSUME size.ok PROVE Bounded(r, p)
  <2>1. n \in Int
    BY <1>2, <1>3
  <2>2. size.to \in Nat /\ size.to <= Len(data) /\ \A next : Bounded(next, size.to)
          => Bounded(next, p)
    BY <1>2, BoundedInTurn, Zenon
  <2>3. reads = [i \in 1 .. n |-> reads[i]]
        /\ \A i \in 1 .. n : \A k \in 0 .. Len(data) : reads[i][k] = DecodeField(type, k)
    OBVIOUS
  <2>4. Len(reads) = (IF n > 0 THEN n ELSE 0) /\ DOMAIN reads = 1 .. n
    BY <2>1, <2>3, FunctionLength
  <2> HIDE DEF reads
  <2>5. Len(reads) \in Nat /\ \A i \in 1 .. Len(reads) : i \in 1 .. n
    BY <2>1, <2>4
  <2>6. \A k \in 0 .. Len(data) : Bounded(DecodeField(type, k), k)
    <3>1. \A k \in 0 .. Len(data) : k \in Nat /\ k <= Len(data)
      OBVIOUS
    <3> QED
      BY <3>1, FieldBounded, Zenon
  <2>7. \A i \in 1 .. Len(reads) : \A k \in 0 .. Len(data) : Bounded(reads[i][k], k)
    BY <2>3, <2>5, <2>6, Zenon
  <2>8. Bounded(InTurn(reads, size.to), size.to)
    BY <2>2, <2>5, <2>7, TurnBounded
  <2> QED
    BY <2>2, <2>8, Zenon
<1> HIDE DEF r
<1>4. Bounded(d, p)
  BY <1>1, <1>2, <1>3, Zenon
<1> QED
  BY <1>4, Zenon DEF d

-----------------------------------------------------------------------------
(* What a structure is made of: fields and arrays of them.                 *)

AnyTypes == FieldTypes \cup DOMAIN ElementOf

AreFields(type, v) ==
  IF type \in DOMAIN ElementOf THEN \A i \in DOMAIN v : IsField(ElementOf[type], v[i])
    ELSE IsField(type, v)

AreKept(type, v) ==
  IF type \in DOMAIN ElementOf THEN \A i \in DOMAIN v : KeepsBytes(ElementOf[type], v[i])
    ELSE KeepsBytes(type, v)

AreStrict(type, v) ==
  IF type \in DOMAIN ElementOf THEN \A i \in DOMAIN v : NoQString(ElementOf[type], v[i])
    ELSE NoQString(type, v)

(* What is said of each element of an array, without the operator as a     *)
(* parameter.                                                              *)
LEMMA ForAny ==
  ASSUME NEW type, NEW v
  PROVE  /\ ForElements(IsField, type, v) <=> AreFields(type, v)
         /\ ForElements(KeepsBytes, type, v) <=> AreKept(type, v)
         /\ ForElements(NoQString, type, v) <=> AreStrict(type, v)
BY Zenon DEF ForElements, AreFields, AreKept, AreStrict

(* The elements of an array are fields. *)
LEMMA ElementTypes == \A type \in DOMAIN ElementOf : ElementOf[type] \in FieldTypes
<1>1. {"double", "quint32"} \subseteq Numbers
  BY NumberTypes
<1> QED
  BY <1>1 DEF ElementOf, FieldTypes, OtherTypes

(* A field or an array is read inside of the buffer. *)
LEMMA AnyBounded ==
  ASSUME NEW type \in AnyTypes, NEW p \in Nat, p <= Len(data), data \in Seq(Byte)
  PROVE  Bounded(DecodeAny(type, p), p)
<1>1. CASE type \in DOMAIN ElementOf
  <2>1. DecodeAny(type, p) = decodeArray(ElementOf[type], p) /\ ElementOf[type] \in FieldTypes
    BY <1>1, ElementTypes, Zenon DEF DecodeAny
  <2> QED
    BY <2>1, ArrayBounded, Zenon
<1>2. CASE type \notin DOMAIN ElementOf
  <2>1. DecodeAny(type, p) = DecodeField(type, p) /\ type \in FieldTypes
    BY <1>2, Zenon DEF DecodeAny, AnyTypes
  <2> QED
    BY <2>1, FieldBounded, Zenon
<1> QED
  BY <1>1, <1>2

(* A field or an array is read as it was encoded, and refused when it      *)
(* breaks off.                                                             *)
LEMMA AnyCodec ==
  ASSUME NEW type, NEW v, IsElements(type, v), AreFields(type, v), NEW p \in Nat, data \in Seq(Byte)
  PROVE  LET e == EncodeAny(type, v)
             d == DecodeAny(type, p)
         IN /\ Encoded(e)
            /\ e.ok => /\ AreKept(type, v) => Reads(e, d, p, ExpectedElements(type, v))
                       /\ AreKept(type, v) /\ AreStrict(type, v) => Refuses(e, d, p)
<1>1. CASE type \in DOMAIN ElementOf
  <2> DEFINE t == ElementOf[type]
  <2>1. EncodeAny(type, v) = encodeArray(t, v) /\ DecodeAny(type, p) = decodeArray(t, p)
        /\ ExpectedElements(type, v) = [i \in DOMAIN v |-> ExpectedField(t, v[i])]
    BY <1>1, Zenon DEF EncodeAny, DecodeAny, ExpectedElements
  <2>2. IsSequence(v) /\ HasWidth("qint32", Len(v))
    BY <1>1 DEF IsElements
  <2>3. DOMAIN v = 1 .. Len(v)
    BY <2>2 DEF IsSequence
  <2>4. /\ \A i \in 1 .. Len(v) : IsField(t, v[i])
        /\ AreKept(type, v) => \A i \in 1 .. Len(v) : KeepsBytes(t, v[i])
        /\ AreStrict(type, v) => \A i \in 1 .. Len(v) : NoQString(t, v[i])
    BY <1>1, <2>3, Zenon DEF AreFields, AreKept, AreStrict
  <2> HIDE DEF t
  <2> DEFINE e == encodeArray(t, v)
             d == decodeArray(t, p)
             keeps == \A i \in 1 .. Len(v) : KeepsBytes(t, v[i])
             strict == \A i \in 1 .. Len(v) : NoQString(t, v[i])
             x == [i \in DOMAIN v |-> ExpectedField(t, v[i])]
  <2>5. /\ Encoded(e)
        /\ e.ok => /\ keeps => Reads(e, d, p, x)
                   /\ keeps /\ strict => Refuses(e, d, p)
    BY <2>2, <2>4, ArrayCodec
  <2>6. (AreKept(type, v) => keeps) /\ (AreStrict(type, v) => strict)
    BY <2>4, Zenon
  <2> HIDE DEF e, d, keeps, strict, x
  <2>7. /\ Encoded(e)
        /\ e.ok => /\ AreKept(type, v) => Reads(e, d, p, x)
                   /\ AreKept(type, v) /\ AreStrict(type, v) => Refuses(e, d, p)
    BY <2>5, <2>6, Zenon
  <2> QED
    BY <2>1, <2>7, Zenon DEF e, d, x
<1>2. CASE type \notin DOMAIN ElementOf
  <2>1. EncodeAny(type, v) = EncodeField(type, v) /\ DecodeAny(type, p) = DecodeField(type, p)
        /\ ExpectedElements(type, v) = ExpectedField(type, v)
    BY <1>2, Zenon DEF EncodeAny, DecodeAny, ExpectedElements
  <2>2. IsField(type, v) /\ (AreKept(type, v) => KeepsBytes(type, v))
        /\ (AreStrict(type, v) => NoQString(type, v))
    BY <1>2, Zenon DEF AreFields, AreKept, AreStrict
  <2> QED
    BY <2>1, <2>2, FieldCodec, Zenon
<1> QED
  BY <1>1, <1>2

-----------------------------------------------------------------------------
(* Structures.                                                             *)

(* A structure is made of fields and arrays. *)
LEMMA StructureTypes ==
  ASSUME NEW type \in DOMAIN Fields
  PROVE  /\ Len(Fields[type]) \in Nat
         /\ DOMAIN Fields[type] = 1 .. Len(Fields[type])
         /\ \A i \in 1 .. Len(Fields[type]) : Fields[type][i] \in AnyTypes
<1>1. DOMAIN Fields =
        {"QOpcUaQualifiedName", "QOpcUaEUInformation", "QOpcUaRange", "QOpcUaComplexNumber",
         "QOpcUaDoubleComplexNumber", "QOpcUaXValue", "QOpcUaAxisInformation", "QOpcUaArgument",
         "QOpcUaApplicationRecordDataType"}
  BY DEF Fields
<1>2. {"quint16", "qint32", "quint32", "float", "double", "QString", "NodeId",
        "QOpcUaLocalizedText",
       "QList double", "QList quint32", "QList QString",
         "QList QOpcUaLocalizedText"} \subseteq AnyTypes
  BY NumberTypes DEF AnyTypes, FieldTypes, OtherTypes, ElementOf
<1> DEFINE Parts == {"quint16", "qint32", "quint32", "float", "double", "QString", "NodeId",
               "QOpcUaLocalizedText",
       "QList double", "QList quint32", "QList QString", "QList QOpcUaLocalizedText"}
           f == Fields[type]
<1>3. f \in Seq(Parts)
  <2>1. Fields["QOpcUaQualifiedName"] \in Seq(Parts)
    BY DEF Fields
  <2>2. Fields["QOpcUaEUInformation"] \in Seq(Parts)
    BY DEF Fields
  <2>3. Fields["QOpcUaRange"] \in Seq(Parts)
    BY DEF Fields
  <2>4. Fields["QOpcUaComplexNumber"] \in Seq(Parts)
    BY DEF Fields
  <2>5. Fields["QOpcUaDoubleComplexNumber"] \in Seq(Parts)
    BY DEF Fields
  <2>6. Fields["QOpcUaXValue"] \in Seq(Parts)
    BY DEF Fields
  <2>7. Fields["QOpcUaAxisInformation"] \in Seq(Parts)
    BY DEF Fields
  <2>8. Fields["QOpcUaArgument"] \in Seq(Parts)
    BY DEF Fields
  <2>9. Fields["QOpcUaApplicationRecordDataType"] \in Seq(Parts)
    BY DEF Fields
  <2> QED
    BY <1>1, <2>1, <2>2, <2>3, <2>4, <2>5, <2>6, <2>7, <2>8, <2>9
<1> HIDE DEF Parts, f
<1>4. Len(f) \in Nat /\ DOMAIN f = 1 .. Len(f) /\ \A i \in 1 .. Len(f) : f[i] \in Parts
  BY <1>3
<1>5. Parts \subseteq AnyTypes
  BY <1>2 DEF Parts
<1> QED
  BY <1>4, <1>5 DEF f

(* A structure is read inside of the buffer. *)
LEMMA StructureBounded ==
  ASSUME NEW type \in DOMAIN Fields, NEW p \in Nat, p <= Len(data), data \in Seq(Byte)
  PROVE  Bounded(DecodeStructure(type, p), p)
<1> DEFINE n == Len(Fields[type])
           reads == [i \in DOMAIN Fields[type]
               |-> [k \in 0 .. Len(data) |-> DecodeAny(Fields[type][i], k)]]
<1>1. DecodeStructure(type, p) = InTurn(reads, p)
  BY Zenon DEF DecodeStructure
<1>2. n \in Nat /\ DOMAIN Fields[type] = 1 .. n /\ \A i \in 1 .. n : Fields[type][i] \in AnyTypes
  BY StructureTypes
<1> HIDE DEF n
<1>3. reads = [i \in 1 .. n |-> [k \in 0 .. Len(data) |-> DecodeAny(Fields[type][i], k)]]
  BY <1>2, Zenon
<1> HIDE DEF reads
<1>4. reads = [i \in 1 .. n |-> reads[i]]
      /\ \A i \in 1 .. n : \A k \in 0 .. Len(data) : reads[i][k] = DecodeAny(Fields[type][i], k)
  BY <1>3
<1>5. Len(reads) = n
  BY <1>2, <1>4, FunctionLength
<1>6. \A k \in 0 .. Len(data) : k \in Nat /\ k <= Len(data)
  OBVIOUS
<1>7. \A i \in 1 .. n : \A k \in 0 .. Len(data) : Bounded(reads[i][k], k)
  BY <1>2, <1>4, <1>6, AnyBounded, Zenon
<1>8. Len(reads) \in Nat /\ \A i \in 1 .. Len(reads) : \A k \in 0 .. Len(data) :
        Bounded(reads[i][k], k)
  BY <1>2, <1>5, <1>7
<1>9. Bounded(InTurn(reads, p), p)
  BY <1>8, TurnBounded
<1> QED
  BY <1>1, <1>9, Zenon

(* A structure is read as it was encoded, and refused when it breaks off. *)
LEMMA StructureCodec ==
  ASSUME NEW type \in DOMAIN Fields, NEW v, IsSequence(v), Len(v) = Len(Fields[type]),
         \A i \in DOMAIN v : IsElements(Fields[type][i], v[i]) /\ AreFields(Fields[type][i], v[i]),
         NEW p \in Nat, data \in Seq(Byte)
  PROVE  LET e == EncodeStructure(type, v)
             d == DecodeStructure(type, p)
             keeps == \A i \in DOMAIN v : AreKept(Fields[type][i], v[i])
             strict == \A i \in DOMAIN v : AreStrict(Fields[type][i], v[i])
         IN /\ Encoded(e)
            /\ e.ok => /\ keeps => Reads(e, d, p,
                            [i \in DOMAIN v |-> ExpectedElements(Fields[type][i], v[i])])
                       /\ keeps /\ strict => Refuses(e, d, p)
<1> DEFINE n == Len(v)
           first == Good(<<>>)
           t == Fields[type]
           calls == [i \in DOMAIN v |-> EncodeAny(t[i], v[i])]
           reads == [i \in DOMAIN t |-> [k \in 0 .. Len(data) |-> DecodeAny(t[i], k)]]
           x == [i \in DOMAIN v |-> ExpectedElements(t[i], v[i])]
           e == EncodeStructure(type, v)
           d == DecodeStructure(type, p)
           q == p + Len(first.bytes)
           r == InTurn(reads, q)
<1>1. n \in Nat /\ DOMAIN v = 1 .. n /\ DOMAIN t = 1 .. n
  BY StructureTypes DEF IsSequence
<1>2. e = Chain(first, calls) /\ d = InTurn(reads, p)
  BY Zenon DEF EncodeStructure, DecodeStructure
<1>3. \A i \in 1 .. n : IsElements(t[i], v[i]) /\ AreFields(t[i], v[i])
  BY <1>1
<1> HIDE DEF t, n
<1>4. /\ calls = [i \in 1 .. n |-> EncodeAny(t[i], v[i])]
           /\ x = [i \in 1 .. n |-> ExpectedElements(t[i], v[i])]
      /\ reads = [i \in 1 .. n |-> [k \in 0 .. Len(data) |-> DecodeAny(t[i], k)]]
  BY <1>1
<1>5. Encoded(first) /\ first.ok /\ Len(first.bytes) = 0 /\ ~Breaks(p, first.bytes)
  <2>1. Encoded(first) /\ first.ok /\ Len(first.bytes) = 0
    BY NothingEncoded, Zenon
  <2>2. ~Breaks(p, first.bytes)
    BY NothingEncoded, Zenon
  <2> QED
    BY <2>1, <2>2
<1> HIDE DEF first
<1>6. q = p
  BY <1>5
<1> HIDE DEF calls, x, reads, e, d, q
<1>7. Len(calls) = n /\ \A i \in 1 .. n : calls[i] = EncodeAny(t[i], v[i])
  <2>1. calls = [i \in 1 .. n |-> calls[i]] /\ \A i \in 1 .. n : calls[i] = EncodeAny(t[i], v[i])
    BY <1>4
  <2>2. Len(calls) = n
    BY <1>1, <2>1, FunctionLength
  <2> QED
    BY <2>1, <2>2
<1>8. Len(reads) = n /\ \A i \in 1 .. n : \A k \in 0 .. Len(data) : reads[i][k] = DecodeAny(t[i], k)
  <2>1. reads = [i \in 1 .. n |-> reads[i]]
        /\ \A i \in 1 .. n : \A k \in 0 .. Len(data) : reads[i][k] = DecodeAny(t[i], k)
    BY <1>4
  <2>2. Len(reads) = n
    BY <1>1, <2>1, FunctionLength
  <2> QED
    BY <2>1, <2>2
<1>9. x = Prefix(x, n) /\ \A i \in 1 .. n : x[i] = ExpectedElements(t[i], v[i])
  BY <1>4 DEF Prefix
<1>10. \A k \in 0 .. Len(data) : k \in Nat
  OBVIOUS
<1>11. d = r
  BY <1>2, <1>6
<1> HIDE DEF r
<1>12. \A i \in 1 .. n : Encoded(calls[i])
  BY <1>3, <1>7, AnyCodec, Zenon
<1>13. Encoded(e)
  <2>1. Len(calls) \in Nat /\ \A i \in 1 .. Len(calls) : Encoded(calls[i])
    BY <1>1, <1>7, <1>12
  <2> QED
    BY <1>2, <1>5, <2>1, ChainEncoded
<1>14. ASSUME e.ok, \A i \in 1 .. n : AreKept(t[i], v[i])
       PROVE  /\ Reads(e, d, p, x)
              /\ (\A i \in 1 .. n : AreStrict(t[i], v[i])) => Refuses(e, d, p)
  <2>1. \A i \in 1 .. n :
          calls[i].ok => \A k \in 0 .. Len(data) : Reads(calls[i], reads[i][k], k, x[i])
    BY <1>3, <1>7, <1>8, <1>9, <1>10, <1>14, AnyCodec, Zenon
  <2>2. Len(calls) \in Nat /\ Len(reads) = Len(calls) /\ n = Len(calls)
    BY <1>1, <1>7, <1>8
  <2>3. Chain(first, calls).ok
    BY <1>2, <1>14
  <2>4. /\ Holds(p, e.bytes) => Holds(p, first.bytes) /\ r = Got(Prefix(x, n), p + Len(e.bytes))
        /\ /\ \A i \in 1 .. n :
                calls[i].ok => \A k \in 0 .. Len(data) : Refuses(calls[i], reads[i][k], k)
           /\ Breaks(p, e.bytes)
           => Breaks(p, first.bytes) \/ (Holds(p, first.bytes) /\ ~r.ok)
    BY <1>2, <1>5, <1>12, <2>1, <2>2, <2>3, TurnReads DEF r, q
  <2>5. Reads(e, d, p, x)
    BY <1>9, <1>11, <2>4, Zenon DEF Reads
  <2>6. ASSUME \A i \in 1 .. n : AreStrict(t[i], v[i]) PROVE Refuses(e, d, p)
    <3>1. \A i \in 1 .. n :
            calls[i].ok => \A k \in 0 .. Len(data) : Refuses(calls[i], reads[i][k], k)
      BY <1>3, <1>7, <1>8, <1>10, <1>14, <2>6, AnyCodec, Zenon
    <3>2. Breaks(p, e.bytes) => ~r.ok
      BY <1>5, <2>4, <3>1, Zenon
    <3> QED
      BY <1>11, <3>2, Zenon DEF Refuses
  <2> QED
    BY <2>5, <2>6
<1>15. /\ Encoded(e)
       /\ e.ok => /\ (\A i \in 1 .. n : AreKept(t[i], v[i])) => Reads(e, d, p, x)
                  /\ (\A i \in 1 .. n : AreKept(t[i], v[i]))
                       /\ (\A i \in 1 .. n : AreStrict(t[i], v[i]))
                     => Refuses(e, d, p)
  BY <1>13, <1>14, Zenon
<1> QED
  BY <1>1, <1>15, Zenon DEF e, d, x, t

-----------------------------------------------------------------------------
(* Any value.                                                              *)

(* What is said of each part of a value, without the operator as a         *)
(* parameter.                                                              *)
LEMMA PartsOf ==
  ASSUME NEW type, NEW v
  PROVE  /\ type \in DOMAIN Fields =>
              /\ ForParts(IsField, type, v) => \A i \in DOMAIN v : AreFields(Fields[type][i], v[i])
              /\ Keeps(type, v) => \A i \in DOMAIN v : AreKept(Fields[type][i], v[i])
              /\ Strict(type, v) => Keeps(type, v) /\ \A i \in DOMAIN v :
                   AreStrict(Fields[type][i], v[i])
         /\ type \notin DOMAIN Fields =>
              /\ ForParts(IsField, type, v) => AreFields(type, v)
              /\ Keeps(type, v) => AreKept(type, v)
              /\ Strict(type, v) => Keeps(type, v) /\ AreStrict(type, v)
<1>1. CASE type \in DOMAIN Fields
  <2>1. ForParts(IsField, type, v) => \A i \in DOMAIN v : AreFields(Fields[type][i], v[i])
    BY <1>1, Zenon DEF ForParts, ForElements, AreFields
  <2>2. Keeps(type, v) => \A i \in DOMAIN v : AreKept(Fields[type][i], v[i])
    BY <1>1, Zenon DEF Keeps, ForParts, ForElements, AreKept
  <2>3. ForParts(NoQString, type, v) => \A i \in DOMAIN v : AreStrict(Fields[type][i], v[i])
    BY <1>1, Zenon DEF ForParts, ForElements, AreStrict
  <2>4. Strict(type, v) <=> ForParts(NoQString, type, v) /\ Keeps(type, v)
    BY Zenon DEF Strict
  <2> QED
    BY <1>1, <2>1, <2>2, <2>3, <2>4, Zenon
<1>2. CASE type \notin DOMAIN Fields
  <2>1. ForParts(IsField, type, v) => AreFields(type, v)
    BY <1>2, Zenon DEF ForParts, ForElements, AreFields
  <2>2. Keeps(type, v) => AreKept(type, v)
    BY <1>2, Zenon DEF Keeps, ForParts, ForElements, AreKept
  <2>3. ForParts(NoQString, type, v) => AreStrict(type, v)
    BY <1>2, Zenon DEF ForParts, ForElements, AreStrict
  <2>4. Strict(type, v) <=> ForParts(NoQString, type, v) /\ Keeps(type, v)
    BY Zenon DEF Strict
  <2> QED
    BY <1>2, <2>1, <2>2, <2>3, <2>4, Zenon
<1> QED
  BY <1>1, <1>2

(* An encoder with a buffer of its own appends all or nothing. *)
LEMMA AtomicallyEncoded ==
  ASSUME NEW e, Encoded(e)
  PROVE  Encoded(Atomically(e)) /\ (Atomically(e).ok => e.ok /\ Atomically(e) = e)
<1>1. CASE e.ok
  BY <1>1 DEF Atomically
<1>2. CASE ~e.ok
  <2>1. Atomically(e) = Bad(<<>>)
    BY <1>2, Zenon DEF Atomically
  <2> QED
    BY <2>1, RefusedEncoded, Zenon
<1> QED
  BY <1>1, <1>2

(* decode() returns what encode() was given, for any type and any value of *)
(* it, from any position that holds the bytes, and fails where they break  *)
(* off.                                                                    *)
LEMMA ValueCodec ==
  ASSUME NEW type, NEW v, Encodable(type, v), NEW p \in Nat, data \in Seq(Byte)
  PROVE  LET e == encode(type, v)
             d == decode(type, p)
         IN /\ Encoded(e)
            /\ e.ok => /\ Keeps(type, v) => Reads(e, d, p, Expected(type, v))
                       /\ Strict(type, v) => Refuses(e, d, p)
<1>1. CASE type \in DOMAIN Fields
  <2>1. IsSequence(v) /\ Len(v) = Len(Fields[type]) /\ ForParts(IsField, type, v)
        /\ \A i \in DOMAIN v : IsElements(Fields[type][i], v[i])
    BY <1>1, Zenon DEF Encodable
  <2>2. \A i \in DOMAIN v : IsElements(Fields[type][i], v[i]) /\ AreFields(Fields[type][i], v[i])
    BY <1>1, <2>1, PartsOf, Zenon
  <2> DEFINE e == EncodeStructure(type, v)
             d == DecodeStructure(type, p)
             keeps == \A i \in DOMAIN v : AreKept(Fields[type][i], v[i])
             strict == \A i \in DOMAIN v : AreStrict(Fields[type][i], v[i])
             x == [i \in DOMAIN v |-> ExpectedElements(Fields[type][i], v[i])]
  <2>3. /\ Encoded(e)
        /\ e.ok => /\ keeps => Reads(e, d, p, x)
                   /\ keeps /\ strict => Refuses(e, d, p)
    BY <1>1, <2>1, <2>2, StructureCodec
  <2>4. (Keeps(type, v) => keeps) /\ (Strict(type, v) => keeps /\ strict)
    BY <1>1, PartsOf, Zenon
  <2>5. decode(type, p) = d /\ Expected(type, v) = x
    BY <1>1, Zenon DEF decode, Expected
  <2>6. encode(type, v) = e \/ encode(type, v) = Atomically(e)
    BY <1>1 DEF encode
  <2> HIDE DEF e, d, keeps, strict, x
  <2>7. Encoded(encode(type, v)) /\ (encode(type, v).ok => e.ok /\ encode(type, v) = e)
    BY <2>3, <2>6, AtomicallyEncoded, Zenon
  <2> QED
    BY <2>3, <2>4, <2>5, <2>7, Zenon
<1>2. CASE type \notin DOMAIN Fields
  <2>1. IsElements(type, v) /\ ForParts(IsField, type, v)
    BY <1>2, Zenon DEF Encodable
  <2>2. AreFields(type, v) /\ (Keeps(type, v) => AreKept(type, v))
        /\ (Strict(type, v) => AreKept(type, v) /\ AreStrict(type, v))
    BY <1>2, <2>1, PartsOf, Zenon
  <2>3. encode(type, v) = EncodeAny(type, v) /\ decode(type, p) = DecodeAny(type, p)
        /\ Expected(type, v) = ExpectedElements(type, v)
    <3>1. type # "QOpcUaArgument"
      <4>1. "QOpcUaArgument" \in DOMAIN Fields
        BY DEF Fields
      <4> QED
        BY <1>2, <4>1
    <3> QED
      BY <1>2, <3>1 DEF encode, decode, Expected
  <2> QED
    BY <2>1, <2>2, <2>3, AnyCodec, Zenon
<1> QED
  BY <1>1, <1>2

(* decode() never leaves the buffer, whatever the buffer holds. *)
LEMMA ValueBounded ==
  ASSUME NEW type, NEW v, Encodable(type, v), NEW p \in Nat, p <= Len(data), data \in Seq(Byte)
  PROVE  Bounded(decode(type, p), p)
<1>1. CASE type \in DOMAIN Fields
  <2>1. decode(type, p) = DecodeStructure(type, p)
    BY <1>1, Zenon DEF decode
  <2> QED
    BY <1>1, <2>1, StructureBounded, Zenon
<1>2. CASE type \notin DOMAIN Fields
  <2>1. decode(type, p) = DecodeAny(type, p)
    BY <1>2, Zenon DEF decode
  <2>2. ForParts(IsField, type, v)
    BY <1>2, Zenon DEF Encodable
  <2>3. AreFields(type, v)
    BY <1>2, <2>2, PartsOf, Zenon
  <2>4. type \in AnyTypes
    <3>1. CASE type \in DOMAIN ElementOf
      BY <3>1, Zenon DEF AnyTypes
    <3>2. CASE type \notin DOMAIN ElementOf
      <4>1. IsField(type, v)
        BY <2>3, <3>2, Zenon DEF AreFields
      <4>2. type \in FieldTypes
        BY <4>1, TypesOfFields, Zenon DEF FieldTypes
      <4> QED
        BY <4>2, Zenon DEF AnyTypes
    <3> QED
      BY <3>1, <3>2
  <2> QED
    BY <2>1, <2>4, AnyBounded, Zenon
<1> QED
  BY <1>1, <1>2

-----------------------------------------------------------------------------
(* The buffer.                                                             *)

(* An item is there, or the buffer breaks off in it. *)
Intact(it) ==
  LET e == encode(it.type, it.value)
  IN /\ e.ok
     /\ it.to = it.from + Len(e.bytes)
     /\ Holds(it.from, e.bytes) \/ (cut /\ Breaks(it.from, e.bytes))

BufferInv ==
  /\ TypeOK
  /\ offset <= Len(data)
  /\ \A it \in items : Intact(it)

IInv == BufferInv /\ RoundTrip /\ CutIsRefused

(* The type of the call that was not made is that of no value. *)
LEMMA NoneIsNoType ==
  ASSUME NEW v
  PROVE  ~Encodable("none", v)
<1>1. "none" \notin DOMAIN Fields /\ "none" \notin DOMAIN ElementOf
  BY DEF Fields, ElementOf
<1>2. ~IsField("none", v)
  <2>1. "none" \notin Numbers
    BY DEF Numbers, sizeof
  <2>2. "none" \notin OtherTypes
    BY DEF OtherTypes
  <2> QED
    BY <2>1, <2>2, TypesOfFields DEF FieldTypes
<1> QED
  BY <1>1, <1>2, Zenon DEF Encodable, ForParts, ForElements

(* The items are values that an application can encode. *)
LEMMA ItemsAreEncodable ==
  ASSUME TypeOK, NEW it \in items
  PROVE  Encodable(it.type, it.value) /\ it.type # "none" /\ it.from \in Nat /\ it.to \in Nat
<1>1. PICK input \in Inputs : it.type = input.type /\ it.value = input.value
  BY DEF TypeOK
<1>2. Encodable(it.type, it.value)
  BY <1>1, InputsAssumption
<1>3. it.type # "none"
  BY <1>2, NoneIsNoType, Zenon
<1> QED
  BY <1>2, <1>3 DEF TypeOK

(* The items were encoded as bytes. *)
LEMMA ItemBytes ==
  ASSUME TypeOK, NEW it \in items
  PROVE  encode(it.type, it.value).bytes \in Seq(Byte)
<1>1. Encodable(it.type, it.value) /\ 0 \in Nat /\ data \in Seq(Byte)
  BY ItemsAreEncodable DEF TypeOK
<1>2. Encoded(encode(it.type, it.value))
  BY <1>1, ValueCodec, Zenon
<1> QED
  BY <1>2 DEF Encoded

(* The invariant holds of an empty buffer. *)
LEMMA BufferInit ==
  ASSUME Init
  PROVE  IInv
<1>1. <<>> \in Seq(Byte) /\ Len(<<>>) = 0 /\ MaxTorn \in Nat
  BY BoundsAssumption
<1>2. TypeOK
  <2>1. data \in Seq(Byte) /\ offset \in Nat /\ cut \in BOOLEAN
    BY <1>1 DEF Init
  <2>2. torn \in 0 .. MaxTorn
    BY <1>1 DEF Init
  <2>3. items = {}
    BY DEF Init
  <2> QED
    BY <2>1, <2>2, <2>3, Zenon DEF TypeOK
<1>3. BufferInv
  BY <1>1, <1>2 DEF Init, BufferInv
<1>4. RoundTrip /\ CutIsRefused
  BY <1>1 DEF Init, RoundTrip, CutIsRefused
<1> QED
  BY <1>3, <1>4 DEF IInv

(* Where no call of decode() is remembered, there is nothing to show about *)
(* one.                                                                    *)
LEMMA NothingReadKeeps ==
  ASSUME TypeOK', offset' <= Len(data'), last' = NothingYet
  PROVE  RoundTrip' /\ CutIsRefused'
<1>1. \A it \in items' : it.type # "none"
  <2> SUFFICES ASSUME NEW it \in items' PROVE it.type # "none"
    OBVIOUS
  <2>1. PICK input \in Inputs : it.type = input.type /\ it.value = input.value
    BY DEF TypeOK
  <2>2. Encodable(input.type, input.value)
    BY InputsAssumption
  <2> QED
    BY <2>1, <2>2, NoneIsNoType, Zenon
<1>2. last'.type = "none"
  BY DEF NothingYet
<1> QED
  BY <1>1, <1>2 DEF RoundTrip, CutIsRefused

(* What is appended is there, behind what was there before. *)
LEMMA EncodeKeeps ==
  ASSUME BufferInv, NEW input \in Inputs, Encode(input)
  PROVE  BufferInv' /\ RoundTrip' /\ CutIsRefused'
<1> DEFINE e == encode(input.type, input.value)
           new == [type |-> input.type, value |-> input.value, from |-> Len(data),
               to |-> Len(data')]
<1>1. /\ ~cut /\ cut' = cut /\ data' = data \o e.bytes /\ offset' = offset /\ last' = NothingYet
      /\ torn' \in {torn, torn + 1} /\ torn' <= MaxTorn
      /\ items' = IF e.ok THEN items \cup {new} ELSE items
  BY DEF Encode
<1>2. TypeOK /\ offset <= Len(data) /\ \A it \in items : Intact(it)
  BY DEF BufferInv
<1>3. e.bytes \in Seq(Byte)
  <2>1. Encodable(input.type, input.value) /\ 0 \in Nat /\ data \in Seq(Byte)
    BY <1>2, InputsAssumption DEF TypeOK
  <2>2. Encoded(e)
    BY <2>1, ValueCodec, Zenon
  <2> QED
    BY <2>2 DEF Encoded
<1> HIDE DEF e
<1> DEFINE b == e.bytes
<1> HIDE DEF b
<1>4. data \in Seq(Byte) /\ b \in Seq(Byte) /\ data' = data \o b
  BY <1>1, <1>2, <1>3 DEF TypeOK, b
<1>5. /\ data' \in Seq(Byte) /\ Len(data') = Len(data) + Len(b) /\ Len(b) \in Nat
           /\ Len(data) \in Nat
      /\ Len(data') \in Nat
      /\ \A k \in 1 .. Len(data) : data'[k] = data[k]
      /\ \A k \in 1 .. Len(b) : data'[Len(data) + k] = b[k]
  BY <1>4, ConcatBytes
<1>6. TypeOK'
  <2>1. \A it \in items' : /\ \E i \in Inputs : it.type = i.type /\ it.value = i.value
                           /\ it.from \in Nat /\ it.to \in Nat
    <3> SUFFICES ASSUME NEW it \in items'
                 PROVE  /\ \E i \in Inputs : it.type = i.type /\ it.value = i.value
                        /\ it.from \in Nat /\ it.to \in Nat
      OBVIOUS
    <3>1. CASE it \in items
      BY <1>2, <3>1 DEF TypeOK
    <3>2. CASE it = new
      <4>1. it.type = input.type /\ it.value = input.value /\ it.from = Len(data)
              /\ it.to = Len(data')
        BY <3>2
      <4> QED
        BY <1>5, <4>1
    <3> QED
      BY <1>1, <3>1, <3>2
  <2>2. offset' \in Nat /\ torn' \in 0 .. MaxTorn /\ cut' \in BOOLEAN
    BY <1>1, <1>2, BoundsAssumption DEF TypeOK
  <2> QED
    BY <1>5, <2>1, <2>2 DEF TypeOK
<1>7. offset' <= Len(data')
  BY <1>1, <1>2, <1>5 DEF TypeOK
<1>8. ASSUME NEW it \in items' PROVE Intact(it)'
  <2> DEFINE c == encode(it.type, it.value)
  <2>1. CASE it \in items
    <3>1. c.ok /\ it.to = it.from + Len(c.bytes) /\ Holds(it.from, c.bytes)
      BY <1>1, <1>2, <2>1, Zenon DEF Intact
    <3>2. c.bytes \in Seq(Byte)
      BY <1>2, <2>1, ItemBytes
    <3> HIDE DEF c
    <3> DEFINE d == c.bytes
               p == it.from
    <3> HIDE DEF d, p
    <3>3. d \in Seq(Byte) /\ Holds(p, d)
      BY <3>1, <3>2 DEF d, p
    <3>4. Len(d) \in Nat /\ p \in Nat /\ p + Len(d) <= Len(data) /\ \A k \in 1 .. Len(d) :
            data[p + k] = d[k]
      BY <3>3 DEF Holds
    <3>5. Holds(p, d)'
      <4>1. p + Len(d) <= Len(data')
        BY <1>5, <3>4
      <4>2. ASSUME NEW k \in 1 .. Len(d) PROVE data'[p + k] = d[k]
        <5>1. p + k \in 1 .. Len(data)
          BY <1>5, <3>4
        <5>2. data'[p + k] = data[p + k]
          BY <1>5, <5>1, Zenon
        <5> QED
          BY <3>4, <5>2, Zenon
      <4> QED
        BY <3>4, <4>1, <4>2 DEF Holds
    <3> QED
      BY <3>1, <3>5 DEF Intact, c, d, p
  <2>2. CASE it = new /\ e.ok
    <3>1. it.type = input.type /\ it.value = input.value /\ it.from = Len(data)
            /\ it.to = Len(data')
      BY <2>2
    <3> HIDE DEF new
    <3>2. encode(it.type, it.value) = e
      BY <3>1 DEF e
    <3>3. it.to = it.from + Len(b) /\ it.from \in Nat
      BY <1>5, <3>1
    <3>4. Holds(it.from, b)'
      BY <1>5, <3>1 DEF Holds
    <3> QED
      BY <2>2, <3>2, <3>3, <3>4 DEF Intact, b
  <2> QED
    BY <1>1, <2>1, <2>2
<1>9. BufferInv'
  BY <1>6, <1>7, <1>8 DEF BufferInv
<1> QED
  BY <1>1, <1>6, <1>7, <1>9, NothingReadKeeps

(* A read by a reader that knows the type. *)
LEMMA DecodeKeeps ==
  ASSUME BufferInv, NEW item \in items, Decode(item)
  PROVE  BufferInv' /\ RoundTrip' /\ CutIsRefused'
<1> DEFINE t == item.type
           r == decode(t, offset)
<1>1. /\ offset' = r.to /\ last' = [type |-> t, from |-> offset, ok |-> r.ok, value |-> r.value,
           to |-> r.to]
      /\ data' = data /\ items' = items /\ torn' = torn /\ cut' = cut
  BY Zenon DEF Decode, Return
<1>2. TypeOK /\ offset \in Nat /\ offset <= Len(data) /\ data \in Seq(Byte) /\ \A it \in items :
        Intact(it)
  BY DEF BufferInv, TypeOK
<1>3. Bounded(r, offset)
  <2>1. Encodable(t, item.value)
    BY <1>2, ItemsAreEncodable
  <2> QED
    BY <1>2, <2>1, ValueBounded, Zenon
<1>4. \A it \in items : it.type = t /\ it.from = offset =>
        /\ it.to <= Len(data) /\ Keeps(it.type, it.value)
           => r.ok /\ r.value = Expected(it.type, it.value) /\ r.to = it.to
        /\ it.to > Len(data) /\ Strict(it.type, it.value) => ~r.ok
  <2> SUFFICES ASSUME NEW it \in items, it.type = t, it.from = offset
               PROVE  /\ it.to <= Len(data) /\ Keeps(it.type, it.value)
                         => r.ok /\ r.value = Expected(it.type, it.value) /\ r.to = it.to
                      /\ it.to > Len(data) /\ Strict(it.type, it.value) => ~r.ok
    OBVIOUS
  <2> DEFINE v == it.value
             e == encode(t, v)
             p == offset
             x == Expected(t, v)
  <2>1. Encodable(t, v)
    BY <1>2, ItemsAreEncodable
  <2>2. /\ Encoded(e)
        /\ e.ok => /\ Keeps(t, v) => Reads(e, r, p, x)
                   /\ Strict(t, v) => Refuses(e, r, p)
    BY <1>2, <2>1, ValueCodec, Zenon
  <2>3. e.ok /\ it.to = p + Len(e.bytes) /\ (Holds(p, e.bytes) \/ Breaks(p, e.bytes))
    BY <1>2, Zenon DEF Intact
  <2>4. (Holds(p, e.bytes) => it.to <= Len(data)) /\ (Breaks(p, e.bytes) => it.to > Len(data))
    BY <2>3 DEF Holds, Breaks
  <2>5. Len(data) \in Nat /\ it.to \in Nat
    BY <1>2, ItemsAreEncodable
  <2> HIDE DEF e, r, x
  <2>6. ASSUME it.to <= Len(data), Keeps(t, v) PROVE r.ok /\ r.value = x /\ r.to = it.to
    <3>1. ~(it.to > Len(data))
      BY <2>5, <2>6
    <3>2. r = Got(x, p + Len(e.bytes))
      BY <2>2, <2>3, <2>4, <2>6, <3>1, Zenon DEF Reads
    <3> QED
      BY <2>3, <3>2 DEF Got
  <2>7. ASSUME it.to > Len(data), Strict(t, v) PROVE ~r.ok
    <3>1. ~(it.to <= Len(data))
      BY <2>5, <2>7
    <3> QED
      BY <2>2, <2>3, <2>4, <2>7, <3>1, Zenon DEF Refuses
  <2> QED
    BY <2>6, <2>7 DEF x
<1> HIDE DEF r
<1>5. /\ last'.type = t /\ last'.from = offset /\ last'.ok = r.ok /\ last'.value = r.value
           /\ last'.to = r.to
  BY <1>1
<1>6. RoundTrip'
  BY <1>1, <1>4, <1>5, Zenon DEF RoundTrip
<1>7. offset' \in Nat /\ offset' <= Len(data')
  BY <1>1, <1>2, <1>3 DEF Bounded
<1>8. CutIsRefused'
  BY <1>1, <1>4, <1>5, <1>7, Zenon DEF CutIsRefused
<1>9. BufferInv'
  <2>1. TypeOK'
    BY <1>1, <1>2, <1>7 DEF TypeOK
  <2>2. \A it \in items' : Intact(it)'
    BY <1>1, <1>2 DEF Intact, Holds, Breaks
  <2> QED
    BY <1>7, <2>1, <2>2 DEF BufferInv
<1> QED
  BY <1>6, <1>8, <1>9

(* The offset moves to the start or the end of an item. *)
LEMMA SetOffsetKeeps ==
  ASSUME IInv, NEW o \in Ends, SetOffset(o)
  PROVE  IInv'
<1>1. offset' = o /\ data' = data /\ items' = items /\ torn' = torn /\ cut' = cut /\ last' = last
  BY DEF SetOffset
<1>2. TypeOK /\ \A it \in items : Intact(it)
  BY DEF IInv, BufferInv
<1>3. o \in Nat /\ o <= Len(data)
  <2>1. \A it \in items : it.to \in Nat
    BY <1>2, ItemsAreEncodable
  <2> QED
    BY <2>1 DEF Ends
<1>4. TypeOK'
  BY <1>1, <1>2, <1>3 DEF TypeOK
<1>5. \A it \in items' : Intact(it)'
  BY <1>1, <1>2 DEF Intact, Holds, Breaks
<1>6. BufferInv'
  BY <1>1, <1>3, <1>4, <1>5 DEF BufferInv
<1>7. RoundTrip' /\ CutIsRefused'
  BY <1>1, <1>3 DEF IInv, RoundTrip, CutIsRefused
<1> QED
  BY <1>6, <1>7 DEF IInv

(* The first n bytes. *)
LEMMA FirstBytes ==
  ASSUME data \in Seq(Byte), NEW n \in 0 .. Len(data)
  PROVE  /\ SubSeq(data, 1, n) \in Seq(Byte) /\ Len(SubSeq(data, 1, n)) = n
         /\ \A k \in 1 .. n : SubSeq(data, 1, n)[k] = data[k]
OBVIOUS

(* The items in front of the offset stay as they are. *)
LEMMA TruncateKeeps ==
  ASSUME BufferInv, truncateBufferToOffset
  PROVE  BufferInv' /\ RoundTrip' /\ CutIsRefused'
<1> DEFINE n == offset + 1
<1>1. /\ data' = SubSeq(data, 1, n) /\ items' = {it \in items : it.to <= n}
      /\ torn < MaxTorn /\ torn' = torn + 1 /\ offset' = offset /\ ~cut /\ cut' = cut
           /\ last' = NothingYet
  BY DEF truncateBufferToOffset
<1>2. TypeOK /\ offset \in Nat /\ data \in Seq(Byte) /\ \A it \in items : Intact(it)
  BY DEF BufferInv, TypeOK
<1>3. n \in 0 .. Len(data) /\ n \in Nat /\ offset <= n
  BY <1>2 DEF truncateBufferToOffset
<1> HIDE DEF n
<1>4. data' \in Seq(Byte) /\ Len(data') = n /\ \A k \in 1 .. n : data'[k] = data[k]
  BY <1>1, <1>2, <1>3, FirstBytes
<1>5. TypeOK'
  <2>1. torn' \in 0 .. MaxTorn /\ offset' \in Nat /\ cut' \in BOOLEAN
    BY <1>1, <1>2, BoundsAssumption DEF TypeOK
  <2>2. \A it \in items' : it \in items
    BY <1>1
  <2> QED
    BY <1>2, <1>4, <2>1, <2>2, Zenon DEF TypeOK
<1>6. ASSUME NEW it \in items' PROVE Intact(it)'
  <2>1. it \in items /\ it.to <= n
    BY <1>1
  <2> DEFINE c == encode(it.type, it.value)
             d == c.bytes
             p == it.from
  <2>2. c.ok /\ it.to = p + Len(d) /\ Holds(p, d)
    BY <1>1, <1>2, <2>1, Zenon DEF Intact
  <2>3. d \in Seq(Byte) /\ p \in Nat
    BY <1>2, <2>1, ItemBytes, ItemsAreEncodable
  <2> HIDE DEF c, d, p
  <2>4. p + Len(d) <= n /\ Len(d) \in Nat
    BY <2>1, <2>2, <2>3
  <2>5. ASSUME NEW k \in 1 .. Len(d) PROVE data'[p + k] = d[k]
    <3>1. p + k \in 1 .. n
      BY <1>3, <2>3, <2>4
    <3>2. data'[p + k] = data[p + k]
      BY <1>4, <3>1, Zenon
    <3>3. data[p + k] = d[k]
      BY <2>2 DEF Holds
    <3> QED
      BY <3>2, <3>3
  <2>6. Holds(p, d)'
    BY <1>4, <2>3, <2>4, <2>5 DEF Holds
  <2> QED
    BY <2>2, <2>6 DEF Intact, c, d, p
<1>7. BufferInv' /\ offset' <= Len(data')
  BY <1>1, <1>3, <1>4, <1>5, <1>6 DEF BufferInv
<1> QED
  BY <1>1, <1>5, <1>7, NothingReadKeeps

(* An item stays as it is, or is the one that breaks off. *)
LEMMA CutShortKeeps ==
  ASSUME BufferInv, NEW n \in 0 .. Len(data) - 1, CutShort(n)
  PROVE  BufferInv' /\ RoundTrip' /\ CutIsRefused'
<1>1. /\ data' = SubSeq(data, 1, n) /\ items' = {it \in items : it.from <= n}
      /\ torn' = torn /\ offset' = 0 /\ ~cut /\ cut' = TRUE /\ last' = NothingYet
  BY DEF CutShort
<1>2. TypeOK /\ data \in Seq(Byte) /\ Len(data) \in Nat /\ \A it \in items : Intact(it)
  BY DEF BufferInv, TypeOK
<1>3. n \in 0 .. Len(data) /\ n \in Nat
  BY <1>2
<1>4. data' \in Seq(Byte) /\ Len(data') = n /\ \A k \in 1 .. n : data'[k] = data[k]
  BY <1>1, <1>2, <1>3, FirstBytes
<1>5. TypeOK'
  <2>1. torn' \in 0 .. MaxTorn /\ offset' \in Nat /\ cut' \in BOOLEAN
    BY <1>1, <1>2 DEF TypeOK
  <2>2. \A it \in items' : it \in items
    BY <1>1
  <2> QED
    BY <1>2, <1>4, <2>1, <2>2, Zenon DEF TypeOK
<1>6. ASSUME NEW it \in items' PROVE Intact(it)'
  <2>1. it \in items /\ it.from <= n
    BY <1>1
  <2> DEFINE c == encode(it.type, it.value)
             d == c.bytes
             p == it.from
  <2>2. c.ok /\ it.to = p + Len(d) /\ Holds(p, d)
    BY <1>1, <1>2, <2>1, Zenon DEF Intact
  <2>3. d \in Seq(Byte) /\ p \in Nat
    BY <1>2, <2>1, ItemBytes, ItemsAreEncodable
  <2>4. p <= n
    BY <2>1
  <2> HIDE DEF c, d, p
  <2>5. Len(d) \in Nat /\ \A k \in 1 .. Len(d) : data[p + k] = d[k]
    BY <2>2, <2>3 DEF Holds
  <2>6. ASSUME NEW k \in 1 .. Len(d), p + k <= n PROVE data'[p + k] = d[k]
    <3>1. p + k \in 1 .. n
      BY <1>3, <2>3, <2>5, <2>6
    <3>2. data'[p + k] = data[p + k]
      BY <1>4, <3>1, Zenon
    <3> QED
      BY <2>5, <3>2, Zenon
  <2>7. CASE p + Len(d) <= n
    <3>1. ASSUME NEW k \in 1 .. Len(d) PROVE data'[p + k] = d[k]
      <4>1. p + k <= n
        BY <1>3, <2>3, <2>5, <2>7
      <4> QED
        BY <2>6, <4>1, Zenon
    <3>2. Holds(p, d)'
      BY <1>4, <2>3, <2>7, <3>1 DEF Holds
    <3> QED
      BY <2>2, <3>2 DEF Intact, c, d, p
  <2>8. CASE ~(p + Len(d) <= n)
    <3>1. ASSUME NEW k \in 1 .. Len(data') - p PROVE data'[p + k] = d[k]
      <4>1. p + k <= n /\ k \in 1 .. Len(d)
        BY <1>3, <1>4, <2>3, <2>5, <2>8
      <4> QED
        BY <2>6, <4>1, Zenon
    <3>2. p <= Len(data') /\ Len(data') < p + Len(d)
      BY <1>3, <1>4, <2>3, <2>4, <2>5, <2>8
    <3>3. Breaks(p, d)'
      BY <2>3, <3>1, <3>2 DEF Breaks
    <3> QED
      BY <1>1, <2>2, <3>3 DEF Intact, c, d, p
  <2> QED
    BY <2>7, <2>8
<1>7. BufferInv' /\ offset' <= Len(data')
  BY <1>1, <1>3, <1>4, <1>5, <1>6 DEF BufferInv
<1> QED
  BY <1>1, <1>5, <1>7, NothingReadKeeps

(* Every step preserves the invariant. *)
LEMMA BufferSteps ==
  ASSUME IInv, [Next]_vars
  PROVE  IInv'
<1>1. ASSUME NEW input \in Inputs, Encode(input) PROVE IInv'
  BY <1>1, EncodeKeeps DEF IInv
<1>2. ASSUME NEW it \in items, Decode(it) PROVE IInv'
  BY <1>2, DecodeKeeps DEF IInv
<1>3. ASSUME NEW o \in Ends, SetOffset(o) PROVE IInv'
  BY <1>3, SetOffsetKeeps
<1>4. CASE truncateBufferToOffset
  BY <1>4, TruncateKeeps DEF IInv
<1>5. ASSUME NEW n \in 0 .. Len(data) - 1, CutShort(n) PROVE IInv'
  BY <1>5, CutShortKeeps DEF IInv
<1>6. CASE UNCHANGED vars
  <2>1. data' = data /\ offset' = offset /\ items' = items /\ torn' = torn /\ cut' = cut
          /\ last' = last
    BY <1>6 DEF vars
  <2>2. TypeOK'
    BY <2>1 DEF IInv, BufferInv, TypeOK
  <2>3. \A it \in items' : Intact(it)'
    BY <2>1 DEF IInv, BufferInv, Intact, Holds, Breaks
  <2>4. RoundTrip' /\ CutIsRefused' /\ offset' <= Len(data')
    BY <2>1 DEF IInv, BufferInv, RoundTrip, CutIsRefused
  <2> QED
    BY <2>2, <2>3, <2>4 DEF IInv, BufferInv
<1> QED
  BY <1>1, <1>2, <1>3, <1>4, <1>5, <1>6 DEF Next

(* At any time every value encoded is in the buffer or is the one it       *)
(* breaks off in, and what the last decode() returned is right.            *)
THEOREM ValuesInvariant == Spec => []IInv
<1>1. Init => IInv
  BY BufferInit
<1>2. IInv /\ [Next]_vars => IInv'
  BY BufferSteps
<1> QED
  BY <1>1, <1>2, PTL DEF Spec

(* The buffer holds bytes, the offset is a position, and the items are     *)
(* inputs of the application (m_data, m_offset).                           *)
THEOREM BufferTypeCorrect == Spec => []TypeOK
<1>1. IInv => TypeOK
  BY DEF IInv, BufferInv
<1> QED
  BY <1>1, ValuesInvariant, PTL

(* What encode() has appended is returned by the decode() of its type,     *)
(* which ends where the next value begins, except for values that contain  *)
(* a ByteString of one byte (Keeps).                                       *)
THEOREM ValuesRoundTrip == Spec => []RoundTrip
<1>1. IInv => RoundTrip
  BY DEF IInv
<1> QED
  BY <1>1, ValuesInvariant, PTL

(* decode() refuses a value that the buffer breaks off in, except for      *)
(* values that contain a QString or a ByteString of one byte (Strict), and *)
(* never moves the offset behind the end of the buffer.                    *)
THEOREM CutValuesAreRefused == Spec => []CutIsRefused
<1>1. IInv => CutIsRefused
  BY DEF IInv
<1> QED
  BY <1>1, ValuesInvariant, PTL
================================================================================
