--------------------------- MODULE CompactRingProofs ---------------------------
(***************************************************************************)
(* The rings of CompactRing and RingPlanning, for any number of processes, *)
(* any node lists and targets, any hash range and any hash function.       *)
(*                                                                         *)
(* The invariant is RingsOK: a process that holds a ring holds the one that *)
(* `new` builds from its nodes and its target, and these were accepted.  It *)
(* is kept by `new` at once, by a call of `new` on the operator's advice,  *)
(* and by from_bytes because what can be read of a snapshot is all of it.  *)
(*                                                                         *)
(* Everything else is about one ring, or two.  A ring has one point for    *)
(* each seed <<i, j>>, the j-th of its i-th node (AllPointsFromSeeds), in  *)
(* sorted order (SortSorts), so the points of a node can be found again in *)
(* any ring that gives a node with that id no fewer (PointsCarryOver), and *)
(* both lookups of a hash that moved end on the same hash, where the order *)
(* of the list decides (MoveNeedsCounts).                                  *)
(***************************************************************************)
EXTENDS RingPlanning, RingLookupProofs, FunctionTheorems, SequenceTheorems

-----------------------------------------------------------------------------
(* Sorting. *)

(* On points, the sort order is a total order. *)
LEMMA PointOrder ==
  ASSUME NEW p \in Point, NEW q \in Point, NEW r \in Point
  PROVE  /\ PointLeq(p, p)
         /\ PointLeq(p, q) \/ PointLeq(q, p)
         /\ PointLeq(p, q) /\ PointLeq(q, p) => p = q
         /\ PointLeq(p, q) /\ PointLeq(q, r) => PointLeq(p, r)
<1>1. /\ p.hash \in Int /\ q.hash \in Int /\ r.hash \in Int
      /\ p.node \in Int /\ q.node \in Int /\ r.node \in Int
  BY MaxHashAssumption DEF Point, Hashes
<1>2. p.hash = q.hash /\ p.node = q.node => p = q
  BY DEF Point
<1> QED
  BY <1>1, <1>2 DEF PointLeq

(* Coming before is a strict total order of the positions. *)
LEMMA BeforeOrder ==
  ASSUME NEW points \in Seq(Point), NEW j \in DOMAIN points, NEW k \in DOMAIN points
  PROVE  /\ Before(points, k) \subseteq DOMAIN points
         /\ k \notin Before(points, k)
         /\ j # k => j \in Before(points, k) \/ k \in Before(points, j)
         /\ j \in Before(points, k) => Before(points, j) \subseteq Before(points, k)
         /\ j \in Before(points, k) => PointLeq(points[j], points[k])
<1>1. DOMAIN points = 1 .. Len(points) /\ points[j] \in Point /\ points[k] \in Point
  OBVIOUS
<1>2. j # k => j \in Before(points, k) \/ k \in Before(points, j)
  <2>1. CASE points[j] = points[k]
    BY <1>1, <2>1 DEF Before
  <2>2. CASE points[j] # points[k]
    BY <1>1, <2>2, PointOrder DEF Before
  <2> QED
    BY <2>1, <2>2
<1>3. ASSUME j \in Before(points, k), NEW i \in Before(points, j)
      PROVE  i \in Before(points, k)
  <2>1. i \in DOMAIN points /\ points[i] \in Point
    BY DEF Before
  <2>2. PointLeq(points[i], points[j]) /\ PointLeq(points[j], points[k])
    BY <1>1, <1>3, <2>1, PointOrder DEF Before
  <2>3. PointLeq(points[i], points[k])
    BY <1>1, <2>1, <2>2, PointOrder
  <2>4. CASE points[i] # points[k]
    BY <2>1, <2>3, <2>4 DEF Before
  <2>5. CASE points[i] = points[k]
    <3>1. points[j] = points[k]
      BY <1>1, <2>2, <2>5, PointOrder
    <3>2. i < j /\ j < k
      BY <1>3, <2>5, <3>1 DEF Before
    <3>3. i < k
      BY <1>1, <2>1, <3>2
    <3> QED
      BY <2>1, <2>5, <3>3 DEF Before
  <2> QED
    BY <2>4, <2>5
<1>4. j \in Before(points, k) => PointLeq(points[j], points[k])
  BY <1>1, PointOrder DEF Before
<1>5. Before(points, k) \subseteq DOMAIN points /\ k \notin Before(points, k)
  BY <1>1 DEF Before
<1> QED
  BY <1>2, <1>3, <1>4, <1>5

(* Every position has a rank of its own, and every rank is taken. *)
LEMMA Ranks ==
  ASSUME NEW points \in Seq(Point)
  PROVE  LET Rank(k) == Cardinality(Before(points, k))
         IN  /\ \A j, k \in DOMAIN points :
                  /\ Rank(j) = Rank(k) => j = k
                  /\ Rank(j) < Rank(k) => j \in Before(points, k)
             /\ \A i \in DOMAIN points : \E k \in DOMAIN points : Rank(k) = i - 1
<1> DEFINE D == DOMAIN points
           Rank(k) == Cardinality(Before(points, k))
<1>1. PICK n \in Nat : n = Len(points)
  OBVIOUS
<1>2. D = 1 .. n /\ IsFiniteSet(D) /\ Cardinality(D) = n
  <2>1. D = 1 .. n
    BY <1>1
  <2>2. IsFiniteSet(1 .. n) /\ Cardinality(1 .. n) = n
    BY FS_Interval
  <2> QED
    BY <2>1, <2>2
<1>3. ASSUME NEW k \in D
      PROVE  IsFiniteSet(Before(points, k)) /\ Rank(k) \in Nat /\ Rank(k) < n
  <2>1. Before(points, k) \in SUBSET D /\ k \notin Before(points, k)
    BY BeforeOrder
  <2>2. /\ IsFiniteSet(Before(points, k)) /\ Rank(k) <= n
        /\ Rank(k) = n => Before(points, k) = D
    BY <1>2, <2>1, FS_Subset
  <2>3. Rank(k) \in Nat
    BY <2>2, FS_CardinalityType
  <2>4. Rank(k) # n
    BY <2>1, <2>2
  <2> QED
    BY <2>2, <2>3, <2>4, <1>1
<1>4. ASSUME NEW k \in D, NEW j \in Before(points, k) PROVE Rank(j) < Rank(k)
  <2>1. j \in D
    BY BeforeOrder
  <2>2. Before(points, j) \in SUBSET Before(points, k) /\ j \notin Before(points, j)
    BY <2>1, BeforeOrder
  <2>3. /\ Rank(j) <= Rank(k)
        /\ Rank(k) = Rank(j) => Before(points, k) = Before(points, j)
    BY <1>3, <2>2, FS_Subset
  <2>4. Rank(k) # Rank(j)
    BY <2>2, <2>3
  <2>5. Rank(j) \in Nat /\ Rank(k) \in Nat
    BY <1>3, <2>1
  <2> HIDE DEF Rank
  <2> QED
    BY <2>3, <2>4, <2>5
<1>5. ASSUME NEW j \in D, NEW k \in D
      PROVE  /\ Rank(j) = Rank(k) => j = k
             /\ Rank(j) < Rank(k) => j \in Before(points, k)
  <2>1. j # k => j \in Before(points, k) \/ k \in Before(points, j)
    BY BeforeOrder
  <2>2. Rank(j) \in Nat /\ Rank(k) \in Nat
    BY <1>3
  <2>3. /\ j \in Before(points, k) => Rank(j) < Rank(k)
        /\ k \in Before(points, j) => Rank(k) < Rank(j)
    BY <1>4
  <2> HIDE DEF Rank
  <2> QED
    BY <2>1, <2>2, <2>3
<1>6. ASSUME NEW i \in D PROVE \E k \in D : Rank(k) = i - 1
  <2> DEFINE f == [k \in D |-> Rank(k) + 1]
  <2>1. f \in [D -> D]
    <3>1. \A k \in D : Rank(k) + 1 \in 1 .. n
      BY <1>3
    <3> HIDE DEF Rank
    <3> QED
      BY <3>1, <1>2
  <2>2. \A j, k \in D : f[j] = f[k] => j = k
    <3>1. \A j \in D : Rank(j) \in Nat
      BY <1>3
    <3> HIDE DEF Rank
    <3> QED
      BY <1>5, <3>1
  <2>3. f \in Surjection(D, D)
    <3> HIDE DEF f
    <3>1. f \in Injection(D, D)
      BY <2>1, <2>2 DEF Injection, IsInjective
    <3> QED
      BY <3>1, <1>2, FS_Injection
  <2>4. PICK k \in D : f[k] = i
    BY <2>3 DEF Surjection
  <2>5. Rank(k) \in Nat /\ i \in Nat
    BY <1>2, <1>3
  <2> QED
    BY <2>4, <2>5
<1> QED
  BY <1>5, <1>6

(* Sorting puts the points in order and keeps each of them. *)
LEMMA SortSorts ==
  ASSUME NEW points \in Seq(Point)
  PROVE  /\ SortPoints(points) \in Seq(Point)
         /\ Len(SortPoints(points)) = Len(points)
         /\ Sorted(SortPoints(points))
         /\ \E pi \in Bijection(DOMAIN points, DOMAIN points) :
              \A i \in DOMAIN points : SortPoints(points)[i] = points[pi[i]]
<1> DEFINE D == DOMAIN points
           Rank(k) == Cardinality(Before(points, k))
           pi == [i \in D |-> CHOOSE k \in D : Rank(k) = i - 1]
           s == SortPoints(points)
<1>1. PICK n \in Nat : n = Len(points) /\ D = 1 .. n
  OBVIOUS
<1>2. /\ \A j, k \in D : /\ Rank(j) = Rank(k) => j = k
                         /\ Rank(j) < Rank(k) => j \in Before(points, k)
      /\ \A i \in D : \E k \in D : Rank(k) = i - 1
  BY Ranks
<1>3. \A i \in D : pi[i] \in D /\ Rank(pi[i]) = i - 1
  <2> HIDE DEF Rank
  <2> QED
    BY <1>2
<1>4. \A i \in D : s[i] = points[pi[i]]
  BY DEF SortPoints
<1>5. s \in Seq(Point) /\ Len(s) = n
  <2>1. s = [i \in 1 .. n |-> points[pi[i]]]
    BY <1>1 DEF SortPoints
  <2> HIDE DEF Rank, s, pi
  <2>2. \A i \in 1 .. n : points[pi[i]] \in Point
    BY <1>1, <1>3
  <2> QED
    BY <2>1, <2>2, <1>1
<1>6. pi \in [D -> D]
  <2> HIDE DEF Rank
  <2> QED
    BY <1>3
<1> HIDE DEF Rank, pi, s
<1>7. pi \in Injection(D, D)
  <2>1. ASSUME NEW i \in D, NEW j \in D, pi[i] = pi[j] PROVE i = j
    <3>1. i - 1 = j - 1
      BY <1>3, <2>1
    <3> QED
      BY <3>1, <1>1
  <2> QED
    BY <1>6, <2>1 DEF Injection, IsInjective
<1>8. pi \in Bijection(D, D)
  <2>1. IsFiniteSet(D)
    BY <1>1, FS_Interval
  <2>2. pi \in Surjection(D, D)
    BY <1>7, <2>1, FS_Injection
  <2> QED
    BY <1>7, <2>2 DEF Bijection
<1>9. Sorted(s)
  <2> SUFFICES ASSUME NEW i \in 1 .. n, NEW j \in 1 .. n, i < j
               PROVE  PointLeq(s[i], s[j])
    BY <1>5 DEF Sorted
  <2>1. i \in D /\ j \in D /\ i - 1 < j - 1
    BY <1>1
  <2>2. pi[i] \in Before(points, pi[j])
    BY <1>2, <1>3, <2>1
  <2>3. PointLeq(points[pi[i]], points[pi[j]])
    BY <1>3, <2>1, <2>2, BeforeOrder
  <2> QED
    BY <1>4, <2>1, <2>3
<1> QED
  BY <1>1, <1>4, <1>5, <1>8, <1>9 DEF s
-----------------------------------------------------------------------------
(* Weights and numbers of points. *)

(* A sum is any one of its terms and the rest. *)
LEMMA SumsTakeOut ==
  ASSUME NEW S, IsFiniteSet(S), NEW f, \A m \in S : f[m] \in Int,
         NEW g, Sums(g, f, S), NEW T \in SUBSET S, NEW z \in T
  PROVE  g[T] = f[z] + g[T \ {z}]
<1> DEFINE Splits(R) == /\ g[R] \in Int
                        /\ \A x \in R : g[R] = f[x] + g[R \ {x}]
           Bad == {m \in Nat : \E R \in SUBSET S : Cardinality(R) = m /\ ~Splits(R)}
<1>1. \A R \in SUBSET S : IsFiniteSet(R) /\ Cardinality(R) \in Nat
  BY FS_Subset, FS_CardinalityType
<1>2. Bad = {}
  <2> SUFFICES ASSUME Bad # {} PROVE FALSE
    OBVIOUS
  <2>1. PICK m \in Bad : \A y \in Bad : m <= y
    <3>1. Bad \subseteq Nat
      OBVIOUS
    <3> HIDE DEF Bad
    <3> QED
      BY <3>1, LeastNat
  <2>2. PICK M \in SUBSET S : Cardinality(M) = m /\ ~Splits(M)
    OBVIOUS
  <2>3. ASSUME NEW R \in SUBSET M, R # M PROVE Splits(R)
    <3>1. R \in SUBSET S /\ Cardinality(R) \in Nat /\ Cardinality(M) \in Nat
      BY <1>1
    <3>2. Cardinality(R) <= Cardinality(M) /\ Cardinality(R) # Cardinality(M)
      BY <1>1, <2>3, FS_Subset
    <3>3. ~(m <= Cardinality(R))
      BY <2>2, <3>1, <3>2
    <3>4. Cardinality(R) \notin Bad
      <4> HIDE DEF Bad
      <4> QED
        BY <2>1, <3>3
    <3> HIDE DEF Splits
    <3> QED
      BY <3>1, <3>4
  <2> DEFINE y == Some(M)
             R == M \ {y}
  <2>4. M # {}
    <3>1. g[{}] = 0
      BY DEF Sums
    <3>2. Splits({})
      BY <3>1
    <3> HIDE DEF Splits
    <3> QED
      BY <2>2, <3>2
  <2>5. y \in M /\ f[y] \in Int /\ g[M] = f[y] + g[R]
    BY <2>4, <1>1, SomeOf DEF Sums
  <2>6. Splits(R)
    BY <2>3, <2>5
  <2>7. ASSUME NEW x \in M PROVE g[M] = f[x] + g[M \ {x}]
    <3>1. CASE x = y
      BY <2>5, <3>1
    <3>2. CASE x # y
      <4> DEFINE X == M \ {x}
      <4>1. Splits(X) /\ y \in X /\ x \in R /\ X \ {y} = R \ {x}
        BY <2>3, <2>5, <3>2
      <4>2. Splits(R \ {x})
        BY <2>3, <2>5
      <4>3. g[X] = f[y] + g[R \ {x}]
        BY <4>1
      <4>4. g[R] = f[x] + g[R \ {x}]
        BY <2>6, <4>1
      <4>5. f[x] \in Int /\ g[R \ {x}] \in Int
        BY <4>2
      <4> HIDE DEF X, R, y
      <4> QED
        BY <2>5, <4>3, <4>4, <4>5 DEF X
    <3> QED
      BY <3>1, <3>2
  <2>8. g[M] \in Int
    BY <2>5, <2>6
  <2> QED
    BY <2>2, <2>7, <2>8
<1>3. Splits(T)
  <2>1. Cardinality(T) \in Nat /\ Cardinality(T) \notin Bad
    <3> HIDE DEF Bad
    <3> QED
      BY <1>1, <1>2
  <2> HIDE DEF Splits
  <2> QED
    BY <2>1
<1> QED
  BY <1>3

(* Renaming the terms of a sum does not change it. *)
LEMMA SumRenamed ==
  ASSUME NEW S, IsFiniteSet(S), NEW f, \A m \in S : f[m] \in Int,
         NEW U, NEW b \in Bijection(S, U), NEW h, \A m \in S : h[b[m]] = f[m]
  PROVE  SumOver(f, S) = SumOver(h, U)
<1>1. PICK g : Sums(g, f, S) /\ g[S] = SumOver(f, S)
  BY SumUnrolls
<1>2. b \in [S -> U] /\ IsInjective(b) /\ \A u \in U : \E m \in S : b[m] = u
  BY DEF Bijection, Injection, Surjection
<1>3. \A m, n \in S : b[m] = b[n] => m = n
  BY <1>2 DEF IsInjective
<1>4. IsFiniteSet(U) /\ \A u \in U : h[u] \in Int
  <2>1. ExistsBijection(S, U)
    BY DEF ExistsBijection
  <2> QED
    BY <2>1, <1>2, FS_Bijection
<1>5. PICK k : Sums(k, h, U) /\ k[U] = SumOver(h, U)
  BY <1>4, SumUnrolls
<1>6. ASSUME NEW T \in SUBSET U, NEW x \in T PROVE k[T] = h[x] + k[T \ {x}]
  <2>1. IsFiniteSet(U) /\ (\A m \in U : h[m] \in Int) /\ Sums(k, h, U)
    BY <1>4, <1>5
  <2> QED
    BY <2>1, SumsTakeOut
<1> DEFINE Image(T) == {b[m] : m \in T}
           Good == {T \in SUBSET S : g[T] = k[Image(T)]}
<1>7. {} \in Good
  <2>1. Image({}) = {}
    OBVIOUS
  <2> QED
    BY <2>1, <1>1, <1>5 DEF Sums
<1>8. ASSUME NEW T \in SUBSET S, T # {}, T \ {Some(T)} \in Good PROVE T \in Good
  <2> DEFINE x == Some(T)
  <2>1. x \in T
    BY <1>8 DEF Some
  <2>2. g[T] = f[x] + g[T \ {x}]
    BY <1>1, <1>8 DEF Sums
  <2>3. Image(T \ {x}) = Image(T) \ {b[x]}
    BY <2>1, <1>3
  <2>4. Image(T) \in SUBSET U /\ b[x] \in Image(T)
    BY <2>1, <1>2
  <2>5. k[Image(T)] = h[b[x]] + k[Image(T) \ {b[x]}]
    <3> HIDE DEF Image, x
    <3> QED
      BY <2>4, <1>6
  <2>6. h[b[x]] = f[x]
    BY <2>1
  <2>7. g[T \ {x}] = k[Image(T \ {x})]
    BY <1>8
  <2> HIDE DEF Image, x
  <2> QED
    BY <2>2, <2>3, <2>5, <2>6, <2>7
<1>9. S \in Good
  <2> HIDE DEF Good
  <2>1. SUBSET S \subseteq Good
    BY <1>7, <1>8, SubsetInduction
  <2> QED
    BY <2>1
<1>10. Image(S) = U
  BY <1>2
<1> QED
  BY <1>1, <1>5, <1>9, <1>10

(* Node lists and targets that `new` accepts, and for which there are      *)
(* seeds.                                                                  *)
Accepted(nodes, target) ==
  /\ nodes \in Seq([id : Ids, weight : Nat]) /\ nodes # <<>>
  /\ ~HasZeroWeight(nodes) /\ ~TooMany(nodes)
  /\ target \in Nat \X (Nat \ {0})
  /\ \A i \in DOMAIN nodes : NodeHashes(nodes, target, i) <= SeedsPerNode

HashOK == hashOf \in [Ids \X (0 .. SeedsPerNode - 1) -> Hashes]

(* The list of a ring is finite, not empty, and its weights are positive.  *)
LEMMA ListIsFinite ==
  ASSUME NEW nodes, NEW target, Accepted(nodes, target)
  PROVE  /\ Len(nodes) \in Nat /\ Len(nodes) >= 1
         /\ DOMAIN nodes = 1 .. Len(nodes) /\ IsFiniteSet(DOMAIN nodes)
         /\ \A i \in DOMAIN nodes : /\ nodes[i] \in [id : Ids, weight : Nat]
                                    /\ nodes[i].id \in Ids
                                    /\ nodes[i].weight \in Nat /\ nodes[i].weight >= 1
<1>1. nodes \in Seq([id : Ids, weight : Nat]) /\ nodes # <<>>
  BY DEF Accepted
<1>2. /\ Len(nodes) \in Nat /\ Len(nodes) >= 1
      /\ DOMAIN nodes = 1 .. Len(nodes)
      /\ \A i \in DOMAIN nodes : nodes[i] \in [id : Ids, weight : Nat]
  <2> DEFINE R == [id : Ids, weight : Nat]
  <2> HIDE DEF R
  <2>1. nodes \in Seq(R) /\ nodes # <<>>
    BY <1>1 DEF R
  <2>2. Len(nodes) \in Nat /\ Len(nodes) >= 1 /\ DOMAIN nodes = 1 .. Len(nodes)
    BY <2>1
  <2>3. \A i \in DOMAIN nodes : nodes[i] \in R
    BY <2>1, ElementOfSeq
  <2> QED
    BY <2>2, <2>3 DEF R
<1>3. \A i \in DOMAIN nodes : nodes[i].weight # 0
  BY DEF Accepted, HasZeroWeight
<1>4. IsFiniteSet(DOMAIN nodes)
  BY <1>2, FS_Interval
<1> QED
  BY <1>2, <1>3, <1>4

(* The total weight is a sum, whatever the order of the list.              *)
LEMMA TotalIsSum ==
  ASSUME NEW nodes
  PROVE  TotalWeight(nodes)
           = SumOver([i \in DOMAIN nodes |-> nodes[i].weight], DOMAIN nodes)
BY DEF TotalWeight, SumFunction, SumFunctionOnSet, FoldFunctionOnSet, SumOver,
       MapThenSumSet

LEMMA TotalIsPositive ==
  ASSUME NEW nodes, NEW target, Accepted(nodes, target)
  PROVE  TotalWeight(nodes) \in Nat \ {0}
<1> DEFINE D == DOMAIN nodes
           f == [i \in D |-> nodes[i].weight]
<1>1. TotalWeight(nodes) = SumOver(f, D)
  BY TotalIsSum
<1>2. /\ IsFiniteSet(D) /\ 1 \in D /\ D \in SUBSET D
      /\ \A i \in D : f[i] \in Nat /\ 1 <= f[i]
  BY ListIsFinite
<1>3. Cardinality(D) \in Nat /\ Cardinality(D) # 0
  BY <1>2, FS_CardinalityType, FS_EmptySet
<1> HIDE DEF f, D
<1>4. PICK lo \in Nat : lo = 1
  OBVIOUS
<1>5. SumOver(f, D) \in Nat /\ Cardinality(D) * lo <= SumOver(f, D)
  BY <1>2, <1>4, SumAtLeast
<1> QED
  BY <1>1, <1>3, <1>4, <1>5

LEMMA QuotientNat ==
  ASSUME NEW a \in Nat, NEW b \in Nat \ {0}
  PROVE  a \div b \in Nat
  OBVIOUS

LEMMA ProductNat ==
  ASSUME NEW a \in Nat, NEW b \in Nat
  PROVE  a * b \in Nat /\ (a # 0 /\ b # 0 => a * b # 0)
  OBVIOUS

LEMMA CeilDivNat ==
  ASSUME NEW a \in Nat, NEW b \in Nat \ {0}
  PROVE  CeilDiv(a, b) \in Nat
<1>1. a + b - 1 \in Nat
  OBVIOUS
<1> QED
  BY <1>1, QuotientNat DEF CeilDiv

(* The hashes per node are a number.                                       *)
LEMMA OptimalHashesNat ==
  ASSUME NEW n \in Nat, NEW target \in Nat \X (Nat \ {0})
  PROVE  OptimalHashes(n, target) \in Nat /\ HashesPerNode(n, target) \in Nat
<1>1. OptimalHashes(n, target) \in Nat
  <2>1. CASE n <= 1
    BY <2>1 DEF OptimalHashes
  <2>2. CASE n > 1
    <3>1. n - 1 \in Nat /\ n + 1 \in Nat \ {0} /\ target[1] \in Nat /\ target[2] \in Nat \ {0}
      BY <2>2
    <3>2. PICK x \in Nat : x = (n - 1) * target[1]
      BY <3>1, ProductNat
    <3>3. PICK y \in Nat \ {0} : y = (n + 1) * target[2]
      BY <3>1, ProductNat
    <3>4. CeilDiv(x, y) \in Nat
      BY CeilDivNat
    <3>5. OptimalHashes(n, target) = Larger(1, CeilDiv(x, y))
      BY <2>2, <3>2, <3>3 DEF OptimalHashes
    <3> QED
      BY <3>4, <3>5 DEF Larger
  <2> QED
    BY <2>1, <2>2
<1> QED
  BY <1>1, HashBoundsAssumption DEF HashesPerNode, Smaller, Larger

(* Every node of the list gets a point. *)
LEMMA HashesPositive ==
  ASSUME NEW nodes, NEW target, Accepted(nodes, target), NEW i \in DOMAIN nodes
  PROVE  /\ NodeHashes(nodes, target, i) \in Nat
         /\ NodeHashes(nodes, target, i) >= 1
         /\ NodeHashes(nodes, target, i) <= SeedsPerNode
<1>1. PICK n \in Nat, w \in Nat : n = Len(nodes) /\ w = nodes[i].weight
  BY ListIsFinite
<1>2. PICK t \in Nat \ {0} : t = TotalWeight(nodes)
  BY TotalIsPositive
<1>3. PICK h \in Nat : h = HashesPerNode(n, target)
  BY OptimalHashesNat DEF Accepted
<1>4. h * w * n \in Nat
  BY ProductNat
<1>5. (h * w * n) \div t \in Nat
  BY <1>4, QuotientNat
<1>6. NodeHashes(nodes, target, i) = Larger(1, (h * w * n) \div t)
  BY <1>1, <1>2, <1>3 DEF NodeHashes
<1>7. NodeHashes(nodes, target, i) <= SeedsPerNode
  BY DEF Accepted
<1> QED
  BY <1>5, <1>6, <1>7 DEF Larger

-----------------------------------------------------------------------------
(* FlattenSeq, unrolled: the concatenations of the first i sequences. *)
LEMMA Flattened ==
  ASSUME NEW S, NEW seqs \in Seq(S), seqs # <<>>
  PROVE  \E g : /\ FlattenSeq(seqs) = g[Len(seqs)]
                /\ g[1] = seqs[1]
                /\ \A i \in 2 .. Len(seqs) : g[i] = g[i - 1] \o seqs[i]
<1> DEFINE Unrolls(m, g) ==
             g = [i \in 1 .. m |-> IF i = 1 THEN seqs[i] ELSE g[i - 1] \o seqs[i]]
           Bad == {m \in Nat : \A g : ~Unrolls(m, g)}
<1>1. Bad = {}
  <2> SUFFICES ASSUME Bad # {} PROVE FALSE
    OBVIOUS
  <2>1. PICK m \in Bad : \A y \in Bad : m <= y
    <3>1. Bad \subseteq Nat
      OBVIOUS
    <3> HIDE DEF Bad
    <3> QED
      BY <3>1, LeastNat
  <2>2. m # 0
    <3>1. Unrolls(0, <<>>)
      OBVIOUS
    <3> QED
      BY <3>1
  <2>3. PICK g : Unrolls(m - 1, g)
    <3>1. m \in Nat
      OBVIOUS
    <3>2. m - 1 \in Nat /\ ~(m <= m - 1)
      BY <3>1, <2>2
    <3>3. m - 1 \notin Bad
      <4> HIDE DEF Bad
      <4> QED
        BY <3>2, <2>1
    <3> HIDE DEF Unrolls
    <3> QED
      BY <3>2, <3>3
  <2> DEFINE h == [i \in 1 .. m |-> IF i = m
                     THEN (IF i = 1 THEN seqs[i] ELSE g[i - 1] \o seqs[i]) ELSE g[i]]
  <2>4. ASSUME NEW i \in 1 .. m
        PROVE  h[i] = IF i = 1 THEN seqs[i] ELSE h[i - 1] \o seqs[i]
    <3>1. m \in Nat /\ m >= 1
      BY <2>2
    <3>2. CASE i = m
      <4>1. i # 1 => h[i - 1] = g[i - 1]
        BY <3>1, <3>2
      <4> QED
        BY <3>2, <4>1
    <3>3. CASE i # m
      <4>1. i \in 1 .. m - 1
        BY <3>1, <3>3
      <4>2. g[i] = IF i = 1 THEN seqs[i] ELSE g[i - 1] \o seqs[i]
        BY <2>3, <4>1
      <4>3. h[i] = g[i] /\ (i # 1 => h[i - 1] = g[i - 1])
        BY <3>1, <3>3, <4>1
      <4> QED
        BY <4>2, <4>3
    <3> QED
      BY <3>2, <3>3
  <2>5. Unrolls(m, h)
    <3>1. h = [i \in 1 .. m |-> h[i]]
      OBVIOUS
    <3> HIDE DEF h
    <3> QED
      BY <3>1, <2>4
  <2> QED
    BY <2>5
<1>2. Len(seqs) \in Nat /\ Len(seqs) >= 1
  OBVIOUS
<1> DEFINE flatten[i \in 1 .. Len(seqs)] ==
             IF i = 1 THEN seqs[i] ELSE flatten[i - 1] \o seqs[i]
<1>3. FlattenSeq(seqs) = flatten[Len(seqs)]
  BY <1>2 DEF FlattenSeq
<1>4. flatten = CHOOSE g : Unrolls(Len(seqs), g)
  OBVIOUS
<1>5. \E g : Unrolls(Len(seqs), g)
  <2>1. Len(seqs) \notin Bad
    <3> HIDE DEF Bad
    <3> QED
      BY <1>1
  <2> HIDE DEF Unrolls
  <2> QED
    BY <1>2, <2>1
<1> HIDE DEF flatten
<1>6. Unrolls(Len(seqs), flatten)
  <2> HIDE DEF Unrolls
  <2> QED
    BY <1>4, <1>5
<1>7. \A i \in 1 .. Len(seqs) :
        flatten[i] = IF i = 1 THEN seqs[i] ELSE flatten[i - 1] \o seqs[i]
  BY <1>6
<1>8. flatten[1] = seqs[1]
  BY <1>2, <1>7
<1>9. ASSUME NEW i \in 2 .. Len(seqs) PROVE flatten[i] = flatten[i - 1] \o seqs[i]
  <2>1. i \in 1 .. Len(seqs) /\ i # 1
    BY <1>2
  <2> QED
    BY <2>1, <1>7
<1> WITNESS flatten
<1> QED
  BY <1>3, <1>8, <1>9

(* The seeds of a ring, and the point that comes of one. *)
Seeds(nodes, target) ==
  {s \in (DOMAIN nodes) \X (Nat \ {0}) : s[2] <= NodeHashes(nodes, target, s[1])}

PointOf(nodes, s) == [hash |-> hashOf[<<nodes[s[1]].id, s[2] - 1>>], node |-> s[1] - 1]

(* The point of a seed is a point, and has the index of the node.          *)
LEMMA PointOfSeed ==
  ASSUME NEW nodes, NEW target, Accepted(nodes, target), HashOK,
         NEW s \in Seeds(nodes, target)
  PROVE  /\ s[1] \in 1 .. Len(nodes) /\ s[2] \in 1 .. NodeHashes(nodes, target, s[1])
         /\ s = <<s[1], s[2]>>
         /\ PointOf(nodes, s) \in Point
         /\ PointOf(nodes, s).node = s[1] - 1
<1>1. /\ s[1] \in DOMAIN nodes /\ s[2] \in Nat \ {0} /\ s = <<s[1], s[2]>>
      /\ s[2] <= NodeHashes(nodes, target, s[1])
  BY DEF Seeds
<1>2. DOMAIN nodes = 1 .. Len(nodes) /\ Len(nodes) \in Nat /\ nodes[s[1]].id \in Ids
  BY <1>1, ListIsFinite
<1>3. /\ NodeHashes(nodes, target, s[1]) \in Nat
      /\ NodeHashes(nodes, target, s[1]) <= SeedsPerNode
  BY <1>1, HashesPositive
<1>4. <<nodes[s[1]].id, s[2] - 1>> \in Ids \X (0 .. SeedsPerNode - 1)
  BY <1>1, <1>2, <1>3, BuildsAssumption
<1>5. hashOf[<<nodes[s[1]].id, s[2] - 1>>] \in Hashes
  BY <1>4 DEF HashOK
<1>6. s[1] - 1 \in Nat
  BY <1>1, <1>2
<1> QED
  BY <1>1, <1>2, <1>3, <1>5, <1>6 DEF PointOf, Point

(* The points of the i-th node, before they are sorted. *)
LEMMA PointsOfNode ==
  ASSUME NEW nodes, NEW target, Accepted(nodes, target), HashOK,
         NEW i \in DOMAIN nodes
  PROVE  /\ NodePoints(nodes, target, i) \in Seq(Point)
         /\ Len(NodePoints(nodes, target, i)) = NodeHashes(nodes, target, i)
         /\ \A j \in 1 .. NodeHashes(nodes, target, i) :
              /\ <<i, j>> \in Seeds(nodes, target)
              /\ NodePoints(nodes, target, i)[j] = PointOf(nodes, <<i, j>>)
<1>1. PICK w \in Nat : w = NodeHashes(nodes, target, i)
  BY HashesPositive
<1>2. (i - 1) % IndexRange = i - 1
  <2>1. i \in 1 .. Len(nodes) /\ Len(nodes) \in Nat
    BY ListIsFinite
  <2>2. Len(nodes) <= IndexRange /\ IndexRange \in Nat \ {0}
    BY <2>1, HashBoundsAssumption DEF Accepted, TooMany
  <2>3. i - 1 \in 0 .. IndexRange - 1
    BY <2>1, <2>2
  <2> QED
    BY <2>2, <2>3
<1>3. ASSUME NEW j \in 1 .. w
      PROVE  /\ <<i, j>> \in Seeds(nodes, target)
             /\ NodePoints(nodes, target, i)[j] = PointOf(nodes, <<i, j>>)
             /\ NodePoints(nodes, target, i)[j] \in Point
  <2>1. <<i, j>> \in Seeds(nodes, target)
    BY <1>1 DEF Seeds
  <2>2. NodePoints(nodes, target, i)[j] = PointOf(nodes, <<i, j>>)
    BY <1>1, <1>2 DEF NodePoints, PointOf
  <2> QED
    BY <2>1, <2>2, PointOfSeed
<1>4. /\ NodePoints(nodes, target, i) \in [1 .. w -> Point]
      /\ DOMAIN NodePoints(nodes, target, i) = 1 .. w
  <2>1. NodePoints(nodes, target, i) = [j \in 1 .. w |-> NodePoints(nodes, target, i)[j]]
    BY <1>1 DEF NodePoints
  <2> QED
    BY <2>1, <1>3
<1>5. NodePoints(nodes, target, i) \in Seq(Point) /\ Len(NodePoints(nodes, target, i)) = w
  BY <1>4
<1> QED
  BY <1>1, <1>3, <1>5

(* One more element for each of the next w positions. *)
LEMMA ExtendBijection ==
  ASSUME NEW L \in Nat, NEW w \in Nat, NEW A, NEW f \in Bijection(1 .. L, A),
         NEW g, NEW B,
         \A j \in 1 .. w : g[j] \in B /\ g[j] \notin A,
         \A i, j \in 1 .. w : g[i] = g[j] => i = j,
         \A b \in B : \E j \in 1 .. w : g[j] = b,
         NEW h \in [1 .. L + w -> A \cup B],
         \A k \in 1 .. L : h[k] = f[k],
         \A k \in L + 1 .. L + w : h[k] = g[k - L]
  PROVE  h \in Bijection(1 .. L + w, A \cup B)
<1>1. /\ f \in [1 .. L -> A]
      /\ \A i, j \in 1 .. L : f[i] = f[j] => i = j
      /\ \A a \in A : \E i \in 1 .. L : f[i] = a
  BY DEF Bijection, Injection, Surjection, IsInjective
<1>2. \A k \in 1 .. L : k \in 1 .. L + w /\ h[k] = f[k] /\ f[k] \in A
  BY <1>1
<1>3. \A k \in L + 1 .. L + w :
        k \in 1 .. L + w /\ k - L \in 1 .. w /\ h[k] = g[k - L]
  OBVIOUS
<1>4. \A k \in 1 .. L + w : k \in 1 .. L \/ k \in L + 1 .. L + w
  OBVIOUS
<1>5. \A j \in 1 .. w : j + L \in L + 1 .. L + w /\ (j + L) - L = j
  OBVIOUS
<1>6. h \in [1 .. L + w -> A \cup B]
  OBVIOUS
<1>7. ASSUME NEW i \in 1 .. L + w, NEW j \in 1 .. L + w, h[i] = h[j] PROVE i = j
  <2>1. CASE i \in 1 .. L /\ j \in 1 .. L
    BY <1>1, <1>2, <1>7, <2>1
  <2>2. CASE i \in L + 1 .. L + w /\ j \in L + 1 .. L + w
    <3>1. i - L = j - L
      BY <1>3, <1>7, <2>2
    <3> QED
      BY <3>1
  <2>3. CASE i \in 1 .. L /\ j \in L + 1 .. L + w
    BY <1>2, <1>3, <1>7, <2>3
  <2>4. CASE i \in L + 1 .. L + w /\ j \in 1 .. L
    BY <1>2, <1>3, <1>7, <2>4
  <2> QED
    BY <1>4, <2>1, <2>2, <2>3, <2>4
<1>8. ASSUME NEW c \in A \cup B PROVE \E k \in 1 .. L + w : h[k] = c
  <2>1. CASE c \in A
    BY <1>1, <1>2, <2>1
  <2>2. CASE c \in B
    <3>1. PICK j \in 1 .. w : g[j] = c
      BY <2>2
    <3> QED
      BY <3>1, <1>3, <1>5
  <2> QED
    BY <2>1, <2>2
<1>9. h \in Injection(1 .. L + w, A \cup B)
  BY <1>6, <1>7 DEF Injection, IsInjective
<1>10. h \in Surjection(1 .. L + w, A \cup B)
  BY <1>6, <1>8 DEF Surjection
<1> QED
  BY <1>9, <1>10 DEF Bijection

(* Before they are sorted, the points are those of the seeds, one for each. *)
LEMMA AllPointsFromSeeds ==
  ASSUME NEW nodes, NEW target, Accepted(nodes, target), HashOK
  PROVE  /\ AllPoints(nodes, target) \in Seq(Point)
         /\ \E f \in Bijection(DOMAIN AllPoints(nodes, target), Seeds(nodes, target)) :
              \A k \in DOMAIN AllPoints(nodes, target) :
                AllPoints(nodes, target)[k] = PointOf(nodes, f[k])
<1> DEFINE seqs == [i \in 1 .. Len(nodes) |-> NodePoints(nodes, target, i)]
           UpTo(m) == {s \in Seeds(nodes, target) : s[1] <= m}
           Dealt(p, m) ==
             /\ p \in Seq(Point)
             /\ \E f \in Bijection(1 .. Len(p), UpTo(m)) :
                  \A k \in 1 .. Len(p) : p[k] = PointOf(nodes, f[k])
<1>1. PICK N \in Nat : N = Len(nodes) /\ N >= 1 /\ DOMAIN nodes = 1 .. N
  BY ListIsFinite
<1>2. /\ seqs \in Seq(Seq(Point)) /\ seqs # <<>> /\ Len(seqs) = N
      /\ \A i \in 1 .. N : seqs[i] = NodePoints(nodes, target, i)
  <2>1. \A i \in 1 .. N : NodePoints(nodes, target, i) \in Seq(Point)
    BY <1>1, PointsOfNode
  <2>2. seqs \in [1 .. N -> Seq(Point)] /\ DOMAIN seqs = 1 .. N
    BY <1>1, <2>1
  <2>3. \A i \in 1 .. N : seqs[i] = NodePoints(nodes, target, i)
    BY <1>1
  <2> HIDE DEF seqs
  <2>4. seqs \in Seq(Seq(Point)) /\ Len(seqs) = N
    BY <2>2
  <2>5. seqs # <<>>
    BY <2>4, <1>1
  <2> QED
    BY <2>3, <2>4, <2>5
<1>3. AllPoints(nodes, target) = FlattenSeq(seqs)
  BY DEF AllPoints
<1> HIDE DEF seqs
<1>4. PICK g : /\ FlattenSeq(seqs) = g[N] /\ g[1] = seqs[1]
               /\ \A i \in 2 .. N : g[i] = g[i - 1] \o seqs[i]
  <2>1. \E g : /\ FlattenSeq(seqs) = g[Len(seqs)] /\ g[1] = seqs[1]
               /\ \A i \in 2 .. Len(seqs) : g[i] = g[i - 1] \o seqs[i]
    BY <1>2, Flattened, Zenon
  <2> QED
    BY <2>1, <1>2
<1>5. ASSUME NEW m \in 1 .. N, NEW p, Dealt(p, m - 1), NEW t, t = p \o seqs[m]
      PROVE  Dealt(t, m)
  <2>1. PICK f \in Bijection(1 .. Len(p), UpTo(m - 1)) :
               \A k \in 1 .. Len(p) : p[k] = PointOf(nodes, f[k])
    BY <1>5
  <2>2. p \in Seq(Point)
    BY <1>5
  <2>3. PICK L \in Nat, w \in Nat : L = Len(p) /\ w = NodeHashes(nodes, target, m)
    BY <1>1, <2>2, HashesPositive
  <2> DEFINE q == seqs[m]
             new == [j \in 1 .. w |-> <<m, j>>]
             Own == {s \in Seeds(nodes, target) : s[1] = m}
             h == [k \in 1 .. L + w |-> IF k <= L THEN f[k] ELSE new[k - L]]
  <2>4. /\ q \in Seq(Point) /\ Len(q) = w
        /\ \A j \in 1 .. w : <<m, j>> \in Seeds(nodes, target) /\ q[j] = PointOf(nodes, <<m, j>>)
    BY <1>1, <1>2, <2>3, PointsOfNode
  <2>5. UpTo(m) = UpTo(m - 1) \cup Own
    <3>1. \A s \in Seeds(nodes, target) : s[1] <= m <=> s[1] <= m - 1 \/ s[1] = m
      <4> TAKE s \in Seeds(nodes, target)
      <4>1. s[1] \in Int
        BY <1>1, PointOfSeed
      <4> QED
        BY <4>1
    <3> QED
      BY <3>1
  <2>6. /\ \A j \in 1 .. w : new[j] \in Own /\ new[j] \notin UpTo(m - 1)
        /\ \A i, j \in 1 .. w : new[i] = new[j] => i = j
        /\ \A b \in Own : \E j \in 1 .. w : new[j] = b
    <3>1. ASSUME NEW j \in 1 .. w PROVE new[j] \in Own /\ new[j] \notin UpTo(m - 1)
      BY <2>4
    <3>2. \A i, j \in 1 .. w : new[i] = new[j] => i = j
      OBVIOUS
    <3>3. ASSUME NEW b \in Own PROVE \E j \in 1 .. w : new[j] = b
      <4>1. b = <<b[1], b[2]>> /\ b[1] = m /\ b[2] \in 1 .. w
        BY <2>3, PointOfSeed
      <4> QED
        BY <4>1
    <3> HIDE DEF new, Own, UpTo
    <3> QED
      BY <3>1, <3>2, <3>3
  <2>7. h \in Bijection(1 .. L + w, UpTo(m))
    <3>1. f \in Bijection(1 .. L, UpTo(m - 1))
      BY <2>3
    <3> HIDE DEF new, Own, UpTo
    <3>2. h \in Bijection(1 .. L + w, UpTo(m - 1) \cup Own)
      <4>1. PICK A : A = UpTo(m - 1)
        OBVIOUS
      <4>2. f \in Bijection(1 .. L, A)
        BY <3>1, <4>1
      <4>3. \A j \in 1 .. w : new[j] \in Own /\ new[j] \notin A
        BY <2>6, <4>1
      <4>4. /\ \A i, j \in 1 .. w : new[i] = new[j] => i = j
            /\ \A b \in Own : \E j \in 1 .. w : new[j] = b
        BY <2>6
      <4>5. /\ \A k \in 1 .. L : h[k] = f[k]
            /\ \A k \in L + 1 .. L + w : h[k] = new[k - L]
            /\ h \in [1 .. L + w -> A \cup Own]
        <5>1. \A k \in 1 .. L : f[k] \in A
          BY <4>2 DEF Bijection, Injection
        <5>2. \A k \in 1 .. L + w : (IF k <= L THEN f[k] ELSE new[k - L]) \in A \cup Own
          BY <5>1, <4>3
        <5> QED
          BY <5>2
      <4> HIDE DEF h
      <4>6. h \in Bijection(1 .. L + w, A \cup Own)
        BY ZenonT(30), <4>2, <4>3, <4>4, <4>5, ExtendBijection
      <4> QED
        BY <4>1, <4>6
    <3> QED
      BY <2>5, <3>2
  <2>8. t \in Seq(Point) /\ Len(t) = L + w
    <3>1. t = p \o q
      BY <1>5
    <3>2. q \in Seq(Point) /\ Len(q) = w
      BY <2>4
    <3> HIDE DEF q
    <3> QED
      BY <2>2, <2>3, <3>1, <3>2
  <2>9. ASSUME NEW k \in 1 .. L + w PROVE t[k] = PointOf(nodes, h[k])
    <3>1. t = p \o q
      BY <1>5
    <3> HIDE DEF q
    <3>2. CASE k <= L
      <4>1. k \in 1 .. L /\ h[k] = f[k]
        BY <3>2
      <4>2. t[k] = p[k]
        BY <3>1, <4>1, <2>2, <2>3, <2>4
      <4> HIDE DEF h
      <4> QED
        BY <2>1, <2>3, <4>1, <4>2
    <3>3. CASE ~(k <= L)
      <4>1. k - L \in 1 .. w /\ h[k] = <<m, k - L>>
        BY <3>3
      <4>2. t[k] = q[k - L]
        BY <3>1, <3>3, <2>2, <2>3, <2>4
      <4> HIDE DEF h
      <4> QED
        BY <2>4, <4>1, <4>2
    <3> QED
      BY <3>2, <3>3
  <2> HIDE DEF h, UpTo
  <2> QED
    BY <2>7, <2>8, <2>9
<1>6. Dealt(<<>>, 0)
  <2>1. UpTo(0) = {}
    <3>1. \A s \in Seeds(nodes, target) : ~(s[1] <= 0)
      <4> TAKE s \in Seeds(nodes, target)
      <4>1. s[1] \in 1 .. N
        BY <1>1, PointOfSeed
      <4> QED
        BY <4>1
    <3> QED
      BY <3>1
  <2>2. <<>> \in Seq(Point) /\ Len(<<>>) = 0
    OBVIOUS
  <2>3. <<>> \in Bijection(1 .. 0, {})
    BY DEF Bijection, Injection, Surjection, IsInjective
  <2> HIDE DEF UpTo
  <2>4. <<>> \in Bijection(1 .. Len(<<>>), UpTo(0))
    BY <2>1, <2>2, <2>3
  <2>5. \A k \in 1 .. Len(<<>>) : <<>>[k] = PointOf(nodes, <<>>[k])
    BY <2>2
  <2> QED
    BY <2>2, <2>4, <2>5
<1> HIDE DEF Dealt
<1> DEFINE Bad == {m \in Nat : m \in 1 .. N /\ ~Dealt(g[m], m)}
<1>7. Bad = {}
  <2> SUFFICES ASSUME Bad # {} PROVE FALSE
    OBVIOUS
  <2>1. PICK m \in Bad : \A y \in Bad : m <= y
    <3>1. Bad \subseteq Nat
      OBVIOUS
    <3> HIDE DEF Bad
    <3> QED
      BY <3>1, LeastNat
  <2>2. m \in Nat /\ m \in 1 .. N /\ ~Dealt(g[m], m)
    OBVIOUS
  <2>3. CASE m = 1
    <3>1. seqs[1] \in Seq(Point)
      BY <1>1, <1>2, PointsOfNode
    <3>2. g[1] = <<>> \o seqs[1]
      BY <1>4, <3>1
    <3>3. Dealt(<<>>, m - 1)
      BY <1>6, <2>3
    <3> QED
      BY <1>5, <2>2, <2>3, <3>2, <3>3
  <2>4. CASE m # 1
    <3>1. m - 1 \in 1 .. N /\ m - 1 \in Nat /\ ~(m <= m - 1) /\ m \in 2 .. N
      BY <1>1, <2>2, <2>4
    <3>2. m - 1 \notin Bad
      <4> HIDE DEF Bad
      <4> QED
        BY <2>1, <3>1
    <3>3. Dealt(g[m - 1], m - 1)
      BY <3>1, <3>2
    <3>4. g[m] = g[m - 1] \o seqs[m]
      BY <1>4, <3>1
    <3> QED
      BY <1>5, <2>2, <3>3, <3>4
  <2> QED
    BY <2>3, <2>4
<1>8. Dealt(g[N], N)
  BY <1>1, <1>7
<1>9. UpTo(N) = Seeds(nodes, target)
  <2>1. \A s \in Seeds(nodes, target) : s[1] <= N
    <3> TAKE s \in Seeds(nodes, target)
    <3>1. s[1] \in 1 .. N
      BY <1>1, PointOfSeed
    <3> QED
      BY <3>1
  <2> QED
    BY <2>1
<1>10. AllPoints(nodes, target) = g[N]
  BY <1>3, <1>4
<1>11. DOMAIN g[N] = 1 .. Len(g[N])
  BY <1>8 DEF Dealt
<1> HIDE DEF UpTo
<1> QED
  BY <1>8, <1>9, <1>10, <1>11 DEF Dealt

(* What `new` makes: sorted points, one for each seed. *)
LEMMA RingFromSeeds ==
  ASSUME NEW nodes, NEW target, Accepted(nodes, target), HashOK
  PROVE  LET points == RingPoints(nodes, target)
         IN  /\ points \in Seq(Point) /\ Sorted(points) /\ Len(points) > 0
             /\ \E f \in Bijection(DOMAIN points, Seeds(nodes, target)) :
                  \A k \in DOMAIN points : points[k] = PointOf(nodes, f[k])
<1> DEFINE all == AllPoints(nodes, target)
           points == RingPoints(nodes, target)
<1>1. all \in Seq(Point)
  BY AllPointsFromSeeds
<1>2. PICK f \in Bijection(DOMAIN all, Seeds(nodes, target)) :
             \A k \in DOMAIN all : all[k] = PointOf(nodes, f[k])
  BY AllPointsFromSeeds
<1>3. /\ points \in Seq(Point) /\ Sorted(points) /\ Len(points) = Len(all)
      /\ \E pi \in Bijection(DOMAIN all, DOMAIN all) :
           \A k \in DOMAIN all : points[k] = all[pi[k]]
  BY <1>1, SortSorts DEF RingPoints
<1>4. PICK pi \in Bijection(DOMAIN all, DOMAIN all) :
             \A k \in DOMAIN all : points[k] = all[pi[k]]
  BY <1>3
<1>5. DOMAIN points = DOMAIN all
  BY <1>1, <1>3
<1> DEFINE g == [k \in DOMAIN all |-> f[pi[k]]]
<1> HIDE DEF all, points
<1>6. /\ pi \in [DOMAIN all -> DOMAIN all] /\ f \in [DOMAIN all -> Seeds(nodes, target)]
      /\ \A i, j \in DOMAIN all : pi[i] = pi[j] => i = j
      /\ \A i, j \in DOMAIN all : f[i] = f[j] => i = j
      /\ \A i \in DOMAIN all : \E j \in DOMAIN all : pi[j] = i
      /\ \A x \in Seeds(nodes, target) : \E j \in DOMAIN all : f[j] = x
  BY DEF Bijection, Injection, Surjection, IsInjective
<1>7. g \in Bijection(DOMAIN points, Seeds(nodes, target))
  <2>1. g \in [DOMAIN all -> Seeds(nodes, target)]
    BY <1>6
  <2>2. \A i, j \in DOMAIN all : g[i] = g[j] => i = j
    BY <1>6
  <2>3. ASSUME NEW x \in Seeds(nodes, target) PROVE \E j \in DOMAIN all : g[j] = x
    <3>1. PICK i \in DOMAIN all : f[i] = x
      BY <1>6
    <3>2. PICK j \in DOMAIN all : pi[j] = i
      BY <1>6
    <3> QED
      BY <3>1, <3>2
  <2> HIDE DEF g
  <2> QED
    BY <1>5, <2>1, <2>2, <2>3 DEF Bijection, Injection, Surjection, IsInjective
<1>8. \A k \in DOMAIN points : points[k] = PointOf(nodes, g[k])
  BY <1>2, <1>4, <1>5, <1>6
<1>9. Len(points) > 0
  <2>1. 1 \in DOMAIN nodes
    BY ListIsFinite
  <2>2. NodeHashes(nodes, target, 1) \in Nat /\ NodeHashes(nodes, target, 1) >= 1
    BY <2>1, HashesPositive
  <2>3. <<1, 1>> \in Seeds(nodes, target)
    BY <2>1, <2>2 DEF Seeds
  <2>4. PICK j \in DOMAIN points : g[j] = <<1, 1>>
    BY <1>7, <2>3 DEF Bijection, Surjection
  <2> QED
    BY <1>3, <2>4
<1> HIDE DEF g
<1> QED
  BY <1>3, <1>7, <1>8, <1>9 DEF points

-----------------------------------------------------------------------------
(* Snapshots. *)

(* The sequences a snapshot is joined of.                                  *)
LEMMA PairSeq ==
  ASSUME NEW S, NEW v \in S, NEW x \in S
  PROVE  \E a \in Seq(S) : a = <<v, x>> /\ Len(a) = 2 /\ a[1] = v /\ a[2] = x
<1>1. /\ <<v, x>> \in Seq(S) /\ Len(<<v, x>>) = 2
      /\ <<v, x>>[1] = v /\ <<v, x>>[2] = x
  OBVIOUS
<1> QED
  BY <1>1

LEMMA OneSeq ==
  ASSUME NEW S, NEW y \in S
  PROVE  \E a \in Seq(S) : a = <<y>> /\ Len(a) = 1 /\ a[1] = y
<1>1. <<y>> \in Seq(S) /\ Len(<<y>>) = 1 /\ <<y>>[1] = y
  OBVIOUS
<1> QED
  BY <1>1

(* u is s followed by t. *)
Joins(u, s, t) ==
  /\ u = s \o t /\ Len(u) = Len(s) + Len(t)
  /\ \A i \in 1 .. Len(s) : u[i] = s[i]
  /\ \A i \in 1 .. Len(t) : u[Len(s) + i] = t[i]

LEMMA Joined ==
  ASSUME NEW S, NEW s \in Seq(S), NEW t \in Seq(S)
  PROVE  \E u \in Seq(S) : Joins(u, s, t)
<1>1. /\ s \o t \in Seq(S) /\ Len(s \o t) = Len(s) + Len(t)
      /\ \A i \in 1 .. Len(s) + Len(t) :
           (s \o t)[i] = IF i <= Len(s) THEN s[i] ELSE t[i - Len(s)]
  BY ConcatProperties
<1>2. Len(s) \in Nat /\ Len(t) \in Nat
  BY LenProperties
<1>3. \A i \in 1 .. Len(s) : i \in 1 .. Len(s) + Len(t) /\ i <= Len(s)
  BY <1>2
<1>4. \A i \in 1 .. Len(t) :
        /\ Len(s) + i \in 1 .. Len(s) + Len(t)
        /\ ~(Len(s) + i <= Len(s)) /\ (Len(s) + i) - Len(s) = i
  BY <1>2
<1>5. \A i \in 1 .. Len(s) : (s \o t)[i] = s[i]
  BY <1>1, <1>3
<1>6. \A i \in 1 .. Len(t) : (s \o t)[Len(s) + i] = t[i]
  BY <1>1, <1>4
<1>7. Joins(s \o t, s, t)
  BY <1>1, <1>5, <1>6 DEF Joins
<1> QED
  BY <1>1, <1>7

(* The fields of a snapshot: the version, the number of nodes (x), the     *)
(* nodes, the number of points (y), the points.                            *)
Fields(w, v, x, nodes, y, points) ==
  /\ w = <<v, x>> \o nodes \o <<y>> \o points
  /\ Len(w) = 3 + Len(nodes) + Len(points)
  /\ w[1] = v /\ w[2] = x /\ w[3 + Len(nodes)] = y
  /\ \A i \in 1 .. Len(nodes) : w[2 + i] = nodes[i]
  /\ \A i \in 1 .. Len(points) : w[3 + Len(nodes) + i] = points[i]

(* A snapshot has these fields, and no others.                             *)
LEMMA FieldsOfSnapshot ==
  ASSUME NEW S, NEW nodes \in Seq(S), NEW points \in Seq(S), NEW v \in S,
         NEW x \in S, NEW y \in S
  PROVE  \E w \in Seq(S) : Fields(w, v, x, nodes, y, points)
<1>1. PICK n \in Nat, m \in Nat : n = Len(nodes) /\ m = Len(points)
  BY LenProperties
<1>2. PICK a \in Seq(S) : a = <<v, x>> /\ Len(a) = 2 /\ a[1] = v /\ a[2] = x
  BY PairSeq
<1>3. PICK b \in Seq(S) : Joins(b, a, nodes)
  BY Joined
<1>4. PICK l \in Seq(S) : l = <<y>> /\ Len(l) = 1 /\ l[1] = y
  BY OneSeq
<1>5. PICK c \in Seq(S) : Joins(c, b, l)
  BY Joined
<1>6. PICK w \in Seq(S) : Joins(w, c, points)
  BY Joined
<1>7. Len(a) = 2 /\ Len(b) = 2 + n /\ Len(c) = 3 + n /\ Len(w) = 3 + n + m
  <2>1. Len(b) = 2 + n
    BY <1>2, <1>3, <1>1 DEF Joins
  <2>2. Len(c) = 3 + n
    BY <1>4, <1>5, <2>1 DEF Joins
  <2>3. Len(w) = 3 + n + m
    BY <1>6, <1>1, <2>2 DEF Joins
  <2> QED
    BY <1>2, <2>1, <2>2, <2>3
<1>8. \A i \in 1 .. 3 + n : w[i] = c[i]
  BY <1>6, <1>7 DEF Joins
<1>9. \A i \in 1 .. 2 + n : w[i] = b[i]
  <2>1. \A i \in 1 .. 2 + n : i \in 1 .. 3 + n /\ i \in 1 .. Len(b)
    BY <1>7
  <2> QED
    BY <1>5, <1>8, <2>1 DEF Joins
<1>10. w[1] = v /\ w[2] = x
  <2>1. 1 \in 1 .. 2 + n /\ 2 \in 1 .. 2 + n /\ 1 \in 1 .. Len(a) /\ 2 \in 1 .. Len(a)
    BY <1>7
  <2>2. b[1] = v /\ b[2] = x
    BY <1>2, <1>3, <2>1 DEF Joins
  <2> QED
    BY <1>9, <2>1, <2>2
<1>11. w[3 + n] = y
  <2>1. Len(b) + 1 = 3 + n /\ 3 + n \in 1 .. 3 + n /\ 1 \in 1 .. Len(l)
    BY <1>4, <1>7
  <2>2. c[Len(b) + 1] = y
    BY <1>4, <1>5, <2>1 DEF Joins
  <2> QED
    BY <1>8, <2>1, <2>2
<1>12. \A i \in 1 .. n : w[2 + i] = nodes[i]
  <2> TAKE i \in 1 .. n
  <2>1. 2 + i \in 1 .. 2 + n /\ 2 + i = Len(a) + i
    BY <1>7
  <2>2. b[Len(a) + i] = nodes[i]
    BY <1>3, <1>1 DEF Joins
  <2> QED
    BY <1>9, <2>1, <2>2
<1>13. \A i \in 1 .. m : w[3 + n + i] = points[i]
  BY <1>6, <1>7, <1>1 DEF Joins
<1>14. w = <<v, x>> \o nodes \o <<y>> \o points
  BY <1>2, <1>3, <1>4, <1>5, <1>6 DEF Joins
<1>15. Len(w) = 3 + n + m
  BY <1>7
<1> QED
  BY <1>10, <1>11, <1>12, <1>13, <1>14, <1>15, <1>1 DEF Fields

(* A part of a sequence, one that starts after the element `from`. *)
IsPart(u, s, from, a, to) ==
  /\ u = SubSeq(s, a, to)
  /\ Len(u) = IF from <= to THEN to - from ELSE 0
  /\ \A i \in 1 .. to - from : u[i] = s[from + i]

LEMMA PartOf ==
  ASSUME NEW S, NEW s \in Seq(S), NEW from \in Nat, NEW to \in Int,
         to <= Len(s), NEW a \in Int, a = from + 1
  PROVE  \E u \in Seq(S) : IsPart(u, s, from, a, to)
<1>1. \A i \in a .. to : s[i] \in S
  <2> TAKE i \in a .. to
  <2>1. i \in 1 .. Len(s)
    OBVIOUS
  <2> QED
    BY <2>1, ElementOfSeq
<1>2. /\ SubSeq(s, a, to) \in Seq(S)
      /\ Len(SubSeq(s, a, to)) = IF a <= to THEN to - a + 1 ELSE 0
      /\ \A i \in 1 .. to - a + 1 : SubSeq(s, a, to)[i] = s[a + i - 1]
  BY <1>1, SubSeqProperties
<1>3. /\ to - a + 1 = to - from /\ \A i \in 1 .. to - from : a + i - 1 = from + i
      /\ (IF a <= to THEN to - a + 1 ELSE 0) = IF from <= to THEN to - from ELSE 0
  OBVIOUS
<1>4. \A i \in 1 .. to - from : SubSeq(s, a, to)[i] = s[from + i]
  BY <1>2, <1>3
<1>5. Len(SubSeq(s, a, to)) = IF from <= to THEN to - from ELSE 0
  BY <1>2, <1>3
<1>6. IsPart(SubSeq(s, a, to), s, from, a, to)
  BY <1>4, <1>5 DEF IsPart
<1> QED
  BY <1>2, <1>6

(* A part with the elements of a sequence is that sequence.                *)
LEMMA PartIs ==
  ASSUME NEW S, NEW s \in Seq(S), NEW t \in Seq(S), NEW from \in Nat, NEW to \in Int,
         to = from + Len(t), to <= Len(s), \A i \in 1 .. Len(t) : s[from + i] = t[i],
         NEW a \in Int, a = from + 1
  PROVE  SubSeq(s, a, to) = t
<1>1. PICK u \in Seq(S) : IsPart(u, s, from, a, to)
  BY PartOf
<1>2. PICK n \in Nat : n = Len(t)
  BY LenProperties
<1>3. to - from = n /\ from <= to
  BY <1>2
<1>4. Len(u) = n
  BY <1>1, <1>3 DEF IsPart
<1>5. \A i \in 1 .. n : u[i] = t[i]
  BY <1>1, <1>2, <1>3 DEF IsPart
<1>6. u = t
  BY <1>2, <1>4, <1>5, SeqEqual
<1> QED
  BY <1>1, <1>6 DEF IsPart

(* What is left of a snapshot that lost its last fields. *)
IsCut(bytes, v, nodes, points, lost) ==
  LET whole == <<v, Len(nodes)>> \o nodes \o <<Len(points)>> \o points
  IN  bytes = SubSeq(whole, 1, Len(whole) - lost)

(* What can be read of a snapshot is all of it. *)
LEMMA SnapshotReadsBack ==
  ASSUME NEW S, Nat \subseteq S, NEW nodes \in Seq(S), NEW points \in Seq(S),
         NEW v \in S, NEW lost \in Nat, NEW cut, IsCut(cut, v, nodes, points, lost),
         Readable(cut)
  PROVE  NodesIn(cut) = nodes /\ PointsIn(cut) = points
<1>1. PICK whole :
         /\ whole = <<v, Len(nodes)>> \o nodes \o <<Len(points)>> \o points
         /\ cut = SubSeq(whole, 1, Len(whole) - lost)
  BY DEF IsCut
<1>2. PICK n \in Nat, m \in Nat : n = Len(nodes) /\ m = Len(points)
  BY LenProperties
<1>3. PICK x \in S, y \in S : x = n /\ y = m
  BY <1>2
<1>4. PICK w \in Seq(S) : Fields(w, v, x, nodes, y, points)
  BY FieldsOfSnapshot
<1>5. /\ w = <<v, x>> \o nodes \o <<y>> \o points
      /\ Len(w) = 3 + n + m
      /\ w[1] = v /\ w[2] = x /\ w[3 + n] = y
      /\ \A i \in 1 .. n : w[2 + i] = nodes[i]
      /\ \A i \in 1 .. m : w[3 + n + i] = points[i]
  BY <1>2, <1>4 DEF Fields
<1>6. w = whole
  BY <1>2, <1>3, <1>5, <1>1
<1>7. PICK k \in Int, one \in Int : k = 3 + n + m - lost /\ one = 1
  OBVIOUS
<1>8. PICK zero \in Nat : zero = 0
  OBVIOUS
<1>9. PICK bytes \in Seq(S) : IsPart(bytes, w, zero, one, k)
  <2>1. k <= Len(w) /\ one = zero + 1
    BY <1>5, <1>7, <1>8
  <2> QED
    BY <2>1, PartOf
<1>10. Readable(bytes) /\ bytes = cut
  <2>1. k = Len(whole) - lost
    BY <1>5, <1>6, <1>7
  <2> QED
    BY <1>6, <1>7, <1>9, <1>1, <2>1 DEF IsPart
<1>11. /\ Len(bytes) = IF 0 <= k THEN k ELSE 0
      /\ \A i \in 1 .. k : bytes[i] = w[i]
  BY <1>8, <1>9 DEF IsPart
<1>12. PICK len \in Nat : len = Len(bytes)
  BY LenProperties
<1>13. 2 <= k /\ k = len
  <2>1. len >= 2
    BY <1>10, <1>12 DEF Readable
  <2> QED
    BY <1>11, <1>12, <2>1
<1>14. bytes[2] = n /\ CountAt(bytes) = 3 + n
  <2>1. bytes[2] = n
    BY <1>3, <1>5, <1>11, <1>13
  <2> QED
    BY <2>1 DEF CountAt
<1>15. 3 + n <= k
  BY <1>10, <1>12, <1>13, <1>14 DEF Readable
<1>16. bytes[3 + n] = m
  <2>1. 3 + n \in 1 .. k
    BY <1>15
  <2> QED
    BY <1>3, <1>5, <1>11, <2>1
<1>17. k = 3 + n + m
  <2>1. 3 + n + m <= k
    BY <1>10, <1>12, <1>13, <1>14, <1>16 DEF Readable
  <2> QED
    BY <1>7, <2>1
<1>18. NodesIn(bytes) = nodes
  <2>1. PICK a \in Int, from \in Nat, to \in Int :
          a = 3 /\ from = 2 /\ to = CountAt(bytes) - 1
    BY <1>14
  <2>2. \A i \in 1 .. Len(nodes) : bytes[from + i] = nodes[i]
    <3> TAKE i \in 1 .. Len(nodes)
    <3>1. from + i = 2 + i /\ 2 + i \in 1 .. k
      BY <1>2, <1>17, <2>1
    <3> QED
      BY <1>2, <1>5, <1>11, <3>1
  <2>3. to = from + Len(nodes) /\ to <= Len(bytes) /\ a = from + 1
    BY <1>2, <1>12, <1>13, <1>14, <1>15, <2>1
  <2>4. SubSeq(bytes, a, to) = nodes
    BY <2>2, <2>3, PartIs
  <2> QED
    BY <2>1, <2>4 DEF NodesIn
<1>19. PointsIn(bytes) = points
  <2>1. PICK a \in Int, from \in Nat, to \in Int :
          /\ a = CountAt(bytes) + 1 /\ from = 3 + n
          /\ to = CountAt(bytes) + bytes[CountAt(bytes)]
    BY <1>14, <1>16
  <2>2. \A i \in 1 .. Len(points) : bytes[from + i] = points[i]
    <3> TAKE i \in 1 .. Len(points)
    <3>1. from + i = 3 + n + i /\ from + i \in 1 .. k
      BY <1>2, <1>17, <2>1
    <3> QED
      BY <1>2, <1>5, <1>11, <3>1
  <2>3. to = from + Len(points) /\ to <= Len(bytes) /\ a = from + 1
    BY <1>2, <1>12, <1>13, <1>14, <1>16, <1>17, <2>1
  <2>4. SubSeq(bytes, a, to) = points
    BY <2>2, <2>3, PartIs
  <2> QED
    BY <2>1, <2>4 DEF PointsIn
<1> QED
  BY <1>10, <1>18, <1>19

-----------------------------------------------------------------------------
(* What a process may hold, and the invariant: every ring is the one that  *)
(* `new` builds from its nodes, which were accepted.                       *)
ResultOK(r) ==
  r.outcome = "Ok" => /\ r.nodes \in NodeLists
                      /\ Accepted(r.nodes, r.target)
                      /\ r.points = RingPoints(r.nodes, r.target)

RingsOK ==
  /\ HashOK
  /\ DOMAIN ring = Processes
  /\ \A p \in Processes : ResultOK(ring[p])

(* The points that `new` makes depend on no ring.                          *)
LEMMA SamePoints ==
  ASSUME hashOf' = hashOf, NEW nodes, NEW target
  PROVE  RingPoints(nodes, target)' = RingPoints(nodes, target)
BY DEF RingPoints, AllPoints, NodePoints

(* A call that returns an error or such a ring keeps the invariant.        *)
LEMMA ReturnKeeps ==
  ASSUME RingsOK, NEW p \in Processes, NEW r, ResultOK(r), Return(p, r)
  PROVE  RingsOK'
<1>1. hashOf' = hashOf /\ ring' = [ring EXCEPT ![p] = r]
  BY DEF Return
<1>2. HashOK' /\ DOMAIN ring' = Processes
  BY <1>1 DEF RingsOK, HashOK
<1>3. ASSUME NEW q \in Processes PROVE ResultOK(ring[q])'
  <2>1. PICK x : x = ring'[q]
    OBVIOUS
  <2>2. x = IF q = p THEN r ELSE ring[q]
    BY <1>1, <2>1 DEF RingsOK
  <2>3. ResultOK(x)
    BY <2>2 DEF RingsOK
  <2>4. RingPoints(x.nodes, x.target)' = RingPoints(x.nodes, x.target)
    BY <1>1, SamePoints
  <2>5. ResultOK(x)'
    BY <2>3, <2>4 DEF ResultOK, Accepted
  <2> QED
    BY <2>1, <2>5
<1> QED
  BY <1>2, <1>3 DEF RingsOK

(* CompactRing::new (ring.rs 72-128).                                      *)
LEMMA NewKeeps ==
  ASSUME RingsOK, NEW p \in Processes, NEW nodes \in NodeLists,
         NEW target \in Nat \X (Nat \ {0}),
         \A i \in DOMAIN nodes :
           HasZeroWeight(nodes) \/ NodeHashes(nodes, target, i) <= SeedsPerNode,
         New(p, nodes, target)
  PROVE  RingsOK'
<1>1. ASSUME NEW error, error # "Ok", Return(p, Failed(error)) PROVE RingsOK'
  <2>1. ResultOK(Failed(error))
    BY <1>1 DEF ResultOK, Failed
  <2> QED
    BY <1>1, <2>1, ReturnKeeps
<1>2. CASE RejectEmpty(p, nodes)
  BY <1>1, <1>2 DEF RejectEmpty
<1>3. CASE RejectWeight(p, nodes)
  BY <1>1, <1>3 DEF RejectWeight
<1>4. CASE RejectTooMany(p, nodes)
  BY <1>1, <1>4 DEF RejectTooMany
<1>5. CASE Build(p, nodes, target)
  <2>1. Accepted(nodes, target)
    BY <1>5, BuildsAssumption DEF Accepted, Build
  <2>2. PICK r : r = Made(nodes, RingPoints(nodes, target), target)
    OBVIOUS
  <2>3. ResultOK(r)
    BY <2>1, <2>2 DEF ResultOK, Made
  <2>4. Return(p, r)
    BY <1>5, <2>2 DEF Build
  <2> QED
    BY <2>3, <2>4, ReturnKeeps
<1> QED
  BY <1>2, <1>3, <1>4, <1>5 DEF New

(* CompactRing::from_bytes on the rest of a snapshot (ring.rs 250-317).    *)
LEMMA RestoreKeeps ==
  ASSUME RingsOK, NEW p \in Processes, NEW q \in Processes, NEW version \in Versions,
         NEW lost \in Losses, Restore(p, q, version, lost)
  PROVE  RingsOK'
<1>1. PICK r : r = ring[q] /\ r.outcome = "Ok"
  BY DEF Restore
<1>2. /\ r.nodes \in NodeLists /\ Accepted(r.nodes, r.target)
      /\ r.points = RingPoints(r.nodes, r.target)
  BY <1>1 DEF RingsOK, ResultOK
<1>3. PICK whole, bytes :
        whole = ToBytes(version, r) /\ bytes = SubSeq(whole, 1, Len(whole) - lost)
  OBVIOUS
<1>4. \/ RestoreOtherVersion(p, bytes)
      \/ RestoreUnreadable(p, bytes)
      \/ RestoreRing(p, bytes, r.target)
  BY <1>1, <1>3 DEF Restore
<1>5. ASSUME NEW error, error # "Ok", Return(p, Failed(error)) PROVE RingsOK'
  <2>1. ResultOK(Failed(error))
    BY <1>5 DEF ResultOK, Failed
  <2> QED
    BY <1>5, <2>1, ReturnKeeps
<1>6. CASE RestoreOtherVersion(p, bytes)
  BY <1>5, <1>6 DEF RestoreOtherVersion
<1>7. CASE RestoreUnreadable(p, bytes)
  BY <1>5, <1>7 DEF RestoreUnreadable
<1>8. CASE RestoreRing(p, bytes, r.target)
  <2> DEFINE R == [id : Ids, weight : Nat]
  <2>1. r.nodes \in Seq(R) /\ r.points \in Seq(Point)
    <3>1. r.nodes \in Seq(R)
      BY <1>2 DEF Accepted
    <3>2. HashOK
      BY DEF RingsOK
    <3>3. RingPoints(r.nodes, r.target) \in Seq(Point)
      BY <1>2, <3>2, RingFromSeeds
    <3> QED
      BY <1>2, <3>1, <3>3
  <2>2. PICK S : S = ((Nat \cup Versions) \cup R) \cup Point
    OBVIOUS
  <2> HIDE DEF R
  <2>3. /\ Nat \subseteq S /\ version \in S /\ R \subseteq S /\ Point \subseteq S
    BY <2>2
  <2>4. PICK nodes \in Seq(S), points \in Seq(S) : nodes = r.nodes /\ points = r.points
    BY <2>1, <2>3
  <2>5. Readable(bytes) /\ Return(p, Made(NodesIn(bytes), PointsIn(bytes), r.target))
    BY <1>8 DEF RestoreRing
  <2>6. IsCut(bytes, version, nodes, points, lost)
    BY <1>3, <2>4 DEF ToBytes, IsCut
  <2>7. lost \in Nat
    BY BuildsAssumption
  <2>8. NodesIn(bytes) = nodes /\ PointsIn(bytes) = points
    BY <2>3, <2>5, <2>6, <2>7, SnapshotReadsBack
  <2>9. PICK x : x = Made(r.nodes, r.points, r.target)
    OBVIOUS
  <2>10. ResultOK(x)
    BY <1>2, <2>9 DEF ResultOK, Made
  <2>11. Return(p, x)
    BY <2>4, <2>5, <2>8, <2>9
  <2> QED
    BY <2>10, <2>11, ReturnKeeps
<1> QED
  BY <1>4, <1>6, <1>7, <1>8

(* CompactRing::new on the advice of adaptive.rs.                          *)
LEMMA TuneKeeps ==
  ASSUME RingsOK, NEW p \in Processes, Tune(p)
  PROVE  RingsOK'
<1>1. PICK r : r = ring[p] /\ r.outcome = "Ok"
  BY DEF Tune
<1>2. r.nodes \in NodeLists
  BY <1>1 DEF RingsOK, ResultOK
<1>3. PICK config \in Recommended(r.nodes, Suggested(r.target)) :
        New(p, r.nodes, config.target)
  BY <1>1 DEF Tune
<1>4. config.target = Suggested(r.target)
  BY DEF Recommended
<1>5. PICK target \in Targets : target = config.target
  BY <1>1, <1>4 DEF Tune
<1>6. \A i \in DOMAIN r.nodes :
        HasZeroWeight(r.nodes) \/ NodeHashes(r.nodes, target, i) <= SeedsPerNode
  BY <1>2, TargetsAssumption
<1>7. target \in Nat \X (Nat \ {0})
  BY PlanningAssumption
<1> QED
  BY <1>2, <1>3, <1>5, <1>6, <1>7, NewKeeps

LEMMA RingsStart == Init => RingsOK
<1> SUFFICES ASSUME Init PROVE RingsOK
  OBVIOUS
<1>1. HashOK /\ DOMAIN ring = Processes
  BY DEF Init, HashOK
<1>2. \A p \in Processes : ring[p].outcome = "NotBuilt"
  BY DEF Init, Failed
<1>3. \A p \in Processes : ResultOK(ring[p])
  BY <1>2 DEF ResultOK
<1> QED
  BY <1>1, <1>3 DEF RingsOK

LEMMA RingsStay == RingsOK /\ [PlanningNext]_vars => RingsOK'
<1> SUFFICES ASSUME RingsOK, [PlanningNext]_vars PROVE RingsOK'
  OBVIOUS
<1>1. ASSUME NEW p \in Processes, NEW b \in Builds, New(p, b.nodes, b.target)
      PROVE  RingsOK'
  <2>1. PICK nodes \in NodeLists : nodes = b.nodes
    BY DEF NodeLists
  <2>2. PICK target \in Nat \X (Nat \ {0}) : target = b.target
    BY HashBoundsAssumption
  <2>3. DOMAIN nodes = 1 .. Len(b.nodes)
    BY <2>1, BuildsAssumption
  <2>4. \A i \in DOMAIN nodes :
          HasZeroWeight(nodes) \/ NodeHashes(nodes, target, i) <= SeedsPerNode
    BY <2>1, <2>2, <2>3, SeedsAssumption
  <2>5. New(p, nodes, target)
    BY <1>1, <2>1, <2>2
  <2> QED
    BY <2>4, <2>5, NewKeeps
<1>2. ASSUME NEW p \in Processes, NEW q \in Processes, NEW version \in Versions,
             NEW lost \in Losses, Restore(p, q, version, lost)
      PROVE  RingsOK'
  BY <1>2, RestoreKeeps
<1>3. ASSUME NEW p \in Processes, Tune(p) PROVE RingsOK'
  BY <1>3, TuneKeeps
<1>4. ASSUME UNCHANGED vars PROVE RingsOK'
  <2>1. hashOf' = hashOf /\ ring' = ring
    BY <1>4 DEF vars
  <2>2. ASSUME NEW p \in Processes PROVE ResultOK(ring[p])'
    <3>1. PICK x : x = ring[p] /\ x = ring'[p]
      BY <2>1
    <3>2. ResultOK(x)
      BY <3>1 DEF RingsOK
    <3>3. RingPoints(x.nodes, x.target)' = RingPoints(x.nodes, x.target)
      BY <2>1, SamePoints
    <3>4. ResultOK(x)'
      BY <3>2, <3>3 DEF ResultOK, Accepted
    <3> QED
      BY <3>1, <3>4
  <2> QED
    BY <2>1, <2>2 DEF RingsOK, HashOK
<1> QED
  BY <1>1, <1>2, <1>3, <1>4 DEF PlanningNext, Next

(* RingsOK is an invariant.                                                *)
LEMMA PlanningInvariant == PlanningSpec => []RingsOK
  BY RingsStart, RingsStay, PTL DEF PlanningSpec

(* Processes that nobody tunes are a special case.                         *)
LEMMA BuildingIsPlanning == Spec => PlanningSpec
<1>1. [Next]_vars => [PlanningNext]_vars
  BY DEF PlanningNext
<1> QED
  BY <1>1, PTL DEF Spec, PlanningSpec

-----------------------------------------------------------------------------
(* Lookups. *)

(* Of the points with the hash a lookup ends on, it ends on the last if it *)
(* was for that hash, else on the first.                                   *)
LEMMA TiesInLookup ==
  ASSUME NEW points \in Seq(Point), Len(points) > 0, Sorted(points), NEW h \in Hashes,
         NEW s, s = StartIndex(points, h),
         NEW i \in Matches(points, PointAt(points, s).hash)
  PROVE  /\ s \in 0 .. Len(points) - 1
         /\ h = PointAt(points, s).hash => i <= s
         /\ h # PointAt(points, s).hash => s <= i
<1> DEFINE Hash(k) == PointAt(points, k).hash
<1>1. PICK L \in Nat : L = Len(points) /\ L >= 1
  OBVIOUS
<1>2. h \in Int /\ \A k \in 0 .. L - 1 : Hash(k) \in Int
  BY <1>1, HashInRange, MaxHashAssumption DEF Hashes
<1>3. i \in 0 .. L - 1 /\ Hash(i) = Hash(s)
  BY <1>1 DEF Matches
<1>4. CASE Matches(points, h) # {}
  <2>1. s = LastMatch(points, h)
    BY <1>4 DEF StartIndex
  <2>2. s \in Matches(points, h)
    BY <1>4, <2>1, LastMatchExists
  <2>3. s \in 0 .. L - 1 /\ Hash(s) = h
    BY <1>1, <2>2 DEF Matches
  <2>4. \A j \in Matches(points, h) : j <= s
    BY <1>4, <2>1, LastMatchExists
  <2>5. i <= s
    BY <1>1, <1>3, <2>3, <2>4 DEF Matches
  <2> QED
    BY <1>1, <2>3, <2>5
<1>5. CASE Matches(points, h) = {}
  <2>1. PICK at \in 0 .. L : at = InsertionPoint(points, h)
    BY <1>1, InsertionPointExists
  <2>2. /\ \A j \in 0 .. at - 1 : Hash(j) < h
        /\ \A j \in at .. L - 1 : h <= Hash(j)
    BY <1>1, <2>1, InsertionPointExists
  <2>3. s = at % L
    BY <1>1, <1>5, <2>1 DEF StartIndex
  <2>4. IF at = L THEN s = 0 ELSE s = at
    BY <1>1, <2>3
  <2>5. s \in 0 .. L - 1
    BY <1>1, <2>4
  <2>6. Hash(s) # h
    BY <1>1, <1>5, <2>5 DEF Matches
  <2>7. s <= i
    <3>1. CASE at = L
      BY <1>3, <2>4, <3>1
    <3>2. CASE at # L
      <4> SUFFICES ASSUME i < s PROVE FALSE
        BY <1>3, <2>5
      <4>1. i \in 0 .. at - 1 /\ s \in at .. L - 1
        BY <1>3, <2>4, <2>5, <3>2
      <4>2. Hash(i) < h /\ h <= Hash(s)
        BY <2>2, <4>1
      <4> QED
        BY <1>2, <1>3, <2>5, <4>2
    <3> QED
      BY <3>1, <3>2
  <2> QED
    BY <1>1, <2>5, <2>6, <2>7
<1> QED
  BY <1>4, <1>5

(* Points with the same hash are in the order of their nodes. *)
LEMMA TiesBySort ==
  ASSUME NEW points \in Seq(Point), Sorted(points), NEW i \in 0 .. Len(points) - 1,
         NEW j \in i .. Len(points) - 1, PointAt(points, i).hash = PointAt(points, j).hash
  PROVE  PointAt(points, i).node <= PointAt(points, j).node
<1>1. i + 1 \in 1 .. Len(points) /\ j + 1 \in 1 .. Len(points) /\ j \in 0 .. Len(points) - 1
  OBVIOUS
<1>2. points[i + 1].hash \in Int /\ points[j + 1].hash \in Int
  BY <1>1, HashInRange DEF PointAt
<1>3. points[i + 1].node \in Nat
  <2>1. points[i + 1] \in Point
    BY <1>1
  <2> QED
    BY <2>1 DEF Point
<1>4. CASE i = j
  BY <1>3, <1>4 DEF PointAt
<1>5. CASE i < j
  <2>1. PointLeq(points[i + 1], points[j + 1])
    BY <1>1, <1>5 DEF Sorted
  <2> QED
    BY <1>2, <2>1 DEF PointLeq, PointAt
<1> QED
  BY <1>4, <1>5

(* So the owner is the last listed of those that collide, or the first.    *)
LEMMA CollisionsOrdered ==
  ASSUME NEW points \in Seq(Point), Len(points) > 0, Sorted(points), NEW h \in Hashes,
         NEW start, start = PointAt(points, StartIndex(points, h)).hash,
         NEW i \in Matches(points, start)
  PROVE  IF h = start THEN PointAt(points, i).node <= OwnerIndex(points, h)
                      ELSE OwnerIndex(points, h) <= PointAt(points, i).node
<1>1. PICK s : s = StartIndex(points, h)
  OBVIOUS
<1>2. i \in Matches(points, PointAt(points, s).hash)
  BY <1>1
<1>3. /\ s \in 0 .. Len(points) - 1
      /\ h = PointAt(points, s).hash => i <= s
      /\ h # PointAt(points, s).hash => s <= i
  BY <1>1, <1>2, TiesInLookup
<1>4. i \in 0 .. Len(points) - 1 /\ PointAt(points, i).hash = PointAt(points, s).hash
  BY <1>2 DEF Matches
<1>5. OwnerIndex(points, h) = PointAt(points, s).node /\ start = PointAt(points, s).hash
  BY <1>1 DEF OwnerIndex
<1>6. CASE h = start
  <2>1. s \in i .. Len(points) - 1
    BY <1>3, <1>4, <1>5, <1>6
  <2> QED
    BY <1>4, <1>5, <1>6, <2>1, TiesBySort
<1>7. CASE h # start
  <2>1. i \in s .. Len(points) - 1
    BY <1>3, <1>4, <1>5, <1>7
  <2> QED
    BY <1>3, <1>4, <1>5, <1>7, <2>1, TiesBySort
<1> QED
  BY <1>6, <1>7

-----------------------------------------------------------------------------
(* What holds of the ring of a process. *)

(* A ring that a process holds has sorted points, one for each seed.       *)
LEMMA RingFacts ==
  ASSUME RingsOK, NEW p \in Processes, HasRing(p)
  PROVE  /\ HashOK /\ Accepted(ring[p].nodes, ring[p].target)
         /\ ring[p].points \in Seq(Point) /\ Sorted(ring[p].points)
         /\ Len(ring[p].points) > 0
         /\ \E f \in Bijection(DOMAIN ring[p].points,
                               Seeds(ring[p].nodes, ring[p].target)) :
              \A k \in DOMAIN ring[p].points :
                ring[p].points[k] = PointOf(ring[p].nodes, f[k])
<1>1. /\ HashOK /\ Accepted(ring[p].nodes, ring[p].target)
      /\ ring[p].points = RingPoints(ring[p].nodes, ring[p].target)
  BY DEF RingsOK, ResultOK, HasRing
<1>2. PICK nodes, target, points :
        nodes = ring[p].nodes /\ target = ring[p].target /\ points = ring[p].points
  OBVIOUS
<1>3. HashOK /\ Accepted(nodes, target) /\ points = RingPoints(nodes, target)
  BY <1>1, <1>2
<1>4. /\ points \in Seq(Point) /\ Sorted(points) /\ Len(points) > 0
      /\ \E f \in Bijection(DOMAIN points, Seeds(nodes, target)) :
           \A k \in DOMAIN points : points[k] = PointOf(nodes, f[k])
  BY <1>3, RingFromSeeds
<1> QED
  BY <1>1, <1>2, <1>4

(* A ring restored from a snapshot, cut anywhere or not, of this version   *)
(* or another, is the ring that CompactRing::new builds from its nodes     *)
(* (ring.rs 250-317), whatever the hash function, the lists and the        *)
(* targets are.                                                            *)
THEOREM RestoredRingsAreBuilt == PlanningSpec => []RestoredIsBuilt
<1>1. RingsOK => RestoredIsBuilt
  BY DEF RingsOK, ResultOK, RestoredIsBuilt, HasRing
<1> QED
  BY <1>1, PlanningInvariant, PTL

(* Every node of every ring has a point, and no point names a node the     *)
(* ring does not have (ring.rs 93-108).                                    *)
THEOREM NodesArePlaced == PlanningSpec => []EveryNodePlaced
<1>1. ASSUME RingsOK, NEW p \in Processes, HasRing(p)
      PROVE  {pt.node : pt \in ToSet(ring[p].points)} = 0 .. Len(ring[p].nodes) - 1
  <2>1. PICK nodes, target, points :
          nodes = ring[p].nodes /\ target = ring[p].target /\ points = ring[p].points
    OBVIOUS
  <2>2. HashOK /\ Accepted(nodes, target)
    BY <1>1, <2>1, RingFacts
  <2>3. PICK f \in Bijection(DOMAIN points, Seeds(nodes, target)) :
               \A k \in DOMAIN points : points[k] = PointOf(nodes, f[k])
    BY <1>1, <2>1, RingFacts
  <2>4. /\ \A k \in DOMAIN points : f[k] \in Seeds(nodes, target)
        /\ \A s \in Seeds(nodes, target) : \E k \in DOMAIN points : f[k] = s
    BY DEF Bijection, Injection, Surjection
  <2>5. PICK n \in Nat : n = Len(nodes) /\ DOMAIN nodes = 1 .. n
    BY <2>2, ListIsFinite
  <2>6. ASSUME NEW k \in DOMAIN points PROVE points[k].node \in 0 .. n - 1
    <3>1. f[k] \in Seeds(nodes, target) /\ points[k] = PointOf(nodes, f[k])
      BY <2>3, <2>4
    <3>2. points[k].node = f[k][1] - 1 /\ f[k][1] \in 1 .. n
      BY <2>2, <2>5, <3>1, PointOfSeed
    <3> QED
      BY <3>2
  <2>7. ASSUME NEW x \in 0 .. n - 1 PROVE \E k \in DOMAIN points : points[k].node = x
    <3>1. PICK i \in DOMAIN nodes : i = x + 1
      BY <2>5
    <3>2. <<i, 1>> \in Seeds(nodes, target)
      BY <2>2, HashesPositive DEF Seeds
    <3>3. PICK k \in DOMAIN points : f[k] = <<i, 1>>
      BY <2>4, <3>2
    <3>4. points[k].node = <<i, 1>>[1] - 1
      BY <2>2, <2>3, <3>2, <3>3, PointOfSeed
    <3> QED
      BY <3>1, <3>4
  <2>8. {pt.node : pt \in ToSet(points)} = 0 .. n - 1
    BY <2>6, <2>7 DEF ToSet
  <2> QED
    BY <2>1, <2>5, <2>8
<1>2. RingsOK => EveryNodePlaced
  BY <1>1 DEF EveryNodePlaced, HasRing, RingsOK
<1> QED
  BY <1>2, PlanningInvariant, PTL

(* What the modules about a ring that is there assume of its points (of    *)
(* BoundedRing PointsAssumption, of HealthAwareRing RingAssumption, and,   *)
(* with NodesArePlaced, RingsAssumption of RingWalk) holds of every ring a *)
(* process holds, whether built or restored (ring.rs 74-127, 250-317).     *)
THEOREM RingsAreValid ==
  PlanningSpec =>
    []\A p \in Processes : HasRing(p) =>
        ValidPoints(ring[p].points, Len(ring[p].nodes))
<1>1. RingsOK /\ EveryNodePlaced =>
        \A p \in Processes : HasRing(p) =>
          ValidPoints(ring[p].points, Len(ring[p].nodes))
  <2> SUFFICES ASSUME RingsOK, EveryNodePlaced, NEW p \in Processes, HasRing(p)
               PROVE  ValidPoints(ring[p].points, Len(ring[p].nodes))
    OBVIOUS
  <2>1. PICK points, size : points = ring[p].points /\ size = Len(ring[p].nodes)
    OBVIOUS
  <2>2. points \in Seq(Point) /\ Sorted(points) /\ Len(points) > 0
    BY <2>1, RingFacts
  <2>3. {pt.node : pt \in ToSet(points)} = 0 .. size - 1
    BY <2>1 DEF EveryNodePlaced
  <2>4. \A k \in 1 .. Len(points) : points[k].node \in 0 .. size - 1
    BY <2>2, <2>3 DEF ToSet
  <2>5. points # <<>>
    BY <2>2
  <2> QED
    BY <2>1, <2>2, <2>4, <2>5 DEF ValidPoints
<1> QED
  BY <1>1, PlanningInvariant, NodesArePlaced, PTL

(* A lookup in any ring ends on the first point clockwise from the hash    *)
(* (ring.rs 141-149).                                                      *)
THEOREM LookupsFindSuccessors == PlanningSpec => []LookupIsSuccessor
<1>1. RingsOK => LookupIsSuccessor
  BY RingFacts, LookupFindsSuccessor DEF LookupIsSuccessor
<1> QED
  BY <1>1, PlanningInvariant, PTL

(* Where points of different nodes collide, the collided hash goes to the  *)
(* last listed of the nodes and every other hash whose lookup ends there   *)
(* to the first listed (ring.rs 119-120, 141-149).                         *)
THEOREM CollisionsSplitByOrder == PlanningSpec => []CollisionsFollowListOrder
<1>1. ASSUME RingsOK, NEW p \in Processes, HasRing(p), NEW h \in Hashes,
             NEW start, start = PointAt(ring[p].points, StartIndex(ring[p].points, h)).hash,
             NEW i \in Matches(ring[p].points, start)
      PROVE  IF h = start THEN PointAt(ring[p].points, i).node <= OwnerIndex(ring[p].points, h)
                          ELSE OwnerIndex(ring[p].points, h) <= PointAt(ring[p].points, i).node
  <2>1. PICK points : points = ring[p].points
    OBVIOUS
  <2>2. points \in Seq(Point) /\ Len(points) > 0 /\ Sorted(points)
    BY <1>1, <2>1, RingFacts
  <2>3. IF h = start THEN PointAt(points, i).node <= OwnerIndex(points, h)
                     ELSE OwnerIndex(points, h) <= PointAt(points, i).node
    BY <1>1, <2>1, <2>2, CollisionsOrdered
  <2> QED
    BY <2>1, <2>3
<1>2. RingsOK => CollisionsFollowListOrder
  BY <1>1 DEF CollisionsFollowListOrder
<1> QED
  BY <1>2, PlanningInvariant, PTL

-----------------------------------------------------------------------------
(* Rings and their seeds. *)

(* The points are those of the seeds of a list and a target, sorted. *)
MadeFrom(nodes, target, points) ==
  /\ HashOK /\ Accepted(nodes, target)
  /\ points \in Seq(Point) /\ Sorted(points) /\ Len(points) > 0
  /\ \E f \in Bijection(DOMAIN points, Seeds(nodes, target)) :
       \A k \in DOMAIN points : points[k] = PointOf(nodes, f[k])

LEMMA RingsAreMade ==
  ASSUME RingsOK, NEW p \in Processes, HasRing(p)
  PROVE  MadeFrom(ring[p].nodes, ring[p].target, ring[p].points)
BY RingFacts DEF MadeFrom

(* Every point comes of a seed.                                            *)
LEMMA PointHasSeed ==
  ASSUME NEW nodes, NEW target, NEW points, MadeFrom(nodes, target, points),
         NEW k \in 0 .. Len(points) - 1
  PROVE  /\ PointAt(points, k) \in Point
         /\ \E s \in Seeds(nodes, target) :
              /\ PointAt(points, k) = PointOf(nodes, s)
              /\ PointAt(points, k).node + 1 = s[1]
<1>1. PICK f \in Bijection(DOMAIN points, Seeds(nodes, target)) :
             \A i \in DOMAIN points : points[i] = PointOf(nodes, f[i])
  BY DEF MadeFrom
<1>2. points \in Seq(Point) /\ k + 1 \in DOMAIN points
  BY DEF MadeFrom
<1>3. PICK s \in Seeds(nodes, target) : s = f[k + 1]
  BY <1>2 DEF Bijection, Injection
<1>4. PointAt(points, k) = PointOf(nodes, s)
  BY <1>1, <1>2, <1>3 DEF PointAt
<1>5. PointOf(nodes, s) \in Point /\ PointOf(nodes, s).node = s[1] - 1 /\ s[1] \in Int
  BY PointOfSeed DEF MadeFrom
<1> QED
  BY <1>4, <1>5

(* Every seed has a point.                                                 *)
LEMMA SeedHasPoint ==
  ASSUME NEW nodes, NEW target, NEW points, MadeFrom(nodes, target, points),
         NEW s \in Seeds(nodes, target)
  PROVE  \E k \in 0 .. Len(points) - 1 :
           /\ PointAt(points, k) = PointOf(nodes, s)
           /\ PointAt(points, k).node + 1 = s[1]
<1>1. PICK f \in Bijection(DOMAIN points, Seeds(nodes, target)) :
             \A i \in DOMAIN points : points[i] = PointOf(nodes, f[i])
  BY DEF MadeFrom
<1>2. PICK i \in DOMAIN points : f[i] = s
  BY DEF Bijection, Surjection
<1>3. points \in Seq(Point)
  BY DEF MadeFrom
<1>4. PICK k \in 0 .. Len(points) - 1 : k + 1 = i
  <2>1. i - 1 \in 0 .. Len(points) - 1 /\ (i - 1) + 1 = i
    BY <1>3
  <2> QED
    BY <2>1
<1>5. PointAt(points, k) = PointOf(nodes, s)
  BY <1>1, <1>2, <1>4 DEF PointAt
<1>6. PointOf(nodes, s).node = s[1] - 1 /\ s[1] \in Int
  BY PointOfSeed DEF MadeFrom
<1> QED
  BY <1>5, <1>6

(* A node that has the same id and no fewer hashes in another ring has its *)
(* points in that ring, too.                                               *)
LEMMA PointsCarryOver ==
  ASSUME NEW nodes, NEW target, NEW points, MadeFrom(nodes, target, points),
         NEW others, NEW goal, NEW spots, MadeFrom(others, goal, spots),
         NEW i \in DOMAIN nodes, NEW j \in DOMAIN others, nodes[i].id = others[j].id,
         NodeHashes(nodes, target, i) <= NodeHashes(others, goal, j),
         NEW k \in 0 .. Len(points) - 1, PointAt(points, k).node + 1 = i
  PROVE  \E l \in 0 .. Len(spots) - 1 :
           /\ PointAt(spots, l).hash = PointAt(points, k).hash
           /\ PointAt(spots, l).node + 1 = j
<1>1. PICK s \in Seeds(nodes, target) :
        PointAt(points, k) = PointOf(nodes, s) /\ PointAt(points, k).node + 1 = s[1]
  BY PointHasSeed
<1>2. /\ s[1] = i /\ s[2] \in Nat \ {0} /\ s[2] <= NodeHashes(nodes, target, i)
      /\ NodeHashes(nodes, target, i) \in Nat /\ NodeHashes(others, goal, j) \in Nat
  BY <1>1, HashesPositive DEF Seeds, MadeFrom
<1>3. PICK t \in Seeds(others, goal) : t = <<j, s[2]>>
  <2>1. PICK c \in Nat \ {0} : c = s[2]
    BY <1>2
  <2>2. c <= NodeHashes(others, goal, j)
    BY <1>2, <2>1
  <2>3. <<j, c>> \in Seeds(others, goal)
    BY <2>2 DEF Seeds
  <2> QED
    BY <2>1, <2>3
<1>4. PICK l \in 0 .. Len(spots) - 1 :
        PointAt(spots, l) = PointOf(others, t) /\ PointAt(spots, l).node + 1 = t[1]
  BY SeedHasPoint
<1>5. PointOf(others, t).hash = PointOf(nodes, s).hash
  BY <1>2, <1>3 DEF PointOf
<1> QED
  BY <1>1, <1>3, <1>4, <1>5

(* The distance from a hash to a point tells the hash of the point.        *)
LEMMA ClockwiseIsOneToOne ==
  ASSUME NEW h \in Hashes, NEW a \in Point, NEW b \in Point
  PROVE  /\ Clockwise(h, a) \in Nat
         /\ Clockwise(h, a) = Clockwise(h, b) <=> a.hash = b.hash
<1>1. /\ h \in 0 .. MaxHash /\ a.hash \in 0 .. MaxHash /\ b.hash \in 0 .. MaxHash
      /\ MaxHash \in Nat
  BY MaxHashAssumption DEF Hashes, Point
<1> QED
  BY <1>1 DEF Clockwise

(* The point a lookup ends on. *)
LEMMA LookupEnds ==
  ASSUME NEW nodes, NEW target, NEW points, MadeFrom(nodes, target, points),
         NEW h \in Hashes
  PROVE  \E s \in 0 .. Len(points) - 1 :
           /\ s = StartIndex(points, h)
           /\ OwnerIndex(points, h) = PointAt(points, s).node
           /\ OwnerIndex(points, h) + 1 \in DOMAIN nodes
           /\ \A k \in 0 .. Len(points) - 1 :
                Clockwise(h, PointAt(points, s)) <= Clockwise(h, PointAt(points, k))
<1>1. StartsAtSuccessor(points, h)
  BY LookupFindsSuccessor DEF MadeFrom
<1>2. PICK s \in 0 .. Len(points) - 1 : s = StartIndex(points, h)
  BY <1>1 DEF StartsAtSuccessor
<1>3. OwnerIndex(points, h) = PointAt(points, s).node
  BY <1>2 DEF OwnerIndex
<1>4. OwnerIndex(points, h) + 1 \in DOMAIN nodes
  BY <1>3, PointHasSeed DEF Seeds
<1>5. \A k \in 0 .. Len(points) - 1 :
        Clockwise(h, PointAt(points, s)) <= Clockwise(h, PointAt(points, k))
  BY <1>1, <1>2 DEF StartsAtSuccessor
<1> QED
  BY <1>2, <1>3, <1>4, <1>5

-----------------------------------------------------------------------------
(* Why a hash moves. *)

(* If a hash goes to the i-th node in one ring and to the j-th in another, *)
(* the two are in both rings and listed in the same order, then the first  *)
(* lost points or the second won some.                                     *)
LEMMA MoveNeedsCounts ==
  ASSUME NEW nodes, NEW target, NEW points, MadeFrom(nodes, target, points),
         NEW others, NEW goal, NEW spots, MadeFrom(others, goal, spots),
         NEW h \in Hashes,
         NEW i \in DOMAIN nodes, i = OwnerIndex(points, h) + 1,
         NEW j \in DOMAIN others, j = OwnerIndex(spots, h) + 1,
         NEW i2 \in DOMAIN others, others[i2].id = nodes[i].id,
         NEW j2 \in DOMAIN nodes, nodes[j2].id = others[j].id,
         i < j2 <=> i2 < j, i = j2 <=> i2 = j, i # j2
  PROVE  \/ NodeHashes(others, goal, i2) < NodeHashes(nodes, target, i)
         \/ NodeHashes(others, goal, j) > NodeHashes(nodes, target, j2)
<1> SUFFICES ASSUME ~(NodeHashes(others, goal, i2) < NodeHashes(nodes, target, i)),
                    ~(NodeHashes(others, goal, j) > NodeHashes(nodes, target, j2))
             PROVE  FALSE
  OBVIOUS
<1>1. /\ NodeHashes(nodes, target, i) <= NodeHashes(others, goal, i2)
      /\ NodeHashes(others, goal, j) <= NodeHashes(nodes, target, j2)
  <2>1. /\ NodeHashes(nodes, target, i) \in Nat /\ NodeHashes(others, goal, i2) \in Nat
        /\ NodeHashes(others, goal, j) \in Nat /\ NodeHashes(nodes, target, j2) \in Nat
    BY HashesPositive DEF MadeFrom
  <2> QED
    BY <2>1
<1>2. PICK s \in 0 .. Len(points) - 1 :
        /\ s = StartIndex(points, h)
        /\ OwnerIndex(points, h) = PointAt(points, s).node
        /\ \A k \in 0 .. Len(points) - 1 :
             Clockwise(h, PointAt(points, s)) <= Clockwise(h, PointAt(points, k))
  BY LookupEnds
<1>3. PICK t \in 0 .. Len(spots) - 1 :
        /\ t = StartIndex(spots, h)
        /\ OwnerIndex(spots, h) = PointAt(spots, t).node
        /\ \A k \in 0 .. Len(spots) - 1 :
             Clockwise(h, PointAt(spots, t)) <= Clockwise(h, PointAt(spots, k))
  BY LookupEnds
<1>4. PICK s2 \in 0 .. Len(spots) - 1 :
        /\ PointAt(spots, s2).hash = PointAt(points, s).hash
        /\ PointAt(spots, s2).node + 1 = i2
  BY <1>1, <1>2, PointsCarryOver
<1>5. PICK t2 \in 0 .. Len(points) - 1 :
        /\ PointAt(points, t2).hash = PointAt(spots, t).hash
        /\ PointAt(points, t2).node + 1 = j2
  BY <1>1, <1>3, PointsCarryOver
<1>6. /\ PointAt(points, s) \in Point /\ PointAt(points, t2) \in Point
      /\ PointAt(spots, t) \in Point /\ PointAt(spots, s2) \in Point
  BY PointHasSeed
<1>7. /\ Clockwise(h, PointAt(spots, s2)) = Clockwise(h, PointAt(points, s))
      /\ Clockwise(h, PointAt(points, t2)) = Clockwise(h, PointAt(spots, t))
      /\ Clockwise(h, PointAt(points, s)) \in Nat
      /\ Clockwise(h, PointAt(spots, t)) \in Nat
  BY <1>4, <1>5, <1>6, ClockwiseIsOneToOne
<1>8. Clockwise(h, PointAt(points, s)) = Clockwise(h, PointAt(spots, t))
  BY <1>2, <1>3, <1>7
<1>9. PICK start : start = PointAt(points, s).hash /\ start = PointAt(spots, t).hash
  BY <1>6, <1>8, ClockwiseIsOneToOne
<1>10. t2 \in Matches(points, start) /\ s2 \in Matches(spots, start)
  BY <1>4, <1>5, <1>9 DEF Matches
<1>11. /\ points \in Seq(Point) /\ Sorted(points) /\ Len(points) > 0
       /\ spots \in Seq(Point) /\ Sorted(spots) /\ Len(spots) > 0
  BY DEF MadeFrom
<1>12. IF h = start THEN PointAt(points, t2).node <= OwnerIndex(points, h)
                    ELSE OwnerIndex(points, h) <= PointAt(points, t2).node
  BY <1>2, <1>9, <1>10, <1>11, CollisionsOrdered
<1>13. IF h = start THEN PointAt(spots, s2).node <= OwnerIndex(spots, h)
                    ELSE OwnerIndex(spots, h) <= PointAt(spots, s2).node
  BY <1>3, <1>9, <1>10, <1>11, CollisionsOrdered
<1>14. /\ PointAt(points, t2).node \in Nat /\ PointAt(spots, s2).node \in Nat
       /\ OwnerIndex(points, h) \in Nat /\ OwnerIndex(spots, h) \in Nat
  BY <1>2, <1>3, <1>6 DEF Point
<1>15. PICK a \in Nat, b \in Nat, c \in Nat, d \in Nat :
         /\ a = OwnerIndex(points, h) /\ b = OwnerIndex(spots, h)
         /\ c = PointAt(points, t2).node /\ d = PointAt(spots, s2).node
  BY <1>14
<1>16. i = a + 1 /\ j = b + 1 /\ j2 = c + 1 /\ i2 = d + 1
  BY <1>4, <1>5, <1>15
<1>17. IF h = start THEN c <= a /\ d <= b ELSE a <= c /\ b <= d
  BY <1>12, <1>13, <1>15
<1>18. (a < c <=> d < b) /\ (a = c <=> d = b) /\ a # c
  BY <1>16
<1> QED
  BY <1>17, <1>18

(* There are as many points of a node as it was given hashes. *)
LEMMA PointsAreCounted ==
  ASSUME NEW nodes, NEW target, NEW points, MadeFrom(nodes, target, points),
         NEW i \in DOMAIN nodes
  PROVE  /\ IsFiniteSet({k \in DOMAIN points : points[k].node = i - 1})
         /\ Cardinality({k \in DOMAIN points : points[k].node = i - 1})
              = NodeHashes(nodes, target, i)
<1> DEFINE K == {k \in DOMAIN points : points[k].node = i - 1}
<1>1. PICK f \in Bijection(DOMAIN points, Seeds(nodes, target)) :
             \A k \in DOMAIN points : points[k] = PointOf(nodes, f[k])
  BY DEF MadeFrom
<1>2. /\ f \in [DOMAIN points -> Seeds(nodes, target)]
      /\ \A k, l \in DOMAIN points : f[k] = f[l] => k = l
      /\ \A s \in Seeds(nodes, target) : \E k \in DOMAIN points : f[k] = s
  BY DEF Bijection, Injection, Surjection, IsInjective
<1>3. PICK c \in Nat : c = NodeHashes(nodes, target, i)
  BY HashesPositive DEF MadeFrom
<1>4. i \in Int
  BY ListIsFinite DEF MadeFrom
<1>5. ASSUME NEW k \in DOMAIN points
      PROVE  /\ f[k] = <<f[k][1], f[k][2]>> /\ f[k][1] \in Int
             /\ f[k][2] \in 1 .. NodeHashes(nodes, target, f[k][1])
             /\ points[k].node = f[k][1] - 1
  BY <1>1, <1>2, PointOfSeed DEF MadeFrom
<1>6. \A k \in K : f[k] = <<i, f[k][2]>> /\ f[k][2] \in 1 .. c
  BY <1>3, <1>4, <1>5
<1>7. ASSUME NEW n \in 1 .. c PROVE \E k \in K : f[k] = <<i, n>>
  <2>1. <<i, n>> \in Seeds(nodes, target)
    BY <1>3 DEF Seeds
  <2>2. PICK k \in DOMAIN points : f[k] = <<i, n>>
    BY <1>2, <2>1
  <2>3. k \in K
    BY <1>5, <2>2
  <2> QED
    BY <2>2, <2>3
<1> DEFINE g == [n \in 1 .. c |-> CHOOSE k \in K : f[k] = <<i, n>>]
<1>8. \A n \in 1 .. c : g[n] \in K /\ f[g[n]] = <<i, n>>
  BY <1>7
<1>9. g \in [1 .. c -> K]
  BY <1>8
<1> HIDE DEF g
<1>10. \A m, n \in 1 .. c : g[m] = g[n] => m = n
  <2> TAKE m, n \in 1 .. c
  <2> HAVE g[m] = g[n]
  <2>1. <<i, m>> = <<i, n>>
    BY <1>8
  <2> QED
    BY <2>1
<1>11. \A k \in K : \E n \in 1 .. c : g[n] = k
  <2> TAKE k \in K
  <2>1. PICK n \in 1 .. c : n = f[k][2]
    BY <1>6
  <2>2. f[g[n]] = f[k]
    BY <1>6, <1>8, <2>1
  <2>3. g[n] = k
    BY <1>2, <1>8, <2>2
  <2> QED
    BY <2>3
<1>12. g \in Bijection(1 .. c, K)
  <2> HIDE DEF K
  <2> QED
    BY <1>9, <1>10, <1>11 DEF Bijection, Injection, Surjection, IsInjective
<1>13. IsFiniteSet(1 .. c) /\ Cardinality(1 .. c) = c
  <2>1. PICK one \in Int : one = 1
    OBVIOUS
  <2>2. IsFiniteSet(one .. c) /\ Cardinality(one .. c) = IF one > c THEN 0 ELSE c - one + 1
    BY FS_Interval
  <2> QED
    BY <2>1, <2>2
<1> HIDE DEF K
<1>14. ExistsBijection(1 .. c, K)
  BY <1>12 DEF ExistsBijection
<1>15. IsFiniteSet(K) /\ Cardinality(K) = c
  BY <1>13, <1>14, FS_Bijection
<1> QED
  BY <1>3, <1>15 DEF K

(* A plan accounts for the keys it says will move: they leave a node with  *)
(* a negative hash_delta or join one with a positive hash_delta, whatever  *)
(* the list and the two targets are (migration.rs 241-320).                *)
THEOREM PlansExplainMoves == PlanningSpec => []PlanExplainsMoves
<1>1. ASSUME RingsOK, NEW p \in Processes, NEW q \in Processes, SameList(p, q),
             NEW h \in KeysMoved(p, q)
      PROVE  \E i \in DOMAIN ring[p].nodes :
               \/ ring[p].nodes[i].id = OwnerId(p, h) /\ HashDelta(p, q, i) < 0
               \/ ring[p].nodes[i].id = OwnerId(q, h) /\ HashDelta(p, q, i) > 0
  <2>1. PICK nodes, target, points, goal, spots :
          /\ nodes = ring[p].nodes /\ target = ring[p].target /\ points = ring[p].points
          /\ nodes = ring[q].nodes /\ goal = ring[q].target /\ spots = ring[q].points
    BY <1>1 DEF SameList
  <2>2. MadeFrom(nodes, target, points) /\ MadeFrom(nodes, goal, spots)
    <3>1. MadeFrom(ring[p].nodes, ring[p].target, ring[p].points)
      BY <1>1, RingsAreMade DEF SameList
    <3>2. MadeFrom(ring[q].nodes, ring[q].target, ring[q].points)
      BY <1>1, RingsAreMade DEF SameList
    <3> QED
      BY <2>1, <3>1, <3>2
  <2>3. h \in Hashes /\ OwnerId(p, h) # OwnerId(q, h)
    BY DEF KeysMoved
  <2>4. PICK i \in DOMAIN nodes : i = OwnerIndex(points, h) + 1
    BY <2>2, <2>3, LookupEnds
  <2>5. PICK j \in DOMAIN nodes : j = OwnerIndex(spots, h) + 1
    BY <2>2, <2>3, LookupEnds
  <2>6. OwnerId(p, h) = nodes[i].id /\ OwnerId(q, h) = nodes[j].id
    BY <2>1, <2>4, <2>5 DEF OwnerId
  <2>7. i # j
    BY <2>3, <2>6
  <2>8. \/ NodeHashes(nodes, goal, i) < NodeHashes(nodes, target, i)
        \/ NodeHashes(nodes, goal, j) > NodeHashes(nodes, target, j)
    BY <2>2, <2>3, <2>4, <2>5, <2>7, MoveNeedsCounts
  <2>9. ASSUME NEW n \in DOMAIN nodes
        PROVE  /\ HashDelta(p, q, n) = NodeHashes(nodes, goal, n) - NodeHashes(nodes, target, n)
               /\ NodeHashes(nodes, goal, n) \in Nat /\ NodeHashes(nodes, target, n) \in Nat
    <3>1. /\ HashCount(p, n) = Cardinality({k \in DOMAIN points : points[k].node = n - 1})
          /\ HashCount(q, n) = Cardinality({k \in DOMAIN spots : spots[k].node = n - 1})
      BY <2>1 DEF HashCount
    <3>2. /\ HashCount(p, n) = NodeHashes(nodes, target, n)
          /\ HashCount(q, n) = NodeHashes(nodes, goal, n)
      BY <2>2, <3>1, PointsAreCounted
    <3>3. NodeHashes(nodes, goal, n) \in Nat /\ NodeHashes(nodes, target, n) \in Nat
      BY <2>2, HashesPositive DEF MadeFrom
    <3> QED
      BY <3>2, <3>3 DEF HashDelta
  <2>10. HashDelta(p, q, i) < 0 \/ HashDelta(p, q, j) > 0
    BY <2>8, <2>9
  <2> QED
    BY <2>1, <2>6, <2>10
<1>2. RingsOK => PlanExplainsMoves
  BY <1>1 DEF PlanExplainsMoves
<1> QED
  BY <1>2, PlanningInvariant, PTL

-----------------------------------------------------------------------------
(* Lists with one more node. *)

(* What RemoveAt leaves.                                                   *)
LEMMA RemovedOne ==
  ASSUME NEW S, NEW b \in Seq(S), NEW i \in 1 .. Len(b), NEW a, a = RemoveAt(b, i)
  PROVE  /\ a \in Seq(S) /\ Len(a) = Len(b) - 1
         /\ \A k \in 1 .. Len(a) : a[k] = IF k < i THEN b[k] ELSE b[k + 1]
<1>1. PICK n \in Nat : n = Len(b)
  BY LenProperties
<1>2. PICK u \in Seq(S) : IsPart(u, b, 0, 1, i - 1)
  <2>1. PICK from \in Nat, one \in Int, to \in Int : from = 0 /\ one = 1 /\ to = i - 1
    BY <1>1
  <2>2. to <= Len(b) /\ one = from + 1
    BY <1>1, <2>1
  <2>3. PICK u \in Seq(S) : IsPart(u, b, from, one, to)
    BY <2>2, PartOf
  <2> QED
    BY <2>1, <2>3
<1>3. PICK v \in Seq(S) : IsPart(v, b, i, i + 1, n)
  <2>1. PICK from \in Nat, start \in Int : from = i /\ start = i + 1
    BY <1>1
  <2>2. n <= Len(b) /\ start = from + 1
    BY <1>1, <2>1
  <2>3. PICK v \in Seq(S) : IsPart(v, b, from, start, n)
    BY <2>2, PartOf
  <2> QED
    BY <2>1, <2>3
<1>4. PICK w \in Seq(S) : Joins(w, u, v)
  BY Joined
<1>5. w = a
  BY <1>1, <1>2, <1>3, <1>4 DEF Joins, IsPart, RemoveAt
<1>6. Len(u) = i - 1 /\ \A k \in 1 .. i - 1 : u[k] = b[k]
  BY <1>2 DEF IsPart
<1>7. Len(v) = n - i /\ \A k \in 1 .. n - i : v[k] = b[i + k]
  BY <1>1, <1>3 DEF IsPart
<1>8. Len(w) = n - 1
  BY <1>1, <1>4, <1>6, <1>7 DEF Joins
<1>9. ASSUME NEW k \in 1 .. n - 1 PROVE w[k] = IF k < i THEN b[k] ELSE b[k + 1]
  <2>1. CASE k < i
    <3>1. k \in 1 .. i - 1
      BY <1>1, <2>1
    <3> QED
      BY <1>4, <1>6, <2>1, <3>1 DEF Joins
  <2>2. CASE ~(k < i)
    <3>1. PICK l \in 1 .. n - i : l = k - (i - 1)
      BY <1>1, <2>2
    <3>2. (i - 1) + l = k /\ i + l = k + 1
      BY <1>1, <3>1
    <3>3. w[(i - 1) + l] = v[l]
      BY <1>4, <1>6, <1>7 DEF Joins
    <3> QED
      BY <1>7, <2>2, <3>2, <3>3
  <2> QED
    BY <2>1, <2>2
<1> QED
  BY <1>1, <1>5, <1>8, <1>9

(* The places of the old nodes in the longer list, in the same order. *)
LEMMA OldNodesKeepOrder ==
  ASSUME RingsOK, NEW p \in Processes, NEW q \in Processes, HasRing(p), HasRing(q),
         Extends(q, p)
  PROVE  \E m \in [DOMAIN ring[p].nodes -> DOMAIN ring[q].nodes] :
           /\ \A k \in DOMAIN ring[p].nodes : ring[q].nodes[m[k]].id = ring[p].nodes[k].id
           /\ \A k, l \in DOMAIN ring[p].nodes : k < l <=> m[k] < m[l]
<1>1. PICK nodes, others, target, goal :
        /\ nodes = ring[p].nodes /\ others = ring[q].nodes
        /\ target = ring[p].target /\ goal = ring[q].target
  OBVIOUS
<1>2. Accepted(nodes, target) /\ Accepted(others, goal)
  <2>1. Accepted(ring[p].nodes, ring[p].target) /\ Accepted(ring[q].nodes, ring[q].target)
    BY RingFacts
  <2> QED
    BY <1>1, <2>1
<1>3. PICK n \in Nat, l \in Nat :
        /\ n = Len(nodes) /\ DOMAIN nodes = 1 .. n
        /\ l = Len(others) /\ DOMAIN others = 1 .. l
  BY <1>2, ListIsFinite
<1>4. PICK a, b : /\ a = [i \in DOMAIN nodes |-> nodes[i].id]
                  /\ b = [i \in DOMAIN others |-> others[i].id]
  OBVIOUS
<1>5. /\ \A i \in 1 .. n : a[i] = nodes[i].id
      /\ \A i \in 1 .. l : b[i] = others[i].id
  BY <1>3, <1>4
<1>6. a \in Seq(Ids) /\ b \in Seq(Ids) /\ Len(a) = n /\ Len(b) = l
  <2>1. a \in [1 .. n -> Ids] /\ b \in [1 .. l -> Ids]
    BY <1>2, <1>3, <1>4, ListIsFinite
  <2> QED
    BY <2>1
<1>7. b = a \/ \E i \in DOMAIN others : RemoveAt(b, i) = a
  BY <1>1, <1>4 DEF Extends
<1>8. \E m \in [1 .. n -> 1 .. l] :
        /\ \A k \in 1 .. n : b[m[k]] = a[k]
        /\ \A j, k \in 1 .. n : j < k <=> m[j] < m[k]
  <2>1. CASE b = a
    <3>1. n = l
      BY <1>6, <2>1
    <3>2. [k \in 1 .. n |-> k] \in [1 .. n -> 1 .. l]
      BY <3>1
    <3> QED
      BY <2>1, <3>2
  <2>2. CASE \E i \in DOMAIN others : RemoveAt(b, i) = a
    <3>1. PICK i \in 1 .. l : RemoveAt(b, i) = a
      BY <1>3, <2>2
    <3>2. n = l - 1 /\ \A k \in 1 .. n : a[k] = IF k < i THEN b[k] ELSE b[k + 1]
      BY <1>6, <3>1, RemovedOne
    <3> DEFINE m == [k \in 1 .. n |-> IF k < i THEN k ELSE k + 1]
    <3>3. m \in [1 .. n -> 1 .. l]
      BY <3>2
    <3>4. \A k \in 1 .. n : b[m[k]] = a[k]
      BY <3>2
    <3>5. \A j, k \in 1 .. n : j < k <=> m[j] < m[k]
      OBVIOUS
    <3> HIDE DEF m
    <3> QED
      BY <3>3, <3>4, <3>5
  <2> QED
    BY <1>7, <2>1, <2>2
<1>9. PICK m \in [1 .. n -> 1 .. l] :
        /\ \A k \in 1 .. n : b[m[k]] = a[k]
        /\ \A j, k \in 1 .. n : j < k <=> m[j] < m[k]
  BY <1>8
<1>10. \A k \in 1 .. n : others[m[k]].id = nodes[k].id
  BY <1>5, <1>9
<1> QED
  BY <1>1, <1>3, <1>9, <1>10

(* With ids that differ, the points of an id are those of its node.        *)
LEMMA PointCountIs ==
  ASSUME RingsOK, NEW p \in Processes, HasRing(p), DistinctIds(p),
         NEW i \in DOMAIN ring[p].nodes
  PROVE  PointCount(p, ring[p].nodes[i].id) = NodeHashes(ring[p].nodes, ring[p].target, i)
<1>1. PICK nodes, target, points :
        nodes = ring[p].nodes /\ target = ring[p].target /\ points = ring[p].points
  OBVIOUS
<1>2. MadeFrom(nodes, target, points)
  <2>1. MadeFrom(ring[p].nodes, ring[p].target, ring[p].points)
    BY RingsAreMade
  <2> QED
    BY <1>1, <2>1
<1>3. i \in DOMAIN nodes /\ i \in Int
  BY <1>1, <1>2, ListIsFinite DEF MadeFrom
<1>4. \A x, y \in DOMAIN nodes : nodes[x].id = nodes[y].id => x = y
  BY <1>1 DEF DistinctIds
<1>5. ASSUME NEW k \in DOMAIN points
      PROVE  points[k].node + 1 \in DOMAIN nodes /\ points[k].node \in Nat
  <2>1. PICK l \in 0 .. Len(points) - 1 : l = k - 1
    BY <1>2 DEF MadeFrom
  <2>2. points[k] = PointAt(points, l)
    <3>1. k \in Int
      BY <1>2 DEF MadeFrom
    <3>2. l + 1 = k
      BY <2>1, <3>1
    <3> QED
      BY <3>2 DEF PointAt
  <2>3. PointAt(points, l) \in Point /\ PointAt(points, l).node + 1 \in DOMAIN nodes
    BY <1>2, PointHasSeed DEF Seeds
  <2> QED
    BY <2>2, <2>3 DEF Point
<1>6. \A k \in DOMAIN points :
        nodes[points[k].node + 1].id = nodes[i].id <=> points[k].node = i - 1
  <2> TAKE k \in DOMAIN points
  <2>1. PICK c \in Nat : c = points[k].node
    BY <1>5
  <2>2. nodes[c + 1].id = nodes[i].id <=> c + 1 = i
    BY <1>3, <1>4, <1>5, <2>1
  <2>3. c + 1 = i <=> c = i - 1
    BY <1>3
  <2> QED
    BY <2>1, <2>2, <2>3
<1>7. PointCount(p, nodes[i].id)
        = Cardinality({k \in DOMAIN points : nodes[points[k].node + 1].id = nodes[i].id})
  BY <1>1 DEF PointCount
<1>8. {k \in DOMAIN points : nodes[points[k].node + 1].id = nodes[i].id}
        = {k \in DOMAIN points : points[k].node = i - 1}
  BY <1>6
<1>9. PointCount(p, nodes[i].id) = NodeHashes(nodes, target, i)
  <2>1. Cardinality({k \in DOMAIN points : points[k].node = i - 1})
          = NodeHashes(nodes, target, i)
    BY <1>2, <1>3, PointsAreCounted
  <2> QED
    BY <1>7, <1>8, <2>1
<1> QED
  BY <1>1, <1>9

(* When a node joins a list, or the target changes, a hash moves between   *)
(* nodes that were there before only if the one lost points or the other   *)
(* won some, whatever the hash function, the lists and the targets are     *)
(* (ring.rs 104-120).                                                      *)
THEOREM MovesHaveReasons == PlanningSpec => []MovesAreExplained
<1>1. ASSUME RingsOK, NEW p \in Processes, NEW q \in Processes, HasRing(p), HasRing(q),
             DistinctIds(q), Extends(q, p), NEW h \in Hashes,
             NEW was, was = OwnerId(p, h), NEW is, is = OwnerId(q, h), was # is,
             HasNode(p, is)
      PROVE  \/ PointCount(q, was) < PointCount(p, was)
             \/ PointCount(q, is) > PointCount(p, is)
  <2>1. PICK nodes, target, points, others, goal, spots :
          /\ nodes = ring[p].nodes /\ target = ring[p].target /\ points = ring[p].points
          /\ others = ring[q].nodes /\ goal = ring[q].target /\ spots = ring[q].points
    OBVIOUS
  <2>2. MadeFrom(nodes, target, points) /\ MadeFrom(others, goal, spots)
    <3>1. /\ MadeFrom(ring[p].nodes, ring[p].target, ring[p].points)
          /\ MadeFrom(ring[q].nodes, ring[q].target, ring[q].points)
      BY <1>1, RingsAreMade
    <3> QED
      BY <2>1, <3>1
  <2>3. PICK m \in [DOMAIN nodes -> DOMAIN others] :
          /\ \A k \in DOMAIN nodes : others[m[k]].id = nodes[k].id
          /\ \A k, l \in DOMAIN nodes : k < l <=> m[k] < m[l]
    BY <1>1, <2>1, OldNodesKeepOrder
  <2>4. \A x, y \in DOMAIN others : others[x].id = others[y].id => x = y
    BY <1>1, <2>1 DEF DistinctIds
  <2>5. PICK i \in DOMAIN nodes : i = OwnerIndex(points, h) + 1 /\ was = nodes[i].id
    BY <1>1, <2>1, <2>2, LookupEnds DEF OwnerId
  <2>6. PICK j \in DOMAIN others : j = OwnerIndex(spots, h) + 1 /\ is = others[j].id
    BY <1>1, <2>1, <2>2, LookupEnds DEF OwnerId
  <2>7. PICK j2 \in DOMAIN nodes : nodes[j2].id = is
    BY <1>1, <2>1 DEF HasNode
  <2>8. m[j2] = j
    BY <2>3, <2>4, <2>6, <2>7
  <2>9. PICK i2 \in DOMAIN others : i2 = m[i] /\ others[i2].id = was
    BY <2>3, <2>5
  <2>10. i # j2 /\ i2 # j
    BY <1>1, <2>5, <2>6, <2>7, <2>9
  <2>11. i < j2 <=> i2 < j
    BY <2>3, <2>8, <2>9
  <2>12. \/ NodeHashes(others, goal, i2) < NodeHashes(nodes, target, i)
         \/ NodeHashes(others, goal, j) > NodeHashes(nodes, target, j2)
    <3>1. i = j2 <=> i2 = j
      BY <2>10
    <3>2. others[i2].id = nodes[i].id /\ nodes[j2].id = others[j].id
      BY <2>5, <2>6, <2>7, <2>9
    <3> QED
      BY <1>1, <2>2, <2>5, <2>6, <2>10, <2>11, <3>1, <3>2, MoveNeedsCounts
  <2>13. DistinctIds(p)
    <3>1. ASSUME NEW x \in DOMAIN nodes, NEW y \in DOMAIN nodes, nodes[x].id = nodes[y].id
          PROVE  x = y
      <4>1. m[x] = m[y] /\ m[x] \in DOMAIN others
        BY <2>3, <2>4, <3>1
      <4>2. m[x] \in Int /\ m[y] \in Int /\ x \in Int /\ y \in Int
        <5>1. /\ Len(nodes) \in Nat /\ DOMAIN nodes = 1 .. Len(nodes)
              /\ Len(others) \in Nat /\ DOMAIN others = 1 .. Len(others)
          BY <2>2, ListIsFinite DEF MadeFrom
        <5>2. m[x] \in DOMAIN others /\ m[y] \in DOMAIN others
          BY <2>3
        <5> QED
          BY <5>1, <5>2
      <4>3. ~(m[x] < m[y]) /\ ~(m[y] < m[x])
        BY <4>1, <4>2
      <4>4. ~(x < y) /\ ~(y < x)
        BY <2>3, <4>3
      <4> QED
        BY <4>2, <4>4
    <3> QED
      BY <2>1, <3>1 DEF DistinctIds
  <2>14. /\ PointCount(p, was) = NodeHashes(nodes, target, i)
         /\ PointCount(p, is) = NodeHashes(nodes, target, j2)
    BY <1>1, <2>1, <2>5, <2>7, <2>13, PointCountIs
  <2>15. /\ PointCount(q, was) = NodeHashes(others, goal, i2)
         /\ PointCount(q, is) = NodeHashes(others, goal, j)
    BY <1>1, <2>1, <2>6, <2>9, PointCountIs
  <2> QED
    BY <2>12, <2>14, <2>15
<1>2. RingsOK => MovesAreExplained
  BY <1>1 DEF MovesAreExplained
<1> QED
  BY <1>2, PlanningInvariant, PTL

-----------------------------------------------------------------------------
(* Lists of the same nodes. *)

(* A list of the same nodes, of which no two have the same id, is the      *)
(* other one in another order.                                             *)
LEMMA ListsAreReordered ==
  ASSUME NEW nodes, NEW others, NEW target,
         Accepted(nodes, target), Accepted(others, target),
         Len(nodes) = Len(others), ToSet(nodes) = ToSet(others),
         \A i, j \in DOMAIN nodes : nodes[i].id = nodes[j].id => i = j
  PROVE  \E sigma \in Bijection(DOMAIN others, DOMAIN nodes) :
           \A i \in DOMAIN others : others[i] = nodes[sigma[i]]
<1>1. PICK D : /\ DOMAIN nodes = D /\ DOMAIN others = D /\ IsFiniteSet(D)
  BY ListIsFinite
<1>2. \A i \in D : \E j \in D : nodes[j] = others[i]
  BY <1>1 DEF ToSet
<1>3. \A j \in D : \E i \in D : others[i] = nodes[j]
  BY <1>1 DEF ToSet
<1> DEFINE sigma == [i \in D |-> CHOOSE j \in D : nodes[j] = others[i]]
<1>4. \A i \in D : sigma[i] \in D /\ nodes[sigma[i]] = others[i]
  BY <1>2
<1>5. sigma \in [D -> D]
  BY <1>4
<1> HIDE DEF sigma
<1>6. ASSUME NEW j \in D PROVE \E i \in D : sigma[i] = j
  <2>1. PICK i \in D : others[i] = nodes[j]
    BY <1>3
  <2>2. nodes[sigma[i]] = nodes[j] /\ sigma[i] \in D
    BY <1>4, <2>1
  <2> QED
    BY <1>1, <2>2
<1>7. sigma \in Surjection(D, D)
  BY <1>5, <1>6 DEF Surjection
<1>8. sigma \in Injection(D, D)
  BY <1>1, <1>7, FS_SurjSameCardinalityImpliesInj
<1> QED
  BY <1>1, <1>4, <1>7, <1>8 DEF Bijection

(* In another order the nodes get the same numbers of points. *)
LEMMA ReorderedHashes ==
  ASSUME NEW nodes, NEW others, NEW target,
         Accepted(nodes, target), Accepted(others, target), Len(nodes) = Len(others),
         NEW sigma \in Bijection(DOMAIN others, DOMAIN nodes),
         \A i \in DOMAIN others : others[i] = nodes[sigma[i]],
         NEW i \in DOMAIN others
  PROVE  NodeHashes(others, target, i) = NodeHashes(nodes, target, sigma[i])
<1> DEFINE f == [j \in DOMAIN others |-> others[j].weight]
           g == [j \in DOMAIN nodes |-> nodes[j].weight]
<1>1. /\ TotalWeight(others) = SumOver(f, DOMAIN others)
      /\ TotalWeight(nodes) = SumOver(g, DOMAIN nodes)
  BY TotalIsSum
<1>2. \A j \in DOMAIN others : sigma[j] \in DOMAIN nodes
  BY DEF Bijection, Injection
<1>3. IsFiniteSet(DOMAIN others) /\ \A j \in DOMAIN others : f[j] \in Int
  BY ListIsFinite
<1>4. \A j \in DOMAIN others : g[sigma[j]] = f[j]
  BY <1>2
<1> HIDE DEF f, g
<1>5. SumOver(f, DOMAIN others) = SumOver(g, DOMAIN nodes)
  BY <1>3, <1>4, SumRenamed
<1> QED
  BY <1>1, <1>5 DEF NodeHashes

(* Processes that build from the same nodes, in whatever order, and with   *)
(* the same target route a hash to the same node, unless points of         *)
(* different nodes collide where the lookup ends, whatever the hash        *)
(* function, the lists and the targets are (ring.rs 110-120, 140-149).     *)
THEOREM RingsAgree == PlanningSpec => []AgreeUnlessContested
<1>1. ASSUME RingsOK, NEW p \in Processes, NEW q \in Processes, HasRing(p), HasRing(q),
             DistinctIds(p), Len(ring[p].nodes) = Len(ring[q].nodes),
             ToSet(ring[p].nodes) = ToSet(ring[q].nodes),
             ring[p].target = ring[q].target, NEW h \in Hashes,
             Cardinality(Claimants(p, h)) = 1
      PROVE  OwnerId(p, h) = OwnerId(q, h)
  <2>1. PICK nodes, target, points, others, spots :
          /\ nodes = ring[p].nodes /\ target = ring[p].target /\ points = ring[p].points
          /\ others = ring[q].nodes /\ target = ring[q].target /\ spots = ring[q].points
    BY <1>1
  <2>2. MadeFrom(nodes, target, points) /\ MadeFrom(others, target, spots)
    <3>1. /\ MadeFrom(ring[p].nodes, ring[p].target, ring[p].points)
          /\ MadeFrom(ring[q].nodes, ring[q].target, ring[q].points)
      BY <1>1, RingsAreMade
    <3> QED
      BY <2>1, <3>1
  <2>3. PICK sigma \in Bijection(DOMAIN others, DOMAIN nodes) :
          \A i \in DOMAIN others : others[i] = nodes[sigma[i]]
    <3>1. \A i, j \in DOMAIN nodes : nodes[i].id = nodes[j].id => i = j
      BY <1>1, <2>1 DEF DistinctIds
    <3>2. Len(nodes) = Len(others) /\ ToSet(nodes) = ToSet(others)
      BY <1>1, <2>1
    <3>3. Accepted(nodes, target) /\ Accepted(others, target)
      BY <2>2 DEF MadeFrom
    <3> QED
      BY SMTT(30), <3>1, <3>2, <3>3, ListsAreReordered
  <2>4. /\ \A i \in DOMAIN others : sigma[i] \in DOMAIN nodes
        /\ \A j \in DOMAIN nodes : \E i \in DOMAIN others : sigma[i] = j
    BY DEF Bijection, Injection, Surjection
  <2>5. \A i \in DOMAIN others :
          /\ NodeHashes(others, target, i) = NodeHashes(nodes, target, sigma[i])
          /\ NodeHashes(others, target, i) \in Nat
    <3>1. Len(nodes) = Len(others)
      BY <1>1, <2>1
    <3>2. Accepted(nodes, target) /\ Accepted(others, target)
      BY <2>2 DEF MadeFrom
    <3>3. ASSUME NEW i \in DOMAIN others
          PROVE  NodeHashes(others, target, i) = NodeHashes(nodes, target, sigma[i])
      BY <2>3, <3>1, <3>2, ReorderedHashes
    <3>4. ASSUME NEW i \in DOMAIN others PROVE NodeHashes(others, target, i) \in Nat
      BY <3>2, HashesPositive
    <3> QED
      BY <3>3, <3>4
  <2>6. PICK s \in 0 .. Len(points) - 1 :
          /\ s = StartIndex(points, h)
          /\ OwnerIndex(points, h) = PointAt(points, s).node
          /\ OwnerIndex(points, h) + 1 \in DOMAIN nodes
          /\ \A k \in 0 .. Len(points) - 1 :
               Clockwise(h, PointAt(points, s)) <= Clockwise(h, PointAt(points, k))
    BY <2>2, LookupEnds
  <2>7. PICK t \in 0 .. Len(spots) - 1 :
          /\ t = StartIndex(spots, h)
          /\ OwnerIndex(spots, h) = PointAt(spots, t).node
          /\ OwnerIndex(spots, h) + 1 \in DOMAIN others
          /\ \A k \in 0 .. Len(spots) - 1 :
               Clockwise(h, PointAt(spots, t)) <= Clockwise(h, PointAt(spots, k))
    BY <2>2, LookupEnds
  <2>8. PICK i \in DOMAIN nodes, i2 \in DOMAIN others :
          i = PointAt(points, s).node + 1 /\ sigma[i2] = i
    BY <2>4, <2>6
  <2>9. PICK j \in DOMAIN nodes, j2 \in DOMAIN others :
          j2 = PointAt(spots, t).node + 1 /\ sigma[j2] = j
    BY <2>4, <2>7
  <2>10. PICK s2 \in 0 .. Len(spots) - 1 :
           /\ PointAt(spots, s2).hash = PointAt(points, s).hash
           /\ PointAt(spots, s2).node + 1 = i2
    <3>1. nodes[i].id = others[i2].id
      BY <2>3, <2>8
    <3>2. NodeHashes(nodes, target, i) <= NodeHashes(others, target, i2)
      BY <2>5, <2>8
    <3> QED
      BY <2>2, <2>8, <3>1, <3>2, PointsCarryOver
  <2>11. PICK t2 \in 0 .. Len(points) - 1 :
           /\ PointAt(points, t2).hash = PointAt(spots, t).hash
           /\ PointAt(points, t2).node + 1 = j
    <3>1. others[j2].id = nodes[j].id
      BY <2>3, <2>9
    <3>2. NodeHashes(others, target, j2) <= NodeHashes(nodes, target, j)
      BY <2>5, <2>9
    <3> QED
      BY <2>2, <2>9, <3>1, <3>2, PointsCarryOver
  <2>12. /\ PointAt(points, s) \in Point /\ PointAt(points, t2) \in Point
         /\ PointAt(spots, t) \in Point /\ PointAt(spots, s2) \in Point
    BY <2>2, PointHasSeed
  <2>13. Clockwise(h, PointAt(points, s)) = Clockwise(h, PointAt(spots, t))
    <3>1. /\ Clockwise(h, PointAt(spots, s2)) = Clockwise(h, PointAt(points, s))
          /\ Clockwise(h, PointAt(points, t2)) = Clockwise(h, PointAt(spots, t))
          /\ Clockwise(h, PointAt(points, s)) \in Nat
          /\ Clockwise(h, PointAt(spots, t)) \in Nat
      BY <2>10, <2>11, <2>12, ClockwiseIsOneToOne
    <3> QED
      BY <2>6, <2>7, <3>1
  <2>14. PointAt(points, t2).hash = PointAt(points, s).hash
    BY <2>11, <2>12, <2>13, ClockwiseIsOneToOne
  <2>15. /\ OwnerId(p, h) = nodes[PointAt(points, s).node + 1].id
         /\ OwnerId(q, h) = nodes[PointAt(points, t2).node + 1].id
    <3>1. OwnerId(p, h) = nodes[PointAt(points, s).node + 1].id
      BY <2>1, <2>6 DEF OwnerId
    <3>2. OwnerId(q, h) = others[j2].id
      BY <2>1, <2>7, <2>9 DEF OwnerId
    <3>3. others[j2] = nodes[j]
      BY <2>3, <2>9
    <3> QED
      BY <2>11, <3>1, <3>2, <3>3
  <2> DEFINE C == {nodes[pt.node + 1].id :
                     pt \in {x \in ToSet(points) : x.hash = PointAt(points, s).hash}}
  <2>16. Claimants(p, h) = C
    BY <2>1, <2>6 DEF Claimants
  <2>17. PointAt(points, s) \in ToSet(points) /\ PointAt(points, t2) \in ToSet(points)
    <3>1. points \in Seq(Point)
      BY <2>2 DEF MadeFrom
    <3>2. s + 1 \in DOMAIN points /\ t2 + 1 \in DOMAIN points
      BY <3>1
    <3> QED
      BY <3>2 DEF ToSet, PointAt
  <2>18. OwnerId(p, h) \in C /\ OwnerId(q, h) \in C
    BY <2>14, <2>15, <2>17
  <2>19. IsFiniteSet(C)
    <3>1. PICK D : D = DOMAIN nodes /\ IsFiniteSet(D)
      BY <2>2, ListIsFinite DEF MadeFrom
    <3> DEFINE f == [n \in D |-> nodes[n].id]
               T == {f[n] : n \in D}
    <3>2. f \in Surjection(D, T)
      BY DEF Surjection
    <3>3. C \in SUBSET T
      <4>1. ASSUME NEW x \in ToSet(points) PROVE x.node + 1 \in D
        <5>1. points \in Seq(Point)
          BY <2>2 DEF MadeFrom
        <5>2. PICK k \in DOMAIN points : x = points[k]
          BY DEF ToSet
        <5>3. PICK l \in 0 .. Len(points) - 1 : l + 1 = k
          <6>1. k - 1 \in 0 .. Len(points) - 1 /\ (k - 1) + 1 = k
            BY <5>1
          <6> QED
            BY <6>1
        <5>4. PointAt(points, l).node + 1 \in DOMAIN nodes
          BY <2>2, PointHasSeed DEF Seeds
        <5> QED
          BY <3>1, <5>2, <5>3, <5>4 DEF PointAt
      <4> QED
        BY <4>1
    <3> HIDE DEF f, T, C
    <3>4. IsFiniteSet(T)
      BY <3>1, <3>2, FS_Surjection
    <3> QED
      BY <3>3, <3>4, FS_Subset
  <2> HIDE DEF C
  <2>20. PICK x : C = {x}
    BY <1>1, <2>16, <2>19, FS_Singleton
  <2> QED
    BY <2>18, <2>20
<1>2. RingsOK => AgreeUnlessContested
  BY <1>1 DEF AgreeUnlessContested
<1> QED
  BY <1>2, PlanningInvariant, PTL

-----------------------------------------------------------------------------
(* Lower targets. *)

LEMMA CeilGrows ==
  ASSUME NEW a \in Nat, NEW b \in Nat \ {0}
  PROVE  /\ CeilDiv(a, b) \in Nat /\ CeilDiv(100 * a, 81 * b) \in Nat
         /\ CeilDiv(a, b) <= CeilDiv(100 * a, 81 * b)
<1>1. PICK e \in Nat, d \in Nat \ {0}, f \in Nat :
        e = 100 * a + 81 * b - 1 /\ d = 81 * b /\ f = a + b - 1
  <2>1. 100 * a + 81 * b - 1 \in Nat /\ 81 * b \in Nat \ {0} /\ a + b - 1 \in Nat
    OBVIOUS
  <2> QED
    BY <2>1
<1>2. PICK q \in Nat : q = f \div b
  BY QuotientIs
<1>3. PICK c \in Nat : c = q * b /\ c <= f
  BY <1>2, QuotientIs, ProductNat
<1>4. q * d = 81 * c
  BY <1>1, <1>3
<1>5. 81 * c <= e
  BY <1>1, <1>3
<1>6. q <= e \div d /\ e \div d \in Nat
  BY <1>4, <1>5, QuotientIs
<1>7. CeilDiv(a, b) = f \div b
  BY <1>1 DEF CeilDiv
<1>8. CeilDiv(100 * a, 81 * b) = e \div d
  BY <1>1 DEF CeilDiv
<1> QED
  BY <1>2, <1>6, <1>7, <1>8

(* A lower target never means fewer hashes per node.                       *)
LEMMA OptimalHashesGrow ==
  ASSUME NEW n \in Nat, NEW target \in Nat \X (Nat \ {0})
  PROVE  /\ Suggested(target) \in Nat \X (Nat \ {0})
         /\ HashesPerNode(n, target) <= HashesPerNode(n, Suggested(target))
<1>1. PICK x \in Nat, y \in Nat \ {0} : x = target[1] /\ y = target[2]
  OBVIOUS
<1>2. /\ Suggested(target) \in Nat \X (Nat \ {0})
      /\ Suggested(target)[1] = 100 * x /\ Suggested(target)[2] = 81 * y
  BY <1>1 DEF Suggested
<1>3. /\ OptimalHashes(n, target) \in Nat /\ OptimalHashes(n, Suggested(target)) \in Nat
      /\ OptimalHashes(n, target) <= OptimalHashes(n, Suggested(target))
  <2>1. CASE n <= 1
    BY <2>1 DEF OptimalHashes
  <2>2. CASE ~(n <= 1)
    <3>1. PICK u \in Nat, v \in Nat \ {0} : u = n - 1 /\ v = n + 1
      BY <2>2
    <3>2. PICK a \in Nat, b \in Nat \ {0} : a = u * x /\ b = v * y
      BY ProductNat
    <3>3. u * (100 * x) = 100 * a /\ v * (81 * y) = 81 * b
      BY <3>2
    <3>4. /\ OptimalHashes(n, target) = Larger(1, CeilDiv(a, b))
          /\ OptimalHashes(n, Suggested(target)) = Larger(1, CeilDiv(100 * a, 81 * b))
      BY <1>1, <1>2, <2>2, <3>1, <3>2, <3>3 DEF OptimalHashes
    <3>5. PICK p \in Nat, q \in Nat :
            p = CeilDiv(a, b) /\ q = CeilDiv(100 * a, 81 * b) /\ p <= q
      BY CeilGrows
    <3> QED
      BY <3>4, <3>5 DEF Larger
  <2> QED
    BY <2>1, <2>2
<1> QED
  BY <1>2, <1>3, HashBoundsAssumption DEF HashesPerNode, Smaller, Larger

(* A lower target takes points from no node. *)
LEMMA NodeHashesGrow ==
  ASSUME NEW nodes, NEW target, Accepted(nodes, target), NEW i \in DOMAIN nodes
  PROVE  NodeHashes(nodes, target, i) <= NodeHashes(nodes, Suggested(target), i)
<1>1. PICK n \in Nat, w \in Nat : n = Len(nodes) /\ w = nodes[i].weight
  BY ListIsFinite
<1>2. PICK t \in Nat \ {0} : t = TotalWeight(nodes)
  BY TotalIsPositive
<1>3. PICK h \in Nat, g \in Nat :
        h = HashesPerNode(n, target) /\ g = HashesPerNode(n, Suggested(target)) /\ h <= g
  BY ZenonT(30), OptimalHashesNat, OptimalHashesGrow DEF Accepted
<1>4. PICK a \in Nat, b \in Nat : a = h * w * n /\ b = g * w * n /\ a <= b
  <2>1. PICK c \in Nat, d \in Nat : c = h * w /\ d = g * w
    BY ProductNat
  <2>2. c <= d
    <3>1. PICK e \in Nat : e = g - h
      BY <1>3
    <3>2. e * w \in Nat /\ (h + e) * w = h * w + e * w /\ g = h + e
      BY <1>3, <3>1
    <3> QED
      BY <2>1, <3>2
  <2>3. c * n <= d * n /\ c * n \in Nat /\ d * n \in Nat
    <3>1. PICK e \in Nat : e = d - c
      BY <2>2
    <3>2. e * n \in Nat /\ (c + e) * n = c * n + e * n /\ d = c + e
      BY <3>1
    <3>3. c * n \in Nat /\ d * n \in Nat
      OBVIOUS
    <3> QED
      BY <3>2, <3>3
  <2> QED
    BY <2>1, <2>3
<1>5. PICK x \in Nat, y \in Nat : x = a \div t /\ y = b \div t
  BY QuotientIs
<1>6. x * t <= a /\ x * t \in Nat
  BY <1>5, QuotientIs, ProductNat
<1>7. x <= y
  <2>1. x * t <= b
    BY <1>4, <1>6
  <2> QED
    BY <1>5, <2>1, QuotientIs
<1>8. /\ NodeHashes(nodes, target, i) = Larger(1, x)
      /\ NodeHashes(nodes, Suggested(target), i) = Larger(1, y)
  BY <1>1, <1>2, <1>3, <1>4, <1>5 DEF NodeHashes
<1> QED
  BY <1>7, <1>8 DEF Larger

(* A ring that takes points from no node of another is no smaller. *)
LEMMA MorePoints ==
  ASSUME NEW nodes, NEW target, NEW points, MadeFrom(nodes, target, points),
         NEW goal, NEW spots, MadeFrom(nodes, goal, spots),
         \A i \in DOMAIN nodes : NodeHashes(nodes, target, i) <= NodeHashes(nodes, goal, i)
  PROVE  /\ Len(points) \in Nat /\ Len(points) > 0 /\ Len(spots) \in Nat
         /\ Len(points) <= Len(spots)
<1>1. PICK l \in Nat, m \in Nat :
        /\ l = Len(points) /\ DOMAIN points = 1 .. l /\ l > 0
        /\ m = Len(spots) /\ DOMAIN spots = 1 .. m
  BY DEF MadeFrom
<1>2. PICK f \in Bijection(DOMAIN points, Seeds(nodes, target)) : TRUE
  BY DEF MadeFrom
<1>3. PICK g \in Bijection(DOMAIN spots, Seeds(nodes, goal)) : TRUE
  BY DEF MadeFrom
<1>4. Seeds(nodes, target) \subseteq Seeds(nodes, goal)
  <2>1. ASSUME NEW s \in Seeds(nodes, target) PROVE s \in Seeds(nodes, goal)
    <3>1. /\ s \in (DOMAIN nodes) \X (Nat \ {0}) /\ s[1] \in DOMAIN nodes
          /\ s[2] \in Nat /\ s[2] <= NodeHashes(nodes, target, s[1])
      BY DEF Seeds
    <3>2. NodeHashes(nodes, target, s[1]) \in Nat /\ NodeHashes(nodes, goal, s[1]) \in Nat
      BY <3>1, HashesPositive DEF MadeFrom
    <3>3. s[2] <= NodeHashes(nodes, goal, s[1])
      BY <3>1, <3>2
    <3> QED
      BY <3>1, <3>3 DEF Seeds
  <2> QED
    BY <2>1
<1>5. /\ f \in [1 .. l -> Seeds(nodes, target)]
      /\ \A i, j \in 1 .. l : f[i] = f[j] => i = j
      /\ \A s \in Seeds(nodes, goal) : \E k \in 1 .. m : g[k] = s
  BY <1>1 DEF Bijection, Injection, Surjection, IsInjective
<1> DEFINE into == [i \in 1 .. l |-> CHOOSE k \in 1 .. m : g[k] = f[i]]
<1>6. \A i \in 1 .. l : into[i] \in 1 .. m /\ g[into[i]] = f[i]
  BY <1>4, <1>5
<1>7. into \in [1 .. l -> 1 .. m]
  BY <1>6
<1> HIDE DEF into
<1>8. \A i, j \in 1 .. l : into[i] = into[j] => i = j
  BY <1>5, <1>6
<1>9. into \in Injection(1 .. l, 1 .. m)
  BY <1>7, <1>8 DEF Injection, IsInjective
<1>10. /\ IsFiniteSet(1 .. m) /\ Cardinality(1 .. m) = m
       /\ IsFiniteSet(1 .. l) /\ Cardinality(1 .. l) = l
  <2>1. PICK one \in Int : one = 1
    OBVIOUS
  <2>2. ASSUME NEW k \in Nat PROVE IsFiniteSet(one .. k) /\ Cardinality(one .. k) = k
    <3>1. /\ IsFiniteSet(one .. k)
          /\ Cardinality(one .. k) = IF one > k THEN 0 ELSE k - one + 1
      BY FS_Interval
    <3> QED
      BY <2>1, <3>1
  <2> QED
    BY <2>1, <2>2
<1>11. l <= m
  BY <1>9, <1>10, FS_Injection
<1> QED
  BY <1>1, <1>11

(* What the operator who follows the advice gets. *)
LEMMA TuneBuilds ==
  ASSUME RingsOK, NEW p \in Processes, Tune(p)
  PROVE  \E nodes, target, points, spots :
           /\ nodes = ring[p].nodes /\ target = ring[p].target /\ points = ring[p].points
           /\ MadeFrom(nodes, target, points)
           /\ MadeFrom(nodes, Suggested(target), spots)
           /\ ring'[p].nodes = nodes /\ ring'[p].points = spots
<1>1. HasRing(p)
  BY DEF Tune, HasRing
<1>2. PICK nodes, target, points, goal :
        /\ nodes = ring[p].nodes /\ target = ring[p].target /\ points = ring[p].points
        /\ goal = Suggested(target)
  OBVIOUS
<1>3. MadeFrom(nodes, target, points) /\ nodes \in NodeLists
  <2>1. MadeFrom(ring[p].nodes, ring[p].target, ring[p].points)
    BY <1>1, RingsAreMade
  <2>2. ring[p].nodes \in NodeLists
    BY <1>1 DEF RingsOK, ResultOK, HasRing
  <2> QED
    BY <1>2, <2>1, <2>2
<1>4. PICK config \in Recommended(nodes, goal) : New(p, nodes, config.target)
  BY <1>2 DEF Tune
<1>5. config.target = goal /\ goal \in Targets
  <2>1. config.target = goal
    BY DEF Recommended
  <2>2. goal \in Targets
    BY <1>2 DEF Tune
  <2> QED
    BY <2>1, <2>2
<1>6. nodes # <<>> /\ ~HasZeroWeight(nodes) /\ ~TooMany(nodes) /\ Accepted(nodes, target)
  BY <1>3 DEF MadeFrom, Accepted
<1>7. Build(p, nodes, goal)
  BY <1>4, <1>5, <1>6 DEF New, RejectEmpty, RejectWeight, RejectTooMany
<1>8. Accepted(nodes, goal)
  <2>1. \A i \in DOMAIN nodes : NodeHashes(nodes, goal, i) <= SeedsPerNode
    BY <1>3, <1>5, <1>6, TargetsAssumption
  <2>2. goal \in Nat \X (Nat \ {0})
    BY <1>5, PlanningAssumption
  <2> QED
    BY <1>6, <2>1, <2>2 DEF Accepted
<1>9. PICK spots : spots = RingPoints(nodes, goal)
  OBVIOUS
<1>10. MadeFrom(nodes, goal, spots)
  <2>1. HashOK
    BY DEF RingsOK
  <2>2. /\ spots \in Seq(Point) /\ Sorted(spots) /\ Len(spots) > 0
        /\ \E f \in Bijection(DOMAIN spots, Seeds(nodes, goal)) :
             \A k \in DOMAIN spots : spots[k] = PointOf(nodes, f[k])
    BY <1>8, <1>9, <2>1, RingFromSeeds
  <2> QED
    BY <1>8, <2>1, <2>2 DEF MadeFrom
<1>11. ring'[p].nodes = nodes /\ ring'[p].points = spots
  <2>1. PICK r : r = Made(nodes, spots, goal)
    OBVIOUS
  <2>2. ring' = [ring EXCEPT ![p] = r]
    BY <1>7, <1>9, <2>1 DEF Build, Return
  <2>3. ring'[p] = r
    BY <2>2 DEF RingsOK
  <2> QED
    BY <2>1, <2>3 DEF Made
<1> QED
  BY <1>2, <1>3, <1>10, <1>11

(* The numbers of the report: with more points the coefficient of          *)
(* variation gets no worse, and collisions and memory get no better.       *)
LEMMA MorePointsInReport ==
  ASSUME NEW n \in Nat \ {0}, NEW t \in Nat, NEW u \in Nat, t > 0, t <= u
  PROVE  /\ (n - 1) * InvMaxCv > (n + 1) * (u \div n)
              => (n - 1) * InvMaxCv > (n + 1) * (t \div n)
         /\ Collide(t) => Collide(u)
         /\ t * PointSize > MaxMemory => u * PointSize > MaxMemory
<1>1. PICK e \in Nat : e = u - t
  OBVIOUS
<1>2. PICK x \in Nat, y \in Nat : x = t \div n /\ y = u \div n
  BY QuotientIs
<1>3. x <= y
  <2>1. x * n <= t /\ x * n \in Nat
    BY <1>2, QuotientIs, ProductNat
  <2>2. x * n <= u
    BY <2>1
  <2> QED
    BY <1>2, <2>2, QuotientIs
<1>4. PICK a \in Nat, b \in Nat, c \in Nat :
        a = (n - 1) * InvMaxCv /\ b = (n + 1) * x /\ c = (n + 1) * y
  <2>1. n - 1 \in Nat /\ n + 1 \in Nat /\ InvMaxCv \in Nat
    BY PlanningAssumption
  <2> QED
    BY <2>1, ProductNat
<1>5. b <= c
  <2>1. PICK d \in Nat, v \in Nat : d = y - x /\ v = n + 1
    BY <1>3
  <2>2. v * d \in Nat /\ v * (x + d) = v * x + v * d /\ y = x + d
    BY <1>3, <2>1
  <2> QED
    BY <1>4, <2>1, <2>2
<1>6. a > c => a > b
  BY <1>5
<1>7. (n - 1) * InvMaxCv > (n + 1) * (u \div n) => (n - 1) * InvMaxCv > (n + 1) * (t \div n)
  BY <1>2, <1>4, <1>6, Zenon
<1>8. Collide(t) => Collide(u)
  <2>1. PICK s \in Nat : s = t - 1
    OBVIOUS
  <2>2. t * s \in Nat /\ e * s \in Nat /\ t * e \in Nat /\ e * e \in Nat
    BY ProductNat
  <2>3. u * (u - 1) = (t + e) * (s + e)
    BY <1>1, <2>1
  <2>4. (t + e) * (s + e) = t * s + t * e + e * s + e * e
    OBVIOUS
  <2>5. t * (t - 1) <= u * (u - 1) /\ t * (t - 1) \in Nat /\ u * (u - 1) \in Nat
    BY <2>1, <2>2, <2>3, <2>4
  <2> QED
    BY <2>5, PlanningAssumption DEF Collide
<1>9. t * PointSize > MaxMemory => u * PointSize > MaxMemory
  <2>1. PointSize \in Nat /\ MaxMemory \in Nat
    BY PlanningAssumption
  <2>2. PICK s \in Nat : s = PointSize
    BY <2>1
  <2>3. (t + e) * s = t * s + e * s /\ t * s \in Nat /\ e * s \in Nat /\ u = t + e
    BY <1>1, ProductNat
  <2> QED
    BY <2>1, <2>2, <2>3
<1> QED
  BY <1>7, <1>8, <1>9

(* Following the advice takes points from no node, whatever the report     *)
(* says; the coefficient of variation gets no worse, and a ring reported   *)
(* for its collisions or its memory stays so (adaptive.rs 100-102,         *)
(* 120-147; ring.rs 88-91).                                                *)
THEOREM AdviceOnlyAdds == PlanningSpec => TuningOnlyAdds
<1>1. ASSUME RingsOK, NEW p \in Processes, Tune(p)
      PROVE  /\ \A i \in DOMAIN ring[p].nodes : HashCount(p, i)' >= HashCount(p, i)
             /\ CvExceeds(p)' => CvExceeds(p)
             /\ CollisionsExceed(p) => CollisionsExceed(p)'
             /\ MemoryExceeds(p) => MemoryExceeds(p)'
  <2>1. PICK nodes, target, points, spots :
          /\ nodes = ring[p].nodes /\ target = ring[p].target /\ points = ring[p].points
          /\ MadeFrom(nodes, target, points)
          /\ MadeFrom(nodes, Suggested(target), spots)
          /\ ring'[p].nodes = nodes /\ ring'[p].points = spots
    BY <1>1, TuneBuilds
  <2>2. \A i \in DOMAIN nodes :
          NodeHashes(nodes, target, i) <= NodeHashes(nodes, Suggested(target), i)
    BY <2>1, NodeHashesGrow DEF MadeFrom
  <2>3. ASSUME NEW i \in DOMAIN nodes PROVE HashCount(p, i)' >= HashCount(p, i)
    <3>1. /\ HashCount(p, i) = Cardinality({k \in DOMAIN points : points[k].node = i - 1})
          /\ HashCount(p, i)' = Cardinality({k \in DOMAIN spots : spots[k].node = i - 1})
      BY <2>1 DEF HashCount
    <3>2. /\ HashCount(p, i) = NodeHashes(nodes, target, i)
          /\ HashCount(p, i)' = NodeHashes(nodes, Suggested(target), i)
      BY <2>1, <3>1, PointsAreCounted
    <3>3. /\ NodeHashes(nodes, target, i) \in Nat
          /\ NodeHashes(nodes, Suggested(target), i) \in Nat
      BY <2>1, HashesPositive DEF MadeFrom
    <3> QED
      BY <2>2, <3>2, <3>3
  <2>4. PICK t \in Nat, u \in Nat :
          t = Len(points) /\ u = Len(spots) /\ t > 0 /\ t <= u
    BY <2>1, <2>2, MorePoints
  <2>5. PICK n \in Nat \ {0} : n = Len(nodes)
    BY <2>1, ListIsFinite DEF MadeFrom
  <2>6. /\ NodeCount(p) = n /\ NodeCount(p)' = n
        /\ TotalPoints(p) = t /\ TotalPoints(p)' = u
    BY <2>1, <2>4, <2>5 DEF NodeCount, TotalPoints
  <2>7. /\ (n - 1) * InvMaxCv > (n + 1) * (u \div n)
             => (n - 1) * InvMaxCv > (n + 1) * (t \div n)
        /\ Collide(t) => Collide(u)
        /\ t * PointSize > MaxMemory => u * PointSize > MaxMemory
    BY <2>4, MorePointsInReport
  <2>8. CvExceeds(p)' => CvExceeds(p)
    <3>1. CvExceeds(p)' <=> n > 1 /\ (n - 1) * InvMaxCv > (n + 1) * (u \div n)
      BY <2>6 DEF CvExceeds, AvgHashes
    <3>2. CvExceeds(p) <=> n > 1 /\ (n - 1) * InvMaxCv > (n + 1) * (t \div n)
      BY <2>6 DEF CvExceeds, AvgHashes
    <3> QED
      BY <2>7, <3>1, <3>2
  <2>9. CollisionsExceed(p) => CollisionsExceed(p)'
    <3>1. (CollisionsExceed(p) <=> Collide(t)) /\ (CollisionsExceed(p)' <=> Collide(u))
      BY <2>6 DEF CollisionsExceed, Collide
    <3> QED
      BY <2>7, <3>1
  <2>10. MemoryExceeds(p) => MemoryExceeds(p)'
    BY <2>6, <2>7 DEF MemoryExceeds
  <2> QED
    BY <2>1, <2>3, <2>8, <2>9, <2>10
<1>2. RingsOK /\ [PlanningNext]_vars =>
        [\A p \in Processes : Tune(p) =>
           /\ \A i \in DOMAIN ring[p].nodes : HashCount(p, i)' >= HashCount(p, i)
           /\ CvExceeds(p)' => CvExceeds(p)
           /\ CollisionsExceed(p) => CollisionsExceed(p)'
           /\ MemoryExceeds(p) => MemoryExceeds(p)']_vars
  BY <1>1
<1> QED
  BY <1>2, PlanningInvariant, PTL DEF PlanningSpec, TuningOnlyAdds
=============================================================================
