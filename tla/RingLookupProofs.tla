--------------------------- MODULE RingLookupProofs ---------------------------
(***************************************************************************)
(* The lookup of RingLookup is right on every ring: for any number of      *)
(* points, in any hash range, with or without collisions, sorted points    *)
(* are searched to the first point clockwise.                              *)
(*                                                                         *)
(* Before it, the lemmas the proofs about rings share: least elements,     *)
(* and sums over finite sets.  Induction is the search for a least         *)
(* counterexample, in a set written out for the formula at hand.           *)
(***************************************************************************)
EXTENDS RingLookup, FiniteSetsExt, FiniteSetTheorems, WellFoundedInduction, TLAPS

(* A nonempty set of naturals has a least element. *)
LEMMA LeastNat ==
  ASSUME NEW T, T \subseteq Nat, T # {}
  PROVE  \E m \in T : \A y \in T : m <= y
<1>1. PICK m \in T : \A y \in T : ~(<<y, m>> \in OpToRel(<, Nat))
  BY NatLessThanWellFounded, WFMin
<1>2. ASSUME NEW y \in T PROVE m <= y
  <2>1. ~(y < m)
    BY <1>1 DEF OpToRel
  <2> QED
    BY <2>1
<1> QED
  BY <1>2

-----------------------------------------------------------------------------
(* Sums of a function over a finite set. *)
SumOver(f, S) == MapThenSumSet(LAMBDA m : f[m], S)

Some(T) == CHOOSE m \in T : TRUE

(* g[T] is the sum over T, for the subsets T of S. *)
Sums(g, f, S) ==
  /\ g[{}] = 0
  /\ \A T \in SUBSET S : T # {} => g[T] = f[Some(T)] + g[T \ {Some(T)}]

(* One element fewer. *)
LEMMA SomeOf ==
  ASSUME NEW T, IsFiniteSet(T), T # {}
  PROVE  /\ Some(T) \in T
         /\ T \ {Some(T)} \in SUBSET T
         /\ IsFiniteSet(T \ {Some(T)})
         /\ Cardinality(T) \in Nat
         /\ Cardinality(T \ {Some(T)}) \in Nat
         /\ Cardinality(T \ {Some(T)}) = Cardinality(T) - 1
<1>1. Some(T) \in T
  BY DEF Some
<1>2. T \ {Some(T)} \in SUBSET T
  OBVIOUS
<1> QED
  BY <1>1, <1>2, FS_RemoveElement, FS_Subset, FS_CardinalityType

(* The fold of MapThenSumSet, unrolled. *)
LEMMA SumUnrolls ==
  ASSUME NEW S, IsFiniteSet(S), NEW f
  PROVE  \E g : Sums(g, f, S) /\ g[S] = SumOver(f, S)
<1> DEFINE Rhs(g, T) == IF T = {} THEN 0 ELSE f[Some(T)] + g[T \ {Some(T)}]
           Unrolls(m, g) == \A T \in SUBSET S : Cardinality(T) <= m => g[T] = Rhs(g, T)
           Bad == {m \in Nat : \A g : ~Unrolls(m, g)}
<1>0. \A T \in SUBSET S : /\ IsFiniteSet(T) /\ Cardinality(T) \in Nat
                          /\ Cardinality(T) <= Cardinality(S)
  BY FS_Subset, FS_CardinalityType
<1>1. Bad = {}
  <2> SUFFICES ASSUME Bad # {} PROVE FALSE
    OBVIOUS
  <2>1. PICK m \in Bad : \A y \in Bad : m <= y
    <3>1. Bad \subseteq Nat
      OBVIOUS
    <3> HIDE DEF Bad
    <3> QED
      BY <3>1, LeastNat
  <2>2. m \in Nat /\ \A g : ~Unrolls(m, g)
    OBVIOUS
  <2>3. \E g : \A T \in SUBSET S : Cardinality(T) <= m /\ T # {}
          => g[T \ {Some(T)}] = Rhs(g, T \ {Some(T)})
    <3>1. CASE m = 0
      <4>1. ASSUME NEW T \in SUBSET S, Cardinality(T) <= m PROVE T = {}
        BY <1>0, <3>1, <4>1, FS_EmptySet
      <4> QED
        BY <4>1
    <3>2. CASE m # 0
      <4>1. m - 1 \in Nat /\ ~(m <= m - 1)
        BY <2>2, <3>2
      <4>2. m - 1 \notin Bad
        <5> HIDE DEF Bad
        <5> QED
          BY <2>1, <4>1
      <4>3. PICK g : Unrolls(m - 1, g)
        <5> HIDE DEF Unrolls
        <5> QED
          BY <4>1, <4>2
      <4>4. ASSUME NEW T \in SUBSET S, Cardinality(T) <= m, T # {}
            PROVE  g[T \ {Some(T)}] = Rhs(g, T \ {Some(T)})
        <5> DEFINE U == T \ {Some(T)}
        <5>1. U \in SUBSET S /\ Cardinality(U) <= m - 1
          BY <1>0, <2>2, <4>4, SomeOf
        <5> HIDE DEF U, Rhs
        <5>2. g[U] = Rhs(g, U)
          BY <5>1, <4>3
        <5> QED
          BY <5>2 DEF U
      <4> HIDE DEF Rhs
      <4> QED
        BY <4>4
    <3> HIDE DEF Rhs
    <3> QED
      BY <3>1, <3>2
  <2>4. PICK g : \A T \in SUBSET S : Cardinality(T) <= m /\ T # {}
          => g[T \ {Some(T)}] = Rhs(g, T \ {Some(T)})
    <3> HIDE DEF Rhs
    <3> QED
      BY <2>3
  <2> DEFINE h == [T \in SUBSET S |-> Rhs(g, T)]
  <2>5. ASSUME NEW T \in SUBSET S, Cardinality(T) <= m PROVE h[T] = Rhs(h, T)
    <3>1. CASE T = {}
      BY <3>1
    <3>2. CASE T # {}
      <4>1. T \ {Some(T)} \in SUBSET S
        OBVIOUS
      <4>2. h[T \ {Some(T)}] = Rhs(g, T \ {Some(T)})
        <5> HIDE DEF Rhs
        <5> QED
          BY <4>1
      <4>3. h[T \ {Some(T)}] = g[T \ {Some(T)}]
        <5> HIDE DEF Rhs, h
        <5> QED
          BY <4>2, <2>4, <2>5, <3>2
      <4>4. h[T] = Rhs(g, T)
        <5> HIDE DEF Rhs
        <5> QED
          OBVIOUS
      <4> HIDE DEF h
      <4> QED
        BY <4>3, <4>4, <3>2
    <3> QED
      BY <3>1, <3>2
  <2>6. Unrolls(m, h)
    <3> HIDE DEF Rhs, h
    <3> QED
      BY <2>5
  <2> QED
    <3> HIDE DEF Unrolls, h
    <3> QED
      BY <2>2, <2>6
<1> DEFINE iter[T \in SUBSET S] ==
             IF T = {} THEN 0 ELSE f[Some(T)] + iter[T \ {Some(T)}]
           Whole(g) == g = [T \in SUBSET S |-> Rhs(g, T)]
<1>2. SumOver(f, S) = iter[S]
  BY DEF SumOver, MapThenSumSet, MapThenFoldSet, Some
<1>3. iter = CHOOSE g : Whole(g)
  OBVIOUS
<1>4. \E g : Whole(g)
  <2>1. PICK g : Unrolls(Cardinality(S), g)
    <3>1. Cardinality(S) \in Nat /\ Cardinality(S) \notin Bad
      <4> HIDE DEF Bad
      <4> QED
        BY <1>0, <1>1
    <3> HIDE DEF Unrolls
    <3> QED
      BY <3>1
  <2>2. ASSUME NEW T \in SUBSET S PROVE g[T] = Rhs(g, T)
    <3> HIDE DEF Rhs
    <3> QED
      BY <1>0, <2>1
  <2> DEFINE h == [T \in SUBSET S |-> g[T]]
  <2>3. ASSUME NEW T \in SUBSET S PROVE h[T] = Rhs(h, T)
    <3>1. T \ {Some(T)} \in SUBSET S
      OBVIOUS
    <3>2. h[T] = g[T] /\ h[T \ {Some(T)}] = g[T \ {Some(T)}]
      BY <3>1
    <3> HIDE DEF h
    <3> QED
      BY <3>2, <2>2
  <2>4. h = [T \in SUBSET S |-> h[T]]
    OBVIOUS
  <2>5. Whole(h)
    <3> HIDE DEF h, Rhs
    <3> QED
      BY <2>3, <2>4
  <2> HIDE DEF Whole
  <2> QED
    BY <2>5
<1> HIDE DEF iter
<1>5. Whole(iter)
  <2> HIDE DEF Whole
  <2> QED
    BY <1>3, <1>4
<1>6. \A T \in SUBSET S : iter[T] = Rhs(iter, T)
  <2> HIDE DEF Rhs
  <2> QED
    BY <1>5
<1>7. Sums(iter, f, S)
  BY <1>6 DEF Sums
<1> QED
  BY <1>2, <1>7

(* Induction over the subsets of a finite set. *)
LEMMA SubsetInduction ==
  ASSUME NEW S, IsFiniteSet(S), NEW Good, {} \in Good,
         \A T \in SUBSET S : T # {} /\ T \ {Some(T)} \in Good => T \in Good
  PROVE  SUBSET S \subseteq Good
<1> DEFINE Bad == {m \in Nat : \E T \in SUBSET S : Cardinality(T) = m /\ T \notin Good}
<1>1. Bad = {}
  <2> SUFFICES ASSUME Bad # {} PROVE FALSE
    OBVIOUS
  <2>1. PICK m \in Bad : \A y \in Bad : m <= y
    <3>1. Bad \subseteq Nat
      OBVIOUS
    <3> HIDE DEF Bad
    <3> QED
      BY <3>1, LeastNat
  <2>2. PICK T \in SUBSET S : Cardinality(T) = m /\ T \notin Good
    OBVIOUS
  <2>3. T # {} /\ IsFiniteSet(T)
    BY <2>2, FS_Subset
  <2>4. /\ Cardinality(T) \in Nat /\ Cardinality(T \ {Some(T)}) \in Nat
        /\ Cardinality(T \ {Some(T)}) = Cardinality(T) - 1
    BY <2>3, SomeOf
  <2>5. T \ {Some(T)} \in SUBSET S /\ T \ {Some(T)} \notin Good
    BY <2>2, <2>3
  <2>6. Cardinality(T \ {Some(T)}) \in Bad
    BY <2>4, <2>5
  <2> HIDE DEF Bad
  <2> QED
    BY <2>1, <2>2, <2>4, <2>6
<1>2. ASSUME NEW T \in SUBSET S PROVE T \in Good
  <2>1. Cardinality(T) \in Nat /\ Cardinality(T) \notin Bad
    <3> HIDE DEF Bad
    <3> QED
      BY <1>1, FS_Subset, FS_CardinalityType
  <2> QED
    BY <2>1
<1> QED
  BY <1>2

(* A sum of naturals is one, and no less than a bound on some of them,     *)
(* times their number.                                                     *)
LEMMA SumAtLeast ==
  ASSUME NEW S, IsFiniteSet(S), NEW f, \A m \in S : f[m] \in Nat,
         NEW P \in SUBSET S, NEW lo \in Nat, \A m \in P : lo <= f[m]
  PROVE  SumOver(f, S) \in Nat /\ Cardinality(P) * lo <= SumOver(f, S)
<1>1. PICK g : Sums(g, f, S) /\ g[S] = SumOver(f, S)
  BY SumUnrolls
<1> DEFINE Part(T) == T \cap P
           Fits(T) == g[T] \in Nat /\ Cardinality(Part(T)) * lo <= g[T]
           Good == {T \in SUBSET S : Fits(T)}
<1>2. Fits({})
  <2>1. Cardinality(Part({})) = 0
    BY FS_EmptySet
  <2> QED
    BY <2>1, <1>1 DEF Sums
<1>3. ASSUME NEW T \in SUBSET S, T # {}, Fits(T \ {Some(T)}) PROVE Fits(T)
  <2> DEFINE m == Some(T)
             R == T \ {m}
  <2>1. m \in T /\ R \in SUBSET S /\ IsFiniteSet(T) /\ f[m] \in Nat
    BY <1>3, SomeOf, FS_Subset
  <2>2. g[T] = f[m] + g[R]
    BY <1>1, <1>3 DEF Sums
  <2>3. IsFiniteSet(Part(R)) /\ Part(R) \subseteq S
    BY <2>1, FS_Subset
  <2>4. PICK c \in Nat : c = Cardinality(Part(R))
    BY <2>3, FS_CardinalityType
  <2>5. g[R] \in Nat /\ c * lo <= g[R]
    BY <1>3, <2>4
  <2>6. CASE m \in P
    <3>1. Part(T) = Part(R) \cup {m} /\ m \notin Part(R)
      BY <2>1, <2>6
    <3> HIDE DEF Part
    <3>2. Cardinality(Part(T)) = c + 1
      BY <2>3, <2>4, <3>1, FS_AddElement
    <3>3. (c + 1) * lo = c * lo + lo /\ c * lo \in Nat
      OBVIOUS
    <3>4. lo <= f[m]
      BY <2>6
    <3> HIDE DEF m, R
    <3>5. (c + 1) * lo <= g[T] /\ g[T] \in Nat
      BY <2>1, <2>2, <2>5, <3>3, <3>4
    <3> QED
      BY <3>2, <3>5
  <2>7. CASE m \notin P
    <3>1. Part(T) = Part(R)
      BY <2>7
    <3> HIDE DEF Part, m, R
    <3>2. c * lo \in Nat
      OBVIOUS
    <3>3. c * lo <= g[T] /\ g[T] \in Nat
      BY <2>1, <2>2, <2>5, <3>2
    <3> QED
      BY <2>4, <3>1, <3>3
  <2> QED
    BY <2>6, <2>7
<1>4. SUBSET S \subseteq Good
  <2>1. {} \in Good
    BY <1>2
  <2>2. \A T \in SUBSET S : T # {} /\ T \ {Some(T)} \in Good => T \in Good
    <3> HIDE DEF Fits
    <3> QED
      BY <1>3
  <2> HIDE DEF Good
  <2> QED
    BY <2>1, <2>2, SubsetInduction
<1>5. Fits(S)
  BY <1>4
<1>6. Part(S) = P
  OBVIOUS
<1> QED
  BY <1>1, <1>5, <1>6

(* Where one term changes, so does the sum. *)
LEMMA SumChanges ==
  ASSUME NEW S, IsFiniteSet(S), NEW f, NEW h, NEW n \in S, NEW d \in Int,
         \A m \in S : f[m] \in Int, h[n] = f[n] + d,
         \A m \in S : m # n => h[m] = f[m]
  PROVE  SumOver(f, S) \in Int /\ SumOver(h, S) = SumOver(f, S) + d
<1>1. PICK g : Sums(g, f, S) /\ g[S] = SumOver(f, S)
  BY SumUnrolls
<1>2. PICK k : Sums(k, h, S) /\ k[S] = SumOver(h, S)
  BY SumUnrolls
<1> DEFINE Fits(T) == /\ g[T] \in Int
                      /\ k[T] = g[T] + (IF n \in T THEN d ELSE 0)
           Good == {T \in SUBSET S : Fits(T)}
<1>3. Fits({})
  BY <1>1, <1>2 DEF Sums
<1>4. ASSUME NEW T \in SUBSET S, T # {}, Fits(T \ {Some(T)}) PROVE Fits(T)
  <2> DEFINE m == Some(T)
             R == T \ {m}
  <2>1. m \in T /\ R \in SUBSET S /\ f[m] \in Int
    BY <1>4, SomeOf, FS_Subset
  <2>2. g[T] = f[m] + g[R] /\ k[T] = h[m] + k[R]
    BY <1>1, <1>2, <1>4 DEF Sums
  <2>3. g[R] \in Int /\ k[R] = g[R] + (IF n \in R THEN d ELSE 0)
    BY <1>4
  <2>4. CASE m = n
    <3>1. n \in T /\ n \notin R /\ h[m] = f[m] + d
      BY <2>1, <2>4
    <3> HIDE DEF m, R
    <3> QED
      BY <2>1, <2>2, <2>3, <3>1
  <2>5. CASE m # n
    <3>1. (n \in T <=> n \in R) /\ h[m] = f[m]
      BY <2>1, <2>5
    <3> HIDE DEF m, R
    <3> QED
      BY <2>1, <2>2, <2>3, <3>1
  <2> QED
    BY <2>4, <2>5
<1>5. SUBSET S \subseteq Good
  <2>1. {} \in Good
    BY <1>3
  <2>2. \A T \in SUBSET S : T # {} /\ T \ {Some(T)} \in Good => T \in Good
    <3> HIDE DEF Fits
    <3> QED
      BY <1>4
  <2> HIDE DEF Good
  <2> QED
    BY <2>1, <2>2, SubsetInduction
<1>6. Fits(S)
  BY <1>5
<1> QED
  BY <1>1, <1>2, <1>6

(* A sum of zeros. *)
LEMMA SumOfZeros ==
  ASSUME NEW S, IsFiniteSet(S), NEW f, \A m \in S : f[m] = 0
  PROVE  SumOver(f, S) = 0
<1>1. PICK g : Sums(g, f, S) /\ g[S] = SumOver(f, S)
  BY SumUnrolls
<1> DEFINE Good == {T \in SUBSET S : g[T] = 0}
<1>2. {} \in Good
  BY <1>1 DEF Sums
<1>3. ASSUME NEW T \in SUBSET S, T # {}, T \ {Some(T)} \in Good PROVE T \in Good
  BY <1>1, <1>3, SomeOf, FS_Subset DEF Sums
<1>4. SUBSET S \subseteq Good
  <2> HIDE DEF Good
  <2> QED
    BY <1>2, <1>3, SubsetInduction
<1> QED
  BY <1>1, <1>4

(* Larger terms make a larger sum. *)
LEMMA SumMonotone ==
  ASSUME NEW S, IsFiniteSet(S), NEW f, NEW h,
         \A m \in S : f[m] \in Int /\ h[m] \in Int /\ f[m] <= h[m]
  PROVE  /\ SumOver(f, S) \in Int /\ SumOver(h, S) \in Int
         /\ SumOver(f, S) <= SumOver(h, S)
<1>1. PICK g : Sums(g, f, S) /\ g[S] = SumOver(f, S)
  BY SumUnrolls
<1>2. PICK k : Sums(k, h, S) /\ k[S] = SumOver(h, S)
  BY SumUnrolls
<1> DEFINE Fits(T) == g[T] \in Int /\ k[T] \in Int /\ g[T] <= k[T]
           Good == {T \in SUBSET S : Fits(T)}
<1>3. {} \in Good
  BY <1>1, <1>2 DEF Sums
<1>4. ASSUME NEW T \in SUBSET S, T # {}, T \ {Some(T)} \in Good PROVE T \in Good
  <2>1. Some(T) \in S
    BY <1>4, SomeOf, FS_Subset
  <2>2. /\ g[T] = f[Some(T)] + g[T \ {Some(T)}]
        /\ k[T] = h[Some(T)] + k[T \ {Some(T)}]
    BY <1>1, <1>2, <1>4 DEF Sums
  <2>3. f[Some(T)] \in Int /\ h[Some(T)] \in Int /\ f[Some(T)] <= h[Some(T)]
    BY <2>1
  <2>4. Fits(T \ {Some(T)})
    BY <1>4
  <2>5. Fits(T)
    BY <2>2, <2>3, <2>4
  <2> QED
    BY <2>5
<1>5. SUBSET S \subseteq Good
  <2> HIDE DEF Good
  <2> QED
    BY <1>3, <1>4, SubsetInduction
<1>6. Fits(S)
  BY <1>5
<1> QED
  BY <1>1, <1>2, <1>6

(* A sum of ones and zeros counts the ones. *)
LEMMA SumCounts ==
  ASSUME NEW S, IsFiniteSet(S), NEW P \in SUBSET S, NEW f,
         \A m \in S : f[m] = IF m \in P THEN 1 ELSE 0
  PROVE  SumOver(f, S) = Cardinality(P)
<1>1. PICK g : Sums(g, f, S) /\ g[S] = SumOver(f, S)
  BY SumUnrolls
<1> DEFINE Part(T) == T \cap P
           Good == {T \in SUBSET S : g[T] = Cardinality(Part(T))}
<1>2. {} \in Good
  <2>1. Part({}) = {}
    OBVIOUS
  <2> QED
    BY <1>1, <2>1, FS_EmptySet DEF Sums
<1>3. ASSUME NEW T \in SUBSET S, T # {}, T \ {Some(T)} \in Good PROVE T \in Good
  <2> DEFINE m == Some(T)
             R == T \ {m}
  <2>1. m \in T /\ m \in S
    BY <1>3, SomeOf, FS_Subset
  <2>2. g[T] = f[m] + g[R]
    BY <1>1, <1>3 DEF Sums
  <2>3. IsFiniteSet(Part(R)) /\ Part(R) \in SUBSET S
    BY FS_Subset
  <2>4. PICK c \in Nat : c = Cardinality(Part(R))
    BY <2>3, FS_CardinalityType
  <2>5. g[R] = c
    BY <1>3, <2>4
  <2>6. CASE m \in P
    <3>1. Part(T) = Part(R) \cup {m} /\ m \notin Part(R)
      BY <2>1, <2>6
    <3> HIDE DEF Part
    <3>2. Cardinality(Part(T)) = c + 1
      BY <2>3, <2>4, <3>1, FS_AddElement
    <3>3. f[m] = 1
      BY <2>1, <2>6
    <3> HIDE DEF m, R
    <3>4. g[T] = Cardinality(Part(T))
      BY <2>2, <2>5, <3>2, <3>3
    <3> QED
      BY <3>4
  <2>7. CASE m \notin P
    <3>1. Part(T) = Part(R)
      BY <2>7
    <3>2. f[m] = 0
      BY <2>1, <2>7
    <3> HIDE DEF Part, m, R
    <3>3. g[T] = Cardinality(Part(T))
      BY <2>2, <2>4, <2>5, <3>1, <3>2
    <3> QED
      BY <3>3
  <2> QED
    BY <2>6, <2>7
<1>4. SUBSET S \subseteq Good
  <2> HIDE DEF Good
  <2> QED
    BY <1>2, <1>3, SubsetInduction
<1>5. Part(S) = P
  OBVIOUS
<1> QED
  BY <1>1, <1>4, <1>5

-----------------------------------------------------------------------------
(* Quotients and products are compared by products alone. *)
LEMMA QuotientIs ==
  ASSUME NEW a \in Nat, NEW q \in Nat, NEW h \in Nat \ {0}
  PROVE  /\ a \div h \in Nat
         /\ q <= a \div h <=> q * h <= a
<1>1. PICK x \in Nat, y \in 0 .. h - 1 : x = a \div h /\ a = h * x + y
  <2>1. a \div h \in Nat /\ a % h \in 0 .. h - 1 /\ a = h * (a \div h) + (a % h)
    OBVIOUS
  <2> QED
    BY <2>1
<1>2. q <= x => (x - q) * h >= 0
  OBVIOUS
<1>3. q >= x + 1 => (q - x) * h >= h
  <2>1. ASSUME NEW e \in Nat, e >= 1 PROVE e * h >= h
    BY <2>1
  <2> QED
    BY <2>1
<1>4. (x - q) * h = x * h - q * h /\ (q - x) * h = q * h - x * h /\ x * h = h * x
  OBVIOUS
<1>5. x * h \in Nat /\ q * h \in Nat
  OBVIOUS
<1> QED
  BY <1>1, <1>2, <1>3, <1>4, <1>5

-----------------------------------------------------------------------------
(* Lookups. *)
(* Every index of the code's vector holds a point with a hash in range. *)
LEMMA HashInRange ==
  ASSUME NEW points \in Seq(Point), NEW i \in 0 .. Len(points) - 1
  PROVE  /\ PointAt(points, i) \in Point
         /\ PointAt(points, i).hash \in 0 .. MaxHash
         /\ PointAt(points, i).hash \in Int
<1>1. i + 1 \in 1 .. Len(points)
  OBVIOUS
<1>2. points[i + 1] \in Point
  BY <1>1
<1>3. points[i + 1].hash \in 0 .. MaxHash
  BY <1>2 DEF Point, Hashes
<1>4. points[i + 1].hash \in Int
  BY <1>3, MaxHashAssumption
<1> QED
  BY <1>2, <1>3, <1>4 DEF PointAt

(* In sorted points the hashes grow with the index. *)
LEMMA HashesGrow ==
  ASSUME NEW points \in Seq(Point), Sorted(points),
         NEW i \in 0 .. Len(points) - 1, NEW j \in i .. Len(points) - 1
  PROVE  PointAt(points, i).hash <= PointAt(points, j).hash
<1>1. i + 1 \in 1 .. Len(points) /\ j + 1 \in 1 .. Len(points)
  OBVIOUS
<1>2. j \in 0 .. Len(points) - 1
  OBVIOUS
<1>3. points[i + 1].hash \in Int /\ points[j + 1].hash \in Int
  BY <1>2, HashInRange DEF PointAt
<1>4. points[i + 1].hash <= points[j + 1].hash
  <2>1. CASE i = j
    BY <2>1, <1>3
  <2>2. CASE i < j
    BY <2>2, <1>1, <1>3 DEF Sorted, PointLeq
  <2> QED
    BY <2>1, <2>2
<1> QED
  BY <1>4 DEF PointAt

(* The search always finds the last point with the hash, if there is one.  *)
LEMMA LastMatchExists ==
  ASSUME NEW points \in Seq(Point), NEW h, Matches(points, h) # {}
  PROVE  /\ LastMatch(points, h) \in Matches(points, h)
         /\ \A j \in Matches(points, h) : j <= LastMatch(points, h)
<1> DEFINE Gaps == {Len(points) - i : i \in Matches(points, h)}
<1>1. Matches(points, h) \subseteq 0 .. Len(points) - 1
  BY DEF Matches
<1>2. Gaps \subseteq Nat /\ Gaps # {}
  BY <1>1
<1>3. PICK g \in Gaps : \A y \in Gaps : g <= y
  BY <1>2, LeastNat
<1>4. PICK i \in Matches(points, h) : g = Len(points) - i
  OBVIOUS
<1>5. ASSUME NEW j \in Matches(points, h) PROVE j <= i
  <2>1. Len(points) - j \in Gaps
    OBVIOUS
  <2>2. g <= Len(points) - j
    BY <1>3, <2>1
  <2> QED
    BY <2>2, <1>4, <1>1
<1> DEFINE IsLast(k) == \A j \in Matches(points, h) : j <= k
<1>6. IsLast(i)
  BY <1>5
<1>7. LastMatch(points, h) = CHOOSE k \in Matches(points, h) : IsLast(k)
  BY DEF LastMatch
<1> HIDE DEF IsLast
<1>8. LastMatch(points, h) \in Matches(points, h) /\ IsLast(LastMatch(points, h))
  BY <1>6, <1>7
<1> QED
  BY <1>8 DEF IsLast

(* Sorted points have a position that splits them at any hash. *)
LEMMA InsertionPointExists ==
  ASSUME NEW points \in Seq(Point), Sorted(points), NEW h \in Hashes
  PROVE  LET i == InsertionPoint(points, h)
         IN  /\ i \in 0 .. Len(points)
             /\ \A j \in 0 .. i - 1 : PointAt(points, j).hash < h
             /\ \A j \in i .. Len(points) - 1 : h <= PointAt(points, j).hash
<1> DEFINE Above(i) == \A j \in i .. Len(points) - 1 : h <= PointAt(points, j).hash
           T == {i \in 0 .. Len(points) : Above(i)}
<1>1. Len(points) \in T
  OBVIOUS
<1>2. T \subseteq Nat /\ T # {}
  BY <1>1
<1>3. PICK m \in T : \A y \in T : m <= y
  BY <1>2, LeastNat
<1>4. ASSUME NEW j \in 0 .. m - 1 PROVE PointAt(points, j).hash < h
  <2>1. j \in 0 .. Len(points) - 1 /\ j \notin T
    BY <1>3
  <2>2. PointAt(points, j).hash \in Int /\ h \in Int
    BY <2>1, HashInRange, MaxHashAssumption DEF Hashes
  <2>3. ASSUME h <= PointAt(points, j).hash PROVE FALSE
    <3>1. ASSUME NEW k \in j .. Len(points) - 1 PROVE h <= PointAt(points, k).hash
      <4>1. PointAt(points, j).hash <= PointAt(points, k).hash
        BY <2>1, HashesGrow
      <4>2. PointAt(points, k).hash \in Int
        BY <2>1, HashInRange, MaxHashAssumption DEF Hashes
      <4> QED
        BY <4>1, <4>2, <2>2, <2>3
    <3> QED
      BY <3>1, <2>1
  <2> QED
    BY <2>2, <2>3
<1>5. \E i \in 0 .. Len(points) :
        /\ \A j \in 0 .. i - 1 : PointAt(points, j).hash < h
        /\ \A j \in i .. Len(points) - 1 : h <= PointAt(points, j).hash
  BY <1>3, <1>4
<1> QED
  BY <1>5 DEF InsertionPoint

(* CompactRing::get on any ring with points, whatever the hash function    *)
(* gave them, starts at the first point clockwise from the key: no point   *)
(* of the ring lies strictly between (ring.rs 141-149).                    *)
THEOREM LookupFindsSuccessor ==
  ASSUME NEW points \in Seq(Point), Len(points) > 0, Sorted(points),
         NEW h \in Hashes
  PROVE  StartsAtSuccessor(points, h)
<1> DEFINE L == Len(points)
           Hash(i) == PointAt(points, i).hash
           s == StartIndex(points, h)
<1>1. \A i \in 0 .. L - 1 : Hash(i) \in 0 .. MaxHash
  BY HashInRange
<1>2. h \in 0 .. MaxHash /\ MaxHash \in Nat /\ L \in Nat
  BY MaxHashAssumption DEF Hashes
<1>3. CASE Matches(points, h) # {}
  <2>1. s \in 0 .. L - 1 /\ Hash(s) = h
    BY <1>3, LastMatchExists DEF StartIndex, Matches
  <2>2. ASSUME NEW i \in 0 .. L - 1
        PROVE  Clockwise(h, PointAt(points, s)) <= Clockwise(h, PointAt(points, i))
    BY <2>1, <1>1, <1>2 DEF Clockwise
  <2> QED
    BY <2>1, <2>2 DEF StartsAtSuccessor
<1>4. CASE Matches(points, h) = {}
  <2> DEFINE k == InsertionPoint(points, h)
  <2>1. /\ k \in 0 .. L
        /\ \A j \in 0 .. k - 1 : Hash(j) < h
        /\ \A j \in k .. L - 1 : h <= Hash(j)
    BY InsertionPointExists
  <2>2. s = k % L
    BY <1>4 DEF StartIndex
  <2>3. CASE k = L
    <3>1. s = 0 /\ 0 \in 0 .. L - 1
      BY <2>2, <2>3, <1>2
    <3>2. ASSUME NEW i \in 0 .. L - 1
          PROVE  Clockwise(h, PointAt(points, 0)) <= Clockwise(h, PointAt(points, i))
      <4>1. Hash(0) < h /\ Hash(i) < h
        BY <2>1, <2>3, <3>1
      <4>2. Hash(0) <= Hash(i)
        BY <3>1, HashesGrow
      <4>3. Hash(0) \in Int /\ Hash(i) \in Int
        BY <1>1, <3>1
      <4> HIDE DEF Hash
      <4>4. Hash(0) - h + MaxHash + 1 <= Hash(i) - h + MaxHash + 1
        BY <4>2, <4>3, <1>2
      <4> QED
        BY <4>1, <4>3, <4>4, <1>2 DEF Clockwise, Hash
    <3> QED
      BY <3>1, <3>2 DEF StartsAtSuccessor
  <2>4. CASE k \in 0 .. L - 1
    <3>1. s = k
      BY <2>2, <2>4, <1>2
    <3>2. ASSUME NEW i \in 0 .. L - 1
          PROVE  Clockwise(h, PointAt(points, k)) <= Clockwise(h, PointAt(points, i))
      <4>1. h <= Hash(k) /\ Hash(k) \in 0 .. MaxHash /\ Hash(i) \in 0 .. MaxHash
        BY <2>1, <2>4, <1>1
      <4>2. CASE i < k
        <5>1. Hash(i) < h
          BY <4>2, <2>1
        <5> QED
          BY <5>1, <4>1, <1>2 DEF Clockwise
      <4>3. CASE k <= i
        <5>1. Hash(k) <= Hash(i) /\ h <= Hash(i)
          BY <4>3, <2>1, <2>4, HashesGrow
        <5> QED
          BY <5>1, <4>1, <1>2 DEF Clockwise
      <4> QED
        BY <4>2, <4>3, <2>4
    <3> QED
      BY <3>1, <3>2, <2>4 DEF StartsAtSuccessor
  <2> QED
    BY <2>1, <2>3, <2>4, <1>2
<1> QED
  BY <1>3, <1>4
=============================================================================
