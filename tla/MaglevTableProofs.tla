-------------------------- MODULE MaglevTableProofs --------------------------
(***************************************************************************)
(* Theorems about MaglevTable, for every list of weights, every table size *)
(* and all offsets and skips.                                              *)
(***************************************************************************)
EXTENDS MaglevTable, FiniteSetTheorems, SequenceTheorems,
        WellFoundedInduction, TLAPS

(* A nonempty set of naturals has a least element: induction, for the      *)
(* concrete properties below, is the search for a least counterexample.    *)
LEMMA LeastNat ==
  ASSUME NEW T, T \subseteq Nat, T # {}
  PROVE  \E m \in T : \A y \in T : m <= y
<1>1. PICK m \in T : \A y \in T : ~(<<y, m>> \in OpToRel(<, Nat))
  BY NatLessThanWellFounded, WFMin
<1>2. ASSUME NEW y \in T PROVE m <= y
  <2>1. ~(y < m)
    BY <1>1 DEF OpToRel
  <2> QED
    BY <2>1
<1> QED
  BY <1>2

-----------------------------------------------------------------------------
(* Remainders. *)
LEMMA Remainder ==
  ASSUME NEW a \in Nat, NEW b \in Nat \ {0}
  PROVE  /\ a % b \in 0 .. b - 1
         /\ a \div b \in Nat
         /\ a = b * (a \div b) + (a % b)
  OBVIOUS

LEMMA DividesQuotient ==
  ASSUME NEW d \in Nat \ {0}, NEW n \in Nat
  PROVE  Divides(d, n) <=> \E q \in Nat : n = d * q
<1>1. ASSUME Divides(d, n) PROVE \E q \in Nat : n = d * q
  <2>1. n = d * (n \div d) + 0 /\ n \div d \in Nat
    BY <1>1, Remainder DEF Divides
  <2> QED
    BY <2>1
<1>2. ASSUME NEW q \in Nat, n = d * q PROVE Divides(d, n)
  <2>1. PICK x \in Nat, r \in 0 .. d - 1 : x = n \div d /\ r = n % d /\ n = d * x + r
    BY Remainder
  <2>2. d * (q - x) = r
    BY <1>2, <2>1
  <2>3. q - x >= 1 => d * (q - x) >= d
    OBVIOUS
  <2>4. q - x <= -1 => d * (q - x) <= -d
    OBVIOUS
  <2>5. q - x = 0
    BY <2>2, <2>3, <2>4, <2>1
  <2>6. r = 0
    BY <2>2, <2>5
  <2> QED
    BY <2>1, <2>6 DEF Divides
<1> QED
  BY <1>1, <1>2

LEMMA Quotient ==
  ASSUME NEW b \in Nat \ {0}, NEW q \in Nat, NEW r \in 0 .. b - 1
  PROVE  (b * q + r) \div b = q
<1> DEFINE a == b * q + r
<1>1. a \in Nat
  OBVIOUS
<1> HIDE DEF a
<1>2. PICK x \in Nat, y \in 0 .. b - 1 : x = a \div b /\ a = b * x + y
  BY <1>1, Remainder
<1>3. b * (x - q) = r - y
  BY <1>2 DEF a
<1>4. x - q >= 1 => b * (x - q) >= b
  OBVIOUS
<1>5. x - q <= -1 => b * (x - q) <= -b
  OBVIOUS
<1>6. x = q
  BY <1>3, <1>4, <1>5
<1> QED
  BY <1>2, <1>6 DEF a

(* Numbers with equal remainders differ by a multiple. *)
LEMMA SameRemainder ==
  ASSUME NEW a \in Nat, NEW b \in Nat, NEW n \in Nat \ {0}, a % n = b % n, a <= b
  PROVE  Divides(n, b - a)
<1>1. PICK x \in Nat, y \in Nat, r \in 0 .. n - 1 : a = n * x + r /\ b = n * y + r
  BY ZenonT(30), Remainder
<1>2. b - a = n * (y - x)
  BY <1>1
<1>3. y - x \in Nat
  <2>1. y - x <= -1 => n * (y - x) <= -n
    OBVIOUS
  <2> QED
    BY <2>1, <1>2
<1>4. b - a \in Nat
  OBVIOUS
<1> QED
  BY <1>2, <1>3, <1>4, DividesQuotient

-----------------------------------------------------------------------------
(* Permutations.  A prime divides no skip, as skips are positive and       *)
(* smaller.                                                                *)
LEMMA PrimeDivisors ==
  ASSUME NEW n \in Nat, IsPrime(n), NEW d \in 2 .. n, Divides(d, n)
  PROVE  d = n
<1>1. PICK q \in Nat : n = d * q
  BY DividesQuotient
<1> SUFFICES ASSUME d < n PROVE FALSE
  OBVIOUS
<1>2. q >= 2
  <2>1. q = 0 => d * q = 0
    OBVIOUS
  <2>2. q = 1 => d * q = d
    OBVIOUS
  <2> QED
    BY <1>1, <2>1, <2>2 DEF IsPrime
<1>3. n = q * d
  BY <1>1
<1>4. Divides(q, n)
  BY <1>3, <1>2, DividesQuotient
<1>5. ~Divides(2, n)
  BY DEF IsPrime
<1>6. ASSUME NEW i \in Nat, NEW j \in Nat, n = i * j PROVE i % 2 = 1
  <2>1. i = 2 * (i \div 2) + (i % 2) /\ i \div 2 \in Nat /\ i % 2 \in 0 .. 1
    BY Remainder
  <2>2. CASE i % 2 = 0
    <3>1. PICK x \in Nat : i = 2 * x
      BY <2>1, <2>2
    <3>2. n = 2 * (x * j) /\ x * j \in Nat
      BY <1>6, <3>1
    <3>3. Divides(2, n)
      BY <3>2, DividesQuotient
    <3> QED
      BY <3>3, <1>5
  <2> QED
    BY <2>1, <2>2
<1>7. d % 2 = 1 /\ q % 2 = 1
  <2>1. d \in Nat
    OBVIOUS
  <2> QED
    BY <2>1, <1>1, <1>3, <1>6
<1>8. d >= 3 /\ q >= 3
  BY <1>7, <1>2
<1>9. d * d <= n \/ q * q <= n
  <2>1. CASE d <= q
    <3>1. d * (q - d) >= 0
      BY <2>1
    <3> QED
      BY <3>1, <1>1
  <2>2. CASE q <= d
    <3>1. q * (d - q) >= 0
      BY <2>2
    <3> QED
      BY <3>1, <1>1
  <2> QED
    BY <2>1, <2>2
<1>10. q <= n
  <2>1. (d - 1) * q >= 0
    OBVIOUS
  <2> QED
    BY <2>1, <1>1
<1> QED
  BY <1>4, <1>7, <1>8, <1>9, <1>10 DEF IsPrime

(* If the size and the skip have no divisor in common, the permutation     *)
(* comes by no slot twice before it has come by all.                       *)
LEMMA SlotsDiffer ==
  ASSUME NEW n \in Nat \ {0}, NEW offset \in Nat, NEW skip \in Nat,
         \A d \in 2 .. n : ~(Divides(d, n) /\ Divides(d, skip)),
         NEW i \in 0 .. n - 1, NEW k \in 0 .. n - 1, i < k
  PROVE  (offset + i * skip) % n # (offset + k * skip) % n
<1> SUFFICES ASSUME (offset + i * skip) % n = (offset + k * skip) % n
             PROVE  FALSE
  OBVIOUS
<1> DEFINE T == {d \in 1 .. n : Divides(n, d * skip)}
<1>1. k - i \in 1 .. n - 1 /\ Divides(n, (k - i) * skip)
  <2> DEFINE a == offset + i * skip
             b == offset + k * skip
  <2>1. a \in Nat /\ b \in Nat /\ a % n = b % n
    OBVIOUS
  <2>2. b - a = (k - i) * skip
    OBVIOUS
  <2>3. (k - i) * skip >= 0
    OBVIOUS
  <2> HIDE DEF a, b
  <2>4. a <= b
    BY <2>1, <2>2, <2>3
  <2>5. Divides(n, b - a)
    BY <2>1, <2>4, SameRemainder
  <2> QED
    BY <2>2, <2>5
<1>2. k - i \in T
  BY <1>1
<1>3. PICK d \in T : \A y \in T : d <= y
  <2>1. T \subseteq Nat
    OBVIOUS
  <2> HIDE DEF T
  <2> QED
    BY <1>2, <2>1, LeastNat
<1>4. d \in 1 .. n - 1 /\ d \in Nat \ {0} /\ d <= n
  <2>1. d \in 1 .. n
    OBVIOUS
  <2>2. d <= k - i
    BY <1>2, <1>3
  <2> QED
    BY <1>1, <2>1, <2>2
<1>5. PICK c \in Nat : d * skip = n * c
  <2>1. d * skip \in Nat /\ Divides(n, d * skip)
    BY <1>4
  <2> QED
    BY <2>1, DividesQuotient
<1>6. PICK e \in Nat, r \in 0 .. d - 1 : n = d * e + r
  <2>1. /\ n \div d \in Nat /\ n % d \in 0 .. d - 1
        /\ n = d * (n \div d) + (n % d)
    BY <1>4, Remainder
  <2> QED
    BY <2>1
<1>7. r = 0
  <2> SUFFICES ASSUME r > 0 PROVE FALSE
    BY <1>6
  <2>1. r * skip = n * (skip - e * c)
    <3>1. r = n - d * e
      BY <1>6, <1>4
    <3>2. r * skip = n * skip - e * (d * skip)
      BY <3>1, <1>4
    <3>3. r * skip = n * skip - e * (n * c)
      BY <3>2, <1>5
    <3> QED
      BY <3>3
  <2>2. skip - e * c >= 0
    <3>1. r * skip >= 0
      BY <1>6
    <3>2. skip - e * c <= -1 => n * (skip - e * c) <= -n
      OBVIOUS
    <3> QED
      BY <2>1, <3>1, <3>2
  <2>3. Divides(n, r * skip)
    <3>1. skip - e * c \in Nat /\ r * skip \in Nat
      BY <2>2, <1>6
    <3> QED
      BY <3>1, <2>1, DividesQuotient
  <2>4. r \in T
    BY <2>3, <1>4, <1>6
  <2>5. d <= r
    BY <2>4, <1>3
  <2> QED
    BY <2>5, <1>4, <1>6
<1>8. n = e * d
  BY <1>6, <1>7, <1>4
<1>9. e >= 2 /\ e <= n
  <2>1. e = 0 => e * d = 0
    BY <1>4
  <2>2. e = 1 => e * d = d
    BY <1>4
  <2>3. e * (d - 1) >= 0
    BY <1>4
  <2> QED
    BY <2>1, <2>2, <2>3, <1>8, <1>4
<1>10. Divides(e, n)
  BY <1>8, <1>9, <1>4, DividesQuotient
<1>11. skip = e * c
  <2>1. d * (skip - e * c) = 0
    <3>1. d * skip = (e * d) * c
      BY <1>5, <1>8
    <3> QED
      BY <3>1, <1>4
  <2>2. skip - e * c >= 1 => d * (skip - e * c) >= d
    BY <1>4
  <2>3. skip - e * c <= -1 => d * (skip - e * c) <= -d
    BY <1>4
  <2> QED
    BY <2>1, <2>2, <2>3, <1>4
<1>12. Divides(e, skip)
  BY <1>11, <1>9, DividesQuotient
<1> QED
  BY <1>9, <1>10, <1>12

(* The k-th slot of a permutation. *)
Visit(n, offset, skip, k) == (offset + k * skip) % n

(* Then it comes by all of them. *)
LEMMA SlotsCovered ==
  ASSUME NEW n \in Nat \ {0}, NEW offset \in Nat, NEW skip \in Nat,
         \A d \in 2 .. n : ~(Divides(d, n) /\ Divides(d, skip)),
         NEW s \in 0 .. n - 1
  PROVE  \E k \in 0 .. n - 1 : Visit(n, offset, skip, k) = s
<1> DEFINE S == 0 .. n - 1
           f == [k \in S |-> (offset + k * skip) % n]
<1>1. f \in [S -> S]
  <2> SUFFICES ASSUME NEW k \in S PROVE (offset + k * skip) % n \in S
    OBVIOUS
  <2>1. offset + k * skip \in Nat
    OBVIOUS
  <2> QED
    BY <2>1, Remainder
<1>2. \A i, k \in S : f[i] = f[k] => i = k
  <2> SUFFICES ASSUME NEW i \in S, NEW k \in S, i < k PROVE f[i] # f[k]
    OBVIOUS
  <2>1. (offset + i * skip) % n # (offset + k * skip) % n
    BY SlotsDiffer
  <2> QED
    BY <2>1
<1>3. IsFiniteSet(S)
  BY FS_Interval
<1>4. f[s] \in S /\ DOMAIN f = S
  BY <1>1
<1> HIDE DEF f, S
<1>5. f \in Injection(S, S)
  BY <1>1, <1>2, <1>4 DEF Injection, IsInjective
<1>6. f \in Surjection(S, S)
  BY <1>3, <1>5, FS_Injection
<1>7. \E k \in S : f[k] = s
  BY <1>6 DEF Surjection, S
<1> QED
  BY <1>7 DEF f, S, Visit

-----------------------------------------------------------------------------
(* The places that t fills with v, and with any of V. *)
PlacesOf(D, t, v) == {s \in D : t[s] = v}
PlacesIn(D, t, V) == {s \in D : t[s] \in V}

(* If each value of V has between lo and hi places in t, then several of   *)
(* them have between lo and hi times as many as they are.                  *)
LEMMA SharesAddUp ==
  ASSUME NEW D, IsFiniteSet(D), NEW t, NEW V, IsFiniteSet(V),
         NEW lo \in Nat, NEW hi \in Nat,
         \A v \in V : Cardinality(PlacesOf(D, t, v)) \in lo .. hi,
         NEW n \in Nat, n = Cardinality(V)
  PROVE  /\ Cardinality(PlacesIn(D, t, V)) \in Nat
         /\ n * lo <= Cardinality(PlacesIn(D, t, V))
         /\ Cardinality(PlacesIn(D, t, V)) <= n * hi
<1> DEFINE In(S) == {s \in D : t[s] \in S}
           Fits(S) == /\ Cardinality(In(S)) \in Nat
                      /\ Cardinality(S) * lo <= Cardinality(In(S))
                      /\ Cardinality(In(S)) <= Cardinality(S) * hi
           Bad == {m \in Nat : \E S \in SUBSET V : Cardinality(S) = m /\ ~Fits(S)}
<1>1. ASSUME NEW S \in SUBSET V
      PROVE  /\ IsFiniteSet(S) /\ Cardinality(S) \in Nat
             /\ IsFiniteSet(In(S)) /\ Cardinality(In(S)) \in Nat
  <2>1. In(S) \in SUBSET D
    OBVIOUS
  <2> HIDE DEF In
  <2> QED
    BY <2>1, FS_Subset, FS_CardinalityType
<1>2. Bad = {}
  <2> SUFFICES ASSUME Bad # {} PROVE FALSE
    OBVIOUS
  <2>1. Bad \subseteq Nat
    OBVIOUS
  <2> HIDE DEF Bad
  <2>2. PICK m \in Bad : \A y \in Bad : m <= y
    BY <2>1, LeastNat
  <2>3. m \in Nat
    BY <2>1
  <2> USE DEF Bad
  <2>4. PICK S \in SUBSET V : Cardinality(S) = m /\ ~Fits(S)
    OBVIOUS
  <2>5. S # {}
    <3> SUFFICES ASSUME S = {} PROVE FALSE
      OBVIOUS
    <3>1. In(S) = {}
      OBVIOUS
    <3> HIDE DEF In
    <3>2. Cardinality(S) = 0 /\ Cardinality(In(S)) = 0
      BY <3>1, FS_EmptySet
    <3> QED
      BY <3>2, <2>4
  <2>6. PICK v \in S : TRUE
    BY <2>5
  <2> DEFINE R == S \ {v}
             One == PlacesOf(D, t, v)
  <2>7. R \in SUBSET V /\ Cardinality(R) = Cardinality(S) - 1 /\ Cardinality(R) \in Nat
    BY <1>1, FS_RemoveElement
  <2>8. Fits(R)
    <3> SUFFICES ASSUME ~Fits(R) PROVE FALSE
      OBVIOUS
    <3> HIDE DEF Fits, R
    <3>1. Cardinality(R) \in Bad
      BY <2>7
    <3> HIDE DEF Bad
    <3> QED
      BY <3>1, <2>2, <2>3, <2>4, <2>7
  <2>9. /\ IsFiniteSet(One) /\ Cardinality(One) \in lo .. hi
        /\ In(S) = In(R) \cup One /\ In(R) \cap One = {}
    <3>1. IsFiniteSet(One)
      BY FS_Subset DEF PlacesOf
    <3> QED
      BY <3>1, <2>6 DEF PlacesOf
  <2>10. Cardinality(In(S)) = Cardinality(In(R)) + Cardinality(One)
    <3> HIDE DEF In, One, R
    <3>1. IsFiniteSet(In(R))
      BY <1>1, <2>7
    <3>2. Cardinality(In(R) \cap One) = 0
      BY <2>9, FS_EmptySet
    <3>3. Cardinality(In(R) \cup One)
            = Cardinality(In(R)) + Cardinality(One) - Cardinality(In(R) \cap One)
      BY <3>1, <2>9, FS_Union
    <3>4. Cardinality(In(R)) \in Nat /\ Cardinality(One) \in Nat
      BY <1>1, <2>7, <2>9
    <3> QED
      BY <3>2, <3>3, <3>4, <2>9
  <2> HIDE DEF In, One, R, Bad
  <2>11. PICK a \in Nat, b \in Nat, c \in lo .. hi :
           /\ a = Cardinality(R) /\ b = Cardinality(In(R)) /\ c = Cardinality(One)
           /\ a * lo <= b /\ b <= a * hi
    BY <2>7, <2>8, <2>9
  <2>12. /\ Cardinality(S) = a + 1 /\ Cardinality(In(S)) = b + c
    BY <1>1, <2>7, <2>10, <2>11
  <2>13. (a + 1) * lo <= b + c /\ b + c <= (a + 1) * hi
    BY <2>11
  <2> QED
    BY <2>4, <2>12, <2>13
<1>3. Fits(V)
  BY <1>2
<1> QED
  BY <1>3 DEF PlacesIn

-----------------------------------------------------------------------------
(* FlattenSeq, unrolled: the concatenations of the first i sequences. *)
LEMMA Flattened ==
  ASSUME NEW S, NEW seqs \in Seq(S), seqs # <<>>
  PROVE  \E g : /\ FlattenSeq(seqs) = g[Len(seqs)]
                /\ g[1] = seqs[1]
                /\ \A i \in 2 .. Len(seqs) : g[i] = g[i - 1] \o seqs[i]
<1> DEFINE Unrolls(m, g) ==
             g = [i \in 1 .. m |-> IF i = 1 THEN seqs[i] ELSE g[i - 1] \o seqs[i]]
           Bad == {m \in Nat : \A g : ~Unrolls(m, g)}
<1>1. Bad = {}
  <2> SUFFICES ASSUME Bad # {} PROVE FALSE
    OBVIOUS
  <2>1. PICK m \in Bad : \A y \in Bad : m <= y
    <3>1. Bad \subseteq Nat
      OBVIOUS
    <3> HIDE DEF Bad
    <3> QED
      BY <3>1, LeastNat
  <2>2. m # 0
    <3>1. Unrolls(0, <<>>)
      OBVIOUS
    <3> QED
      BY <3>1
  <2>3. PICK g : Unrolls(m - 1, g)
    <3>1. m \in Nat
      OBVIOUS
    <3>2. m - 1 \in Nat /\ ~(m <= m - 1)
      BY <3>1, <2>2
    <3>3. m - 1 \notin Bad
      <4> HIDE DEF Bad
      <4> QED
        BY <3>2, <2>1
    <3> HIDE DEF Unrolls
    <3> QED
      BY <3>2, <3>3
  <2> DEFINE h == [i \in 1 .. m |-> IF i = m
                     THEN (IF i = 1 THEN seqs[i] ELSE g[i - 1] \o seqs[i]) ELSE g[i]]
  <2>4. ASSUME NEW i \in 1 .. m
        PROVE  h[i] = IF i = 1 THEN seqs[i] ELSE h[i - 1] \o seqs[i]
    <3>1. m \in Nat /\ m >= 1
      BY <2>2
    <3>2. CASE i = m
      <4>1. i # 1 => h[i - 1] = g[i - 1]
        BY <3>1, <3>2
      <4> QED
        BY <3>2, <4>1
    <3>3. CASE i # m
      <4>1. i \in 1 .. m - 1
        BY <3>1, <3>3
      <4>2. g[i] = IF i = 1 THEN seqs[i] ELSE g[i - 1] \o seqs[i]
        BY <2>3, <4>1
      <4>3. h[i] = g[i] /\ (i # 1 => h[i - 1] = g[i - 1])
        BY <3>1, <3>3, <4>1
      <4> QED
        BY <4>2, <4>3
    <3> QED
      BY <3>2, <3>3
  <2>5. Unrolls(m, h)
    <3>1. h = [i \in 1 .. m |-> h[i]]
      OBVIOUS
    <3> HIDE DEF h
    <3> QED
      BY <3>1, <2>4
  <2> QED
    BY <2>5
<1>2. Len(seqs) \in Nat /\ Len(seqs) >= 1
  OBVIOUS
<1> DEFINE flatten[i \in 1 .. Len(seqs)] ==
             IF i = 1 THEN seqs[i] ELSE flatten[i - 1] \o seqs[i]
<1>3. FlattenSeq(seqs) = flatten[Len(seqs)]
  BY <1>2 DEF FlattenSeq
<1>4. flatten = CHOOSE g : Unrolls(Len(seqs), g)
  OBVIOUS
<1>5. \E g : Unrolls(Len(seqs), g)
  <2>1. Len(seqs) \notin Bad
    <3> HIDE DEF Bad
    <3> QED
      BY <1>1
  <2> HIDE DEF Unrolls
  <2> QED
    BY <1>2, <2>1
<1> HIDE DEF flatten
<1>6. Unrolls(Len(seqs), flatten)
  <2> HIDE DEF Unrolls
  <2> QED
    BY <1>4, <1>5
<1>7. \A i \in 1 .. Len(seqs) :
        flatten[i] = IF i = 1 THEN seqs[i] ELSE flatten[i - 1] \o seqs[i]
  BY <1>6
<1>8. flatten[1] = seqs[1]
  BY <1>2, <1>7
<1>9. ASSUME NEW i \in 2 .. Len(seqs) PROVE flatten[i] = flatten[i - 1] \o seqs[i]
  <2>1. i \in 1 .. Len(seqs) /\ i # 1
    BY <1>2
  <2> QED
    BY <2>1, <1>7
<1> WITNESS flatten
<1> QED
  BY <1>3, <1>8, <1>9

LEMMA IntervalSize ==
  ASSUME NEW a \in Nat, NEW w \in Nat
  PROVE  /\ Cardinality(a + 1 .. a + w) = w
         /\ Cardinality(1 .. w) = w
         /\ IsFiniteSet(1 .. w)
  BY FS_Interval

(* Each node has as many virtual nodes as its weight says. *)
LEMMA OwnersFollowWeights ==
  ASSUME weights \in Seq(Nat), weights # <<>>
  PROVE  /\ VnodeToNode \in Seq(DOMAIN weights)
         /\ \A k \in DOMAIN weights :
              Cardinality({v \in VNodes : VnodeToNode[v] = k}) = weights[k]
<1> DEFINE N == Len(weights)
           seqs == [k \in 1 .. N |-> [j \in 1 .. weights[k] |-> k]]
           Places(s, k) == {v \in 1 .. Len(s) : s[v] = k}
           Dealt(s, m) == /\ s \in Seq(1 .. m)
                          /\ \A k \in 1 .. m : Cardinality(Places(s, k)) = weights[k]
<1>1. N \in Nat /\ N >= 1 /\ DOMAIN weights = 1 .. N /\ \A k \in 1 .. N : weights[k] \in Nat
  OBVIOUS
<1>2. /\ seqs \in Seq(Seq(1 .. N)) /\ seqs # <<>> /\ Len(seqs) = N
      /\ \A k \in 1 .. N : /\ seqs[k] \in Seq({k}) /\ Len(seqs[k]) = weights[k]
                            /\ \A j \in 1 .. weights[k] : seqs[k][j] = k
  <2>1. ASSUME NEW k \in 1 .. N
        PROVE  /\ seqs[k] \in Seq({k}) /\ Len(seqs[k]) = weights[k]
               /\ \A j \in 1 .. weights[k] : seqs[k][j] = k
               /\ seqs[k] \in Seq(1 .. N)
    BY <1>1
  <2>2. DOMAIN seqs = 1 .. N
    OBVIOUS
  <2>3. seqs \in [1 .. N -> Seq(1 .. N)]
    BY <2>1
  <2> HIDE DEF seqs, N
  <2>4. seqs \in Seq(Seq(1 .. N)) /\ Len(seqs) = N
    BY <2>2, <2>3, <1>1
  <2>5. seqs # <<>>
    BY <2>4, <1>1
  <2> QED
    BY <2>1, <2>4, <2>5
<1> HIDE DEF seqs
<1>3. PICK g : /\ FlattenSeq(seqs) = g[N] /\ g[1] = seqs[1]
               /\ \A i \in 2 .. N : g[i] = g[i - 1] \o seqs[i]
  <2> HIDE DEF N
  <2>1. \E g : /\ FlattenSeq(seqs) = g[Len(seqs)] /\ g[1] = seqs[1]
               /\ \A i \in 2 .. Len(seqs) : g[i] = g[i - 1] \o seqs[i]
    <3>1. seqs \in Seq(Seq(1 .. N)) /\ seqs # <<>>
      BY <1>2
    <3> QED
      BY <3>1, Flattened, Zenon
  <2>2. Len(seqs) = N
    BY <1>2
  <2> QED
    BY <2>1, <2>2
<1> DEFINE Bad == {m \in Nat : m \in 1 .. N /\ ~Dealt(g[m], m)}
<1>4. Bad = {}
  <2> SUFFICES ASSUME Bad # {} PROVE FALSE
    OBVIOUS
  <2>1. PICK m \in Bad : \A y \in Bad : m <= y
    <3>1. Bad \subseteq Nat
      OBVIOUS
    <3> HIDE DEF Bad
    <3> QED
      BY <3>1, LeastNat
  <2>2. m \in 1 .. N /\ ~Dealt(g[m], m) /\ m \in Nat
    OBVIOUS
  <2> DEFINE w == weights[m]
  <2>3. w \in Nat /\ seqs[m] \in Seq({m}) /\ Len(seqs[m]) = w
        /\ \A j \in 1 .. w : seqs[m][j] = m
    BY <1>1, <1>2, <2>2
  <2>4. m # 1
    <3> SUFFICES ASSUME m = 1 PROVE FALSE
      OBVIOUS
    <3>1. g[1] \in Seq(1 .. 1) /\ Places(g[1], 1) = 1 .. w
      BY <1>3, <2>3
    <3>2. Cardinality(1 .. w) = w
      BY <2>3, IntervalSize
    <3>3. \A k \in 1 .. 1 : Cardinality(Places(g[1], k)) = weights[k]
      <4> HIDE DEF Places
      <4> QED
        BY <3>1, <3>2
    <3>4. Dealt(g[1], 1)
      BY <3>1, <3>3
    <3> QED
      BY <2>2, <3>4
  <2>5. m - 1 \in 1 .. N /\ Dealt(g[m - 1], m - 1)
    <3>1. m - 1 \in 1 .. N /\ ~(m <= m - 1)
      BY <1>1, <2>2, <2>4
    <3>2. m - 1 \notin Bad
      <4> HIDE DEF Bad
      <4> QED
        BY <3>1, <2>1
    <3> HIDE DEF Dealt
    <3> QED
      BY <3>1, <3>2
  <2> DEFINE s == g[m - 1]
             t == g[m]
  <2>6. t = s \o seqs[m] /\ s \in Seq(1 .. m - 1)
    <3>1. m \in 2 .. N
      BY <2>2, <2>4
    <3> QED
      BY <3>1, <1>3, <2>5
  <2> HIDE DEF s, t, w, Bad, N
  <2>7. PICK L \in Nat : L = Len(s)
    BY <2>6
  <2>8. /\ t \in Seq(1 .. m) /\ Len(t) = L + w
        /\ \A v \in 1 .. L : t[v] = s[v] /\ s[v] \in 1 .. m - 1
        /\ \A v \in L + 1 .. L + w : t[v] = m
    <3>1. s \in Seq(1 .. m) /\ seqs[m] \in Seq(1 .. m)
      BY <2>2, <2>3, <2>6
    <3>2. t \in Seq(1 .. m) /\ Len(t) = L + w
      BY <3>1, <2>3, <2>6, <2>7
    <3>3. ASSUME NEW v \in 1 .. L PROVE t[v] = s[v] /\ s[v] \in 1 .. m - 1
      <4>1. v \in 1 .. Len(s)
        BY <2>7
      <4>2. s[v] \in 1 .. m - 1
        BY <4>1, <2>2, <2>6, ElementOfSeq
      <4> QED
        BY <3>1, <4>1, <4>2, <2>6
    <3>4. ASSUME NEW v \in L + 1 .. L + w PROVE t[v] = m
      <4>1. v - L \in 1 .. w
        BY <2>7, <2>3
      <4>2. t[v] = seqs[m][v - L]
        BY <3>1, <4>1, <2>3, <2>6, <2>7
      <4> QED
        BY <4>1, <4>2, <2>3
    <3> QED
      BY <3>2, <3>3, <3>4
  <2>9. ASSUME NEW k \in 1 .. m PROVE Cardinality(Places(t, k)) = weights[k]
    <3>1. CASE k = m
      <4>1. Places(t, k) = L + 1 .. L + w
        BY <3>1, <2>2, <2>3, <2>7, <2>8
      <4>2. Cardinality(L + 1 .. L + w) = w
        BY <2>3, <2>7, IntervalSize
      <4> QED
        BY <3>1, <4>1, <4>2 DEF w
    <3>2. CASE k # m
      <4>1. k \in 1 .. m - 1
        BY <3>2, <2>2
      <4>2. Places(t, k) = Places(s, k)
        <5>1. ASSUME NEW v PROVE v \in Places(t, k) <=> v \in Places(s, k)
          <6>1. CASE v \in 1 .. L
            BY <6>1, <2>3, <2>7, <2>8
          <6>2. CASE v \in L + 1 .. L + w
            <7>1. t[v] # k /\ v \notin 1 .. L
              BY <6>2, <3>2, <2>8
            <7> QED
              BY <7>1, <2>7
          <6>3. CASE v \notin 1 .. L + w
            <7>1. v \notin 1 .. L
              BY <6>3, <2>3
            <7> QED
              BY <6>3, <7>1, <2>7, <2>8
          <6> QED
            BY <6>1, <6>2, <6>3, <2>3
        <5> QED
          BY <5>1
      <4> QED
        BY <4>1, <4>2, <2>5 DEF s
    <3> QED
      BY <3>1, <3>2
  <2>10. Dealt(t, m)
    <3> HIDE DEF Places
    <3> QED
      BY <2>8, <2>9
  <2> QED
    BY <2>2, <2>10 DEF t
<1>5. Dealt(g[N], N)
  <2>1. N \notin Bad
    BY <1>4
  <2> HIDE DEF Dealt
  <2> QED
    BY <2>1, <1>1
<1>6. VnodeToNode = g[N]
  BY <1>3 DEF VnodeToNode, seqs
<1> QED
  BY <1>1, <1>5, <1>6 DEF VNodes

-----------------------------------------------------------------------------
Started == pc \in {"filling", "built"}

TypeOK ==
  /\ weights \in Seq(Nat)
  /\ size \in Nat
  /\ pc \in {"new", "filling", "built", "EmptyRing", "InvalidWeight", "panicked"}
  /\ pc = "new" => table = [s \in Slots |-> Empty] /\ turn = 1
  /\ Started => /\ Accepted
                /\ size >= 2
                /\ perm \in [VNodes -> Placements(size)]
                /\ table \in [Slots -> VNodes \cup {Empty}]
                /\ next \in [VNodes -> 0 .. size]
                /\ turn \in VNodes

(* What a virtual node has come by is taken. *)
PassedIsTaken ==
  Started => \A v \in VNodes, k \in Slots : k < next[v] => table[Slot(v, k)] # Empty

(* Only what some permutation comes by is taken. *)
TakenIsReached ==
  Started => \A s \in Slots : table[s] # Empty => s \in Reached

BuiltIsFull ==
  pc = "built" => \A s \in Slots : table[s] # Empty

(* A round gives one slot to each virtual node: those that have had their  *)
(* turn in this one have one slot more than the others.                    *)
InTurn ==
  Started /\ AllPermute =>
    \E r \in Nat : \A v \in VNodes : SlotsOf(v) = IF v < turn THEN r + 1 ELSE r

IInv == TypeOK /\ PassedIsTaken /\ TakenIsReached /\ BuiltIsFull /\ InTurn

-----------------------------------------------------------------------------
(* A list of weights that is accepted has virtual nodes. *)
LEMMA SomeVNode ==
  ASSUME weights \in Seq(Nat), Accepted
  PROVE  /\ Len(VnodeToNode) \in Nat /\ Len(VnodeToNode) >= 1
         /\ VNodes = 1 .. Len(VnodeToNode)
         /\ \A v \in VNodes : VnodeToNode[v] \in DOMAIN weights
         /\ IsFiniteSet(VNodes) /\ Cardinality(VNodes) = Len(VnodeToNode)
<1>1. weights # <<>> /\ 1 \in DOMAIN weights /\ weights[1] \in Nat /\ weights[1] # 0
  BY DEF Accepted, HasZeroWeight
<1>2. VnodeToNode \in Seq(DOMAIN weights)
  BY <1>1, OwnersFollowWeights
<1>3. PICK M \in Nat : M = Len(VnodeToNode)
  BY <1>2
<1>4. VNodes = 1 .. M
  BY <1>3 DEF VNodes
<1>5. M # 0
  <2> SUFFICES ASSUME M = 0 PROVE FALSE
    OBVIOUS
  <2>1. {v \in VNodes : VnodeToNode[v] = 1} = {}
    BY <1>4
  <2>2. Cardinality({v \in VNodes : VnodeToNode[v] = 1}) = 0
    BY <2>1, FS_EmptySet
  <2> QED
    BY <2>2, <1>1, OwnersFollowWeights
<1>6. \A v \in VNodes : VnodeToNode[v] \in DOMAIN weights
  BY <1>2, <1>3, <1>4, ElementOfSeq
<1>7. IsFiniteSet(VNodes) /\ Cardinality(VNodes) = M
  BY <1>4, IntervalSize
<1> QED
  BY <1>3, <1>4, <1>5, <1>6, <1>7

LEMMA SlotInTable ==
  ASSUME size \in Nat, size >= 2, perm \in [VNodes -> Placements(size)],
         NEW v \in VNodes, NEW k \in Nat
  PROVE  /\ perm[v].offset \in Nat /\ perm[v].skip \in 1 .. size - 1
         /\ Slot(v, k) \in Slots
<1>1. perm[v].offset \in Nat /\ perm[v].skip \in 1 .. size - 1
  BY DEF Placements
<1>2. perm[v].offset + k * perm[v].skip \in Nat
  BY <1>1
<1>3. (perm[v].offset + k * perm[v].skip) % size \in 0 .. size - 1
  <2> DEFINE x == perm[v].offset + k * perm[v].skip
  <2>1. x \in Nat
    BY <1>2
  <2> HIDE DEF x
  <2>2. x % size \in 0 .. size - 1
    BY <2>1, Remainder
  <2> QED
    BY <2>2 DEF x
<1> QED
  BY <1>1, <1>3 DEF Slot, Slots

LEMMA FilledMeansAll ==
  ASSUME size \in Nat
  PROVE  Filled = size <=> \A s \in Slots : table[s] # Empty
<1> DEFINE F == {s \in Slots : table[s] # Empty}
<1>1. IsFiniteSet(Slots) /\ Cardinality(Slots) = size
  BY FS_Interval DEF Slots
<1>2. F \in SUBSET Slots
  OBVIOUS
<1>3. Filled = size <=> F = Slots
  <2> HIDE DEF F
  <2>1. Filled = Cardinality(F)
    BY DEF Filled, F
  <2> QED
    BY <1>1, <1>2, <2>1, FS_Subset
<1> QED
  BY <1>3

LEMMA TurnPasses ==
  ASSUME NEW M \in Nat \ {0}, NEW t \in 1 .. M
  PROVE  1 + (t % M) = IF t = M THEN 1 ELSE t + 1
<1>1. PICK q \in Nat, r \in 0 .. M - 1 : q = t \div M /\ r = t % M /\ t = M * q + r
  BY Remainder
<1>2. q >= 2 => M * q >= M * 2
  OBVIOUS
<1>3. q \in {0, 1}
  BY <1>1, <1>2
<1>4. CASE q = 0
  BY <1>1, <1>4
<1>5. CASE q = 1
  BY <1>1, <1>5
<1> QED
  BY <1>3, <1>4, <1>5

LEMMA SizesAreNatural ==
  ASSUME NEW n \in Nat, NEW p \in TableSizes(n)
  PROVE  p \in Nat
  BY DEF TableSizes, NextPrime

LEMMA Initially == Init => IInv
<1> SUFFICES ASSUME Init PROVE IInv
  OBVIOUS
<1> USE DEF Init
<1>1. weights \in Seq(Nat)
  BY SizesAssumption
<1>2. size \in Nat
  BY SizesAssumption, SizesAreNatural
<1>3. ~Started /\ pc # "built"
  BY DEF Started
<1> QED
  BY <1>1, <1>2, <1>3 DEF IInv, TypeOK, PassedIsTaken, TakenIsReached, BuiltIsFull, InTurn

(* What a step that leaves the nodes, the size and the permutations alone  *)
(* leaves alone with them.                                                 *)
LEMMA Frame ==
  ASSUME UNCHANGED <<weights, size, perm>>
  PROVE  /\ VnodeToNode' = VnodeToNode /\ VNodes' = VNodes /\ Slots' = Slots
         /\ Accepted' = Accepted /\ AllPermute' = AllPermute /\ Reached' = Reached
         /\ \A v, k : Slot(v, k)' = Slot(v, k)
<1>1. VnodeToNode' = VnodeToNode
  BY DEF VnodeToNode
<1>2. VNodes' = VNodes /\ Slots' = Slots
  BY <1>1 DEF VNodes, Slots
<1>3. Accepted' = Accepted
  BY DEF Accepted, HasZeroWeight
<1>4. AllPermute' = AllPermute
  BY <1>2 DEF AllPermute, Permutes
<1>5. \A v, k : Slot(v, k)' = Slot(v, k)
  BY DEF Slot
<1>6. Reached' = Reached
  BY <1>2, <1>5 DEF Reached, Slot
<1> QED
  BY <1>1, <1>2, <1>3, <1>4, <1>5, <1>6

LEMMA BeginKeepsIInv ==
  ASSUME IInv, Begin
  PROVE  IInv'
<1> USE DEF Begin
<1>1. UNCHANGED <<weights, size, table, turn>> /\ Started' /\ pc' = "filling" /\ pc = "new"
  BY DEF Started
<1>2. VNodes' = VNodes /\ Slots' = Slots /\ Accepted' /\ Accepted
  <2>1. VnodeToNode' = VnodeToNode
    BY DEF VnodeToNode
  <2>2. Accepted' = Accepted
    BY DEF Accepted, HasZeroWeight
  <2> QED
    BY <2>1, <2>2 DEF VNodes, Slots
<1>3. weights \in Seq(Nat) /\ size \in Nat /\ size >= 2
  BY DEF IInv, TypeOK
<1>4. table = [s \in Slots |-> Empty] /\ turn = 1
  BY <1>1 DEF IInv, TypeOK
<1>5. VNodes = 1 .. Len(VnodeToNode) /\ Len(VnodeToNode) \in Nat /\ Len(VnodeToNode) >= 1
  BY <1>2, <1>3, SomeVNode
<1>6. TypeOK'
  <2>1. /\ weights' \in Seq(Nat) /\ size' \in Nat /\ size' >= 2
        /\ pc' = "filling"
    BY <1>1, <1>3
  <2>2. /\ perm' \in [VNodes' -> Placements(size')]
        /\ table' \in [Slots' -> VNodes' \cup {Empty}]
        /\ turn' \in VNodes'
    BY <1>1, <1>2, <1>4, <1>5
  <2>3. next' \in [VNodes' -> 0 .. size']
    BY <1>1, <1>2, <1>3
  <2> QED
    BY <1>2, <2>1, <2>2, <2>3 DEF TypeOK
<1>7. PassedIsTaken'
  <2>1. \A v \in VNodes : next'[v] = 0
    OBVIOUS
  <2>2. \A k \in Slots : ~(k < 0)
    BY <1>3 DEF Slots
  <2> QED
    BY <1>1, <1>2, <2>1, <2>2 DEF PassedIsTaken
<1>8. TakenIsReached'
  BY <1>1, <1>2, <1>4 DEF TakenIsReached
<1>9. BuiltIsFull'
  BY <1>1 DEF BuiltIsFull
<1>10. InTurn'
  <2>1. Empty \notin VNodes
    BY <1>5, SizesAssumption
  <2>2. ASSUME NEW v \in VNodes PROVE SlotsOf(v)' = 0 /\ ~(v < 1)
    <3>1. {s \in Slots : table[s] = v} = {}
      BY <1>4, <2>1, <2>2
    <3>2. SlotsOf(v)' = Cardinality({s \in Slots : table[s] = v})
      BY <1>1, <1>2 DEF SlotsOf
    <3>3. Cardinality({s \in Slots : table[s] = v}) = 0
      BY <3>1, FS_EmptySet
    <3>4. v >= 1
      BY <1>5
    <3> QED
      BY <3>2, <3>3, <3>4, <1>5
  <2>3. \A v \in VNodes' : SlotsOf(v)' = IF v < turn' THEN 0 + 1 ELSE 0
    BY <1>1, <1>2, <1>4, <2>2
  <2> QED
    BY <2>3 DEF InTurn
<1> QED
  BY <1>6, <1>7, <1>8, <1>9, <1>10 DEF IInv

LEMMA ClaimKeepsIInv ==
  ASSUME IInv, Claim
  PROVE  IInv'
<1> DEFINE s0 == Slot(turn, next[turn])
           M == Len(VnodeToNode)
<1>1. /\ UNCHANGED <<weights, size, perm, pc>>
      /\ Started /\ Started' /\ pc = "filling" /\ pc' = "filling"
      /\ next[turn] < size /\ table[s0] = Empty
      /\ table' = [table EXCEPT ![s0] = turn]
      /\ next' = [next EXCEPT ![turn] = @ + 1]
      /\ turn' = 1 + (turn % M)
  BY DEF Claim, Filling, Started, PassTurn
<1>2. /\ VnodeToNode' = VnodeToNode /\ VNodes' = VNodes /\ Slots' = Slots
      /\ Accepted' = Accepted /\ AllPermute' = AllPermute /\ Reached' = Reached
      /\ \A v, k : Slot(v, k)' = Slot(v, k)
  BY <1>1, Frame
<1>3. /\ weights \in Seq(Nat) /\ size \in Nat /\ size >= 2 /\ Accepted
      /\ perm \in [VNodes -> Placements(size)]
      /\ table \in [Slots -> VNodes \cup {Empty}]
      /\ next \in [VNodes -> 0 .. size]
      /\ turn \in VNodes
  BY <1>1 DEF IInv, TypeOK
<1>4. VNodes = 1 .. M /\ M \in Nat /\ M >= 1
  BY <1>3, SomeVNode
<1>5. next[turn] \in 0 .. size - 1 /\ next[turn] \in Slots /\ s0 \in Slots /\ s0 \in Reached
  <2>1. next[turn] \in 0 .. size - 1
    BY <1>1, <1>3
  <2>2. next[turn] \in Slots
    BY <2>1 DEF Slots
  <2>3. s0 \in Slots
    <3>1. next[turn] \in Nat
      BY <2>1
    <3> QED
      BY <1>3, <3>1, SlotInTable
  <2> QED
    BY <2>1, <2>2, <2>3, <1>3 DEF Reached
<1>6. turn' = IF turn = M THEN 1 ELSE turn + 1
  <2> HIDE DEF M
  <2> QED
    BY <1>1, <1>3, <1>4, TurnPasses
<1>7. Empty \notin VNodes
  BY <1>4, SizesAssumption
<1> HIDE DEF s0, M
<1>8. \A s \in Slots : table'[s] = IF s = s0 THEN turn ELSE table[s]
  BY <1>1, <1>3
<1>9. TypeOK'
  <2>1. table' \in [Slots -> VNodes \cup {Empty}]
    BY <1>1, <1>3
  <2>2. next' \in [VNodes -> 0 .. size]
    BY <1>1, <1>3, <1>5
  <2>3. turn' \in VNodes
    BY <1>3, <1>4, <1>6
  <2>4. /\ weights' \in Seq(Nat) /\ size' \in Nat /\ size' >= 2 /\ Accepted' /\ pc' = "filling"
        /\ perm' \in [VNodes' -> Placements(size')]
    BY <1>1, <1>2, <1>3
  <2> QED
    BY <1>1, <1>2, <2>1, <2>2, <2>3, <2>4 DEF TypeOK
<1>10. PassedIsTaken'
  <2> SUFFICES ASSUME NEW v \in VNodes, NEW k \in Slots, k < next'[v]
               PROVE  table'[Slot(v, k)] # Empty
    BY <1>2 DEF PassedIsTaken
  <2>1. k \in Nat /\ Slot(v, k) \in Slots
    <3>1. k \in Nat
      BY <1>3 DEF Slots
    <3> QED
      BY <3>1, <1>3, SlotInTable
  <2>2. CASE v = turn /\ k = next[turn]
    BY <2>1, <2>2, <1>3, <1>7, <1>8 DEF s0
  <2>3. CASE ~(v = turn /\ k = next[turn])
    <3>1. k < next[v]
      BY <2>1, <2>3, <1>1, <1>3, <1>5
    <3>2. table[Slot(v, k)] # Empty
      BY <3>1, <1>1 DEF IInv, PassedIsTaken
    <3> QED
      BY <3>2, <2>1, <1>3, <1>7, <1>8
  <2> QED
    BY <2>2, <2>3
<1>11. TakenIsReached'
  <2> SUFFICES ASSUME NEW s \in Slots, table'[s] # Empty PROVE s \in Reached
    BY <1>2 DEF TakenIsReached
  <2>1. s # s0 => table[s] # Empty
    BY <1>8
  <2> QED
    BY <2>1, <1>1, <1>5 DEF IInv, TakenIsReached
<1>12. BuiltIsFull'
  BY <1>1 DEF BuiltIsFull
<1>13. InTurn'
  <2> SUFFICES ASSUME AllPermute
               PROVE  \E r \in Nat : \A v \in VNodes :
                        SlotsOf(v)' = IF v < turn' THEN r + 1 ELSE r
    BY <1>2 DEF InTurn
  <2>1. PICK r \in Nat : \A v \in VNodes : SlotsOf(v) = IF v < turn THEN r + 1 ELSE r
    BY <1>1 DEF IInv, InTurn
  <2>2. \A v \in VNodes : SlotsOf(v)' = Cardinality({s \in Slots : table'[s] = v})
    BY <1>2 DEF SlotsOf
  <2>3. ASSUME NEW v \in VNodes, v # turn PROVE SlotsOf(v)' = SlotsOf(v)
    <3>1. {s \in Slots : table'[s] = v} = {s \in Slots : table[s] = v}
      BY <1>1, <1>7, <1>8, <2>3
    <3> QED
      BY <3>1, <2>2 DEF SlotsOf
  <2>4. ASSUME NEW v \in VNodes, v = turn PROVE SlotsOf(v)' = SlotsOf(v) + 1
    <3> DEFINE S == {s \in Slots : table[s] = v}
    <3>1. {s \in Slots : table'[s] = v} = S \cup {s0} /\ s0 \notin S
      BY <1>1, <1>3, <1>5, <1>7, <1>8, <2>4
    <3>2. IsFiniteSet(Slots) /\ S \in SUBSET Slots
      BY <1>3, FS_Interval DEF Slots
    <3> HIDE DEF S
    <3>3. IsFiniteSet(S)
      BY <3>2, FS_Subset
    <3>4. Cardinality(S \cup {s0}) = Cardinality(S) + 1
      BY <3>1, <3>3, FS_AddElement
    <3> QED
      BY <3>1, <3>4, <2>2 DEF SlotsOf, S
  <2>5. SlotsOf(turn) = r
    BY <2>1, <1>3, <1>4
  <2>6. CASE turn = M
    <3>1. ASSUME NEW v \in VNodes PROVE SlotsOf(v)' = r + 1 /\ ~(v < turn')
      <4>1. v # turn => v < turn
        BY <1>4, <2>6
      <4>2. SlotsOf(v)' = r + 1
        BY <4>1, <2>1, <2>3, <2>4, <2>5
      <4> QED
        BY <4>2, <1>4, <1>6, <2>6
    <3> WITNESS r + 1 \in Nat
    <3> QED
      BY <3>1
  <2>7. CASE turn # M
    <3>1. ASSUME NEW v \in VNodes
          PROVE  SlotsOf(v)' = IF v < turn' THEN r + 1 ELSE r
      <4>1. v < turn' <=> v < turn \/ v = turn
        BY <1>3, <1>4, <1>6, <2>7
      <4> QED
        BY <4>1, <2>1, <2>3, <2>4, <2>5, <1>3, <1>4
    <3> QED
      BY <3>1
  <2> QED
    BY <2>6, <2>7
<1> QED
  BY <1>9, <1>10, <1>11, <1>12, <1>13 DEF IInv

LEMMA PassedKeepsIInv ==
  ASSUME IInv, Passed
  PROVE  IInv'
<1>1. /\ UNCHANGED <<weights, size, perm, table, turn, pc>>
      /\ Started /\ Started' /\ pc = "filling" /\ pc' = "filling"
      /\ next[turn] < size /\ table[Slot(turn, next[turn])] # Empty
      /\ next' = [next EXCEPT ![turn] = @ + 1]
  BY DEF Passed, Filling, Started
<1>2. /\ VnodeToNode' = VnodeToNode /\ VNodes' = VNodes /\ Slots' = Slots
      /\ Accepted' = Accepted /\ AllPermute' = AllPermute /\ Reached' = Reached
      /\ \A v, k : Slot(v, k)' = Slot(v, k)
  BY <1>1, Frame
<1>3. /\ weights \in Seq(Nat) /\ size \in Nat /\ size >= 2 /\ Accepted
      /\ perm \in [VNodes -> Placements(size)]
      /\ table \in [Slots -> VNodes \cup {Empty}]
      /\ next \in [VNodes -> 0 .. size]
      /\ turn \in VNodes
  BY <1>1 DEF IInv, TypeOK
<1>4. next[turn] \in 0 .. size - 1
  BY <1>1, <1>3
<1>5. TypeOK'
  <2>1. next' \in [VNodes' -> 0 .. size']
    BY <1>1, <1>2, <1>3, <1>4
  <2>2. /\ weights' \in Seq(Nat) /\ size' \in Nat /\ size' >= 2 /\ Accepted' /\ pc' = "filling"
        /\ perm' \in [VNodes' -> Placements(size')]
        /\ table' \in [Slots' -> VNodes' \cup {Empty}]
        /\ turn' \in VNodes'
    BY <1>1, <1>2, <1>3
  <2> QED
    BY <2>1, <2>2 DEF TypeOK
<1>6. PassedIsTaken'
  <2> SUFFICES ASSUME NEW v \in VNodes, NEW k \in Slots, k < next'[v]
               PROVE  table[Slot(v, k)] # Empty
    BY <1>1, <1>2 DEF PassedIsTaken
  <2>1. CASE v = turn /\ k = next[turn]
    BY <2>1, <1>1
  <2>2. CASE ~(v = turn /\ k = next[turn])
    <3>1. k \in Nat
      BY <1>3 DEF Slots
    <3>2. k < next[v]
      BY <3>1, <2>2, <1>1, <1>3, <1>4
    <3> QED
      BY <3>2, <1>1 DEF IInv, PassedIsTaken
  <2> QED
    BY <2>1, <2>2
<1>7. TakenIsReached' /\ BuiltIsFull'
  BY <1>1, <1>2 DEF IInv, TakenIsReached, BuiltIsFull
<1>8. InTurn'
  <2>1. \A v : SlotsOf(v)' = SlotsOf(v)
    BY <1>1, <1>2 DEF SlotsOf
  <2> QED
    BY <1>1, <1>2, <2>1 DEF IInv, InTurn
<1> QED
  BY <1>5, <1>6, <1>7, <1>8 DEF IInv

(* A permutation that comes by every slot is not used up before the table  *)
(* is full, so that turns do not pass without a claim.                     *)
LEMMA NotExhausted ==
  ASSUME IInv, Started, NEW v \in VNodes, Permutes(v), next[v] = size
  PROVE  Filled = size
<1>1. /\ size \in Nat /\ size >= 2
      /\ perm \in [VNodes -> Placements(size)]
  BY DEF IInv, TypeOK
<1>2. ASSUME NEW s \in Slots PROVE table[s] # Empty
  <2>1. PICK k \in 0 .. size - 1 : (perm[v].offset + k * perm[v].skip) % size = s
    <3>1. PICK n \in Nat \ {0}, offset \in Nat, skip \in Nat :
            n = size /\ offset = perm[v].offset /\ skip = perm[v].skip
      BY <1>1 DEF Placements
    <3>2. \A d \in 2 .. n : ~(Divides(d, n) /\ Divides(d, skip))
      BY <3>1 DEF Permutes
    <3>3. s \in 0 .. n - 1
      BY <1>1, <1>2, <3>1 DEF Slots
    <3>4. \E k \in 0 .. n - 1 : Visit(n, offset, skip, k) = s
      BY ZenonT(30), <3>2, <3>3, SlotsCovered
    <3> QED
      BY <3>1, <3>4 DEF Visit
  <2>2. k \in Slots /\ Slot(v, k) = s /\ k < next[v]
    BY <2>1, <1>1 DEF Slots, Slot
  <2> QED
    BY <2>2 DEF IInv, PassedIsTaken
<1> QED
  BY <1>1, <1>2, FilledMeansAll

LEMMA ExhaustedKeepsIInv ==
  ASSUME IInv, Exhausted
  PROVE  IInv'
<1> DEFINE M == Len(VnodeToNode)
<1>1. /\ UNCHANGED <<weights, size, perm, table, next, pc>>
      /\ Started /\ Started' /\ pc = "filling" /\ pc' = "filling"
      /\ next[turn] = size /\ Filled < size
      /\ turn' = 1 + (turn % M)
  BY DEF Exhausted, Filling, Started, PassTurn
<1>2. /\ VnodeToNode' = VnodeToNode /\ VNodes' = VNodes /\ Slots' = Slots
      /\ Accepted' = Accepted /\ AllPermute' = AllPermute /\ Reached' = Reached
      /\ \A v, k : Slot(v, k)' = Slot(v, k)
  BY <1>1, Frame
<1>3. /\ weights \in Seq(Nat) /\ size \in Nat /\ size >= 2 /\ Accepted
      /\ perm \in [VNodes -> Placements(size)]
      /\ table \in [Slots -> VNodes \cup {Empty}]
      /\ next \in [VNodes -> 0 .. size]
      /\ turn \in VNodes
  BY <1>1 DEF IInv, TypeOK
<1>4. turn' \in VNodes
  <2>1. VNodes = 1 .. M /\ M \in Nat /\ M >= 1
    BY <1>3, SomeVNode
  <2> HIDE DEF M
  <2> QED
    BY <2>1, <1>1, <1>3, TurnPasses
<1>5. TypeOK'
  <2>1. /\ weights' \in Seq(Nat) /\ size' \in Nat /\ size' >= 2 /\ Accepted' /\ pc' = "filling"
        /\ perm' \in [VNodes' -> Placements(size')]
        /\ table' \in [Slots' -> VNodes' \cup {Empty}]
        /\ next' \in [VNodes' -> 0 .. size']
        /\ turn' \in VNodes'
    BY <1>1, <1>2, <1>3, <1>4
  <2> QED
    BY <2>1 DEF TypeOK
<1>6. PassedIsTaken' /\ TakenIsReached' /\ BuiltIsFull'
  BY <1>1, <1>2 DEF IInv, PassedIsTaken, TakenIsReached, BuiltIsFull
<1>7. ~AllPermute
  <2> SUFFICES ASSUME AllPermute PROVE FALSE
    OBVIOUS
  <2>1. Filled = size
    BY <1>1, <1>3, NotExhausted DEF AllPermute
  <2> QED
    BY <2>1, <1>1, <1>3
<1>8. InTurn'
  BY <1>2, <1>7 DEF InTurn
<1> QED
  BY <1>5, <1>6, <1>8 DEF IInv

LEMMA BuiltKeepsIInv ==
  ASSUME IInv, Built
  PROVE  IInv'
<1>1. /\ UNCHANGED <<weights, size, perm, table, next, turn>>
      /\ Started /\ Started' /\ pc' = "built" /\ Filled = size
  BY DEF Built, Started
<1>2. /\ VnodeToNode' = VnodeToNode /\ VNodes' = VNodes /\ Slots' = Slots
      /\ Accepted' = Accepted /\ AllPermute' = AllPermute /\ Reached' = Reached
      /\ \A v, k : Slot(v, k)' = Slot(v, k)
  BY <1>1, Frame
<1>3. TypeOK'
  BY <1>1, <1>2 DEF IInv, TypeOK
<1>4. PassedIsTaken' /\ TakenIsReached'
  BY <1>1, <1>2 DEF IInv, PassedIsTaken, TakenIsReached
<1>5. BuiltIsFull'
  <2>1. size \in Nat
    BY DEF IInv, TypeOK
  <2>2. \A s \in Slots : table[s] # Empty
    BY <2>1, <1>1, FilledMeansAll
  <2> QED
    BY <2>2, <1>1, <1>2 DEF BuiltIsFull
<1>6. InTurn'
  <2>1. \A v : SlotsOf(v)' = SlotsOf(v)
    BY <1>1, <1>2 DEF SlotsOf
  <2> QED
    BY <1>1, <1>2, <2>1 DEF IInv, InTurn
<1> QED
  BY <1>3, <1>4, <1>5, <1>6 DEF IInv

LEMMA StepKeepsIInv ==
  ASSUME IInv, [Next]_vars
  PROVE  IInv'
<1>1. CASE Reject
  BY <1>1 DEF Reject, IInv, TypeOK, Started, PassedIsTaken, TakenIsReached, BuiltIsFull, InTurn
<1>2. CASE Panic
  BY <1>2 DEF Panic, IInv, TypeOK, Started, PassedIsTaken, TakenIsReached, BuiltIsFull, InTurn
<1>3. CASE Fill
  BY <1>3, ClaimKeepsIInv, PassedKeepsIInv, ExhaustedKeepsIInv, BuiltKeepsIInv DEF Fill
<1>4. CASE UNCHANGED vars
  <2>1. UNCHANGED <<weights, size, perm, table, next, turn, pc>>
    BY <1>4 DEF vars
  <2>2. /\ VnodeToNode' = VnodeToNode /\ VNodes' = VNodes /\ Slots' = Slots
        /\ Accepted' = Accepted /\ AllPermute' = AllPermute /\ Reached' = Reached
        /\ \A v, k : Slot(v, k)' = Slot(v, k)
    BY <2>1, Frame
  <2>3. Started' = Started /\ \A v : SlotsOf(v)' = SlotsOf(v)
    BY <2>1, <2>2 DEF Started, SlotsOf
  <2>4. TypeOK'
    BY <2>1, <2>2, <2>3 DEF IInv, TypeOK
  <2>5. PassedIsTaken' /\ TakenIsReached' /\ BuiltIsFull' /\ InTurn'
    BY <2>1, <2>2, <2>3 DEF IInv, PassedIsTaken, TakenIsReached, BuiltIsFull, InTurn
  <2> QED
    BY <2>4, <2>5 DEF IInv
<1> QED
  BY <1>1, <1>2, <1>3, <1>4, BeginKeepsIInv DEF Next

(* The invariant of the construction holds of every reachable state. *)
THEOREM Invariance == Spec => []IInv
<1>1. Init => IInv
  BY Initially
<1>2. IInv /\ [Next]_vars => IInv'
  BY StepKeepsIInv
<1> QED
  BY <1>1, <1>2, PTL DEF Spec

-----------------------------------------------------------------------------
(* At any time the virtual nodes have the same number of slots, up to one  *)
(* (maglev.rs 84-101).                                                     *)
THEOREM SharesBalanced == Spec => []Balanced
<1>1. ASSUME IInv PROVE Balanced
  <2> SUFFICES ASSUME Started, AllPermute, NEW v \in VNodes, NEW w \in VNodes, v < w
               PROVE  SlotsOf(v) - SlotsOf(w) \in {0, 1}
    BY DEF Balanced, Started
  <2>1. PICK r \in Nat : \A u \in VNodes : SlotsOf(u) = IF u < turn THEN r + 1 ELSE r
    BY <1>1 DEF IInv, InTurn
  <2>2. turn \in VNodes /\ VNodes = 1 .. Len(VnodeToNode) /\ Len(VnodeToNode) \in Nat
    BY <1>1, SomeVNode DEF IInv, TypeOK
  <2>3. w < turn => v < turn
    BY <2>2
  <2>4. SlotsOf(v) \in {r, r + 1} /\ SlotsOf(w) \in {r, r + 1}
        /\ (SlotsOf(w) = r + 1 => SlotsOf(v) = r + 1)
    BY <2>1, <2>3
  <2> QED
    BY <2>4
<1> QED
  BY <1>1, Invariance, PTL

(* A table that new returns has an owner in every slot, and the            *)
(* permutations came by all of them between them (maglev.rs 84-101).       *)
THEOREM BuiltTablesAreReached == Spec => []BuiltMeansReached
<1>1. ASSUME IInv PROVE BuiltMeansReached
  <2> SUFFICES ASSUME pc = "built"
               PROVE  Reached = Slots /\ \A s \in Slots : table[s] # Empty
    BY DEF BuiltMeansReached
  <2>1. Started
    BY DEF Started
  <2>2. \A s \in Slots : table[s] # Empty
    BY <1>1 DEF IInv, BuiltIsFull
  <2>3. Slots \subseteq Reached
    BY <1>1, <2>1, <2>2 DEF IInv, TakenIsReached
  <2>4. Reached \subseteq Slots
    <3>1. size \in Nat /\ size >= 2 /\ perm \in [VNodes -> Placements(size)]
      BY <1>1, <2>1 DEF IInv, TypeOK
    <3>2. Slots \subseteq Nat
      BY <3>1 DEF Slots
    <3>3. ASSUME NEW v \in VNodes, NEW k \in Slots PROVE Slot(v, k) \in Slots
      BY <3>1, <3>2, SlotInTable
    <3> QED
      BY <3>3 DEF Reached
  <2> QED
    BY <2>2, <2>3, <2>4
<1> QED
  BY <1>1, Invariance, PTL

(* A prime size makes a permutation of any offset and any skip. *)
LEMMA PrimeMeansPermutes ==
  ASSUME IInv, Started, IsPrime(size)
  PROVE  AllPermute
<1>1. size \in Nat /\ size >= 2 /\ perm \in [VNodes -> Placements(size)]
  BY DEF IInv, TypeOK
<1> SUFFICES ASSUME NEW v \in VNodes, NEW d \in 2 .. size,
                    Divides(d, size), Divides(d, perm[v].skip)
             PROVE  FALSE
  BY DEF AllPermute, Permutes
<1>2. d = size
  BY <1>1, PrimeDivisors
<1>3. PICK skip \in 1 .. size - 1 : skip = perm[v].skip
  BY <1>1 DEF Placements
<1>4. PICK q \in Nat : skip = size * q
  BY <1>1, <1>2, <1>3, DividesQuotient
<1>5. q = 0 => size * q = 0
  BY <1>1
<1>6. q >= 1 => size * q >= size
  BY <1>1
<1> QED
  BY <1>1, <1>3, <1>4, <1>5, <1>6

(* is_prime recognizes the primes: it is enough to try 2 and the odd       *)
(* numbers up to the root.                                                 *)
LEMMA TrialDivision ==
  ASSUME NEW n \in Nat
  PROVE  IsPrime(n) <=> n >= 2 /\ \A d \in 2 .. n - 1 : ~Divides(d, n)
<1>1. ASSUME IsPrime(n), NEW d \in 2 .. n - 1 PROVE ~Divides(d, n)
  BY <1>1, PrimeDivisors
<1>2. ASSUME n >= 2, \A d \in 2 .. n - 1 : ~Divides(d, n)
      PROVE  IsPrime(n)
  <2>1. Divides(2, n) => n = 2
    BY <1>2
  <2>2. ASSUME NEW i \in 3 .. n, i * i <= n PROVE ~Divides(i, n)
    <3>1. i * (i - 1) >= i
      OBVIOUS
    <3>2. i \in 2 .. n - 1
      BY <3>1, <2>2
    <3> QED
      BY <3>2, <1>2
  <2> QED
    BY <1>2, <2>1, <2>2 DEF IsPrime
<1> QED
  BY <1>1, <1>2 DEF IsPrime

LEMMA TwoIsPrime == IsPrime(2)
  BY DEF IsPrime, Divides

(* An even number above 2 is none. *)
LEMMA PrimesAreOdd ==
  ASSUME NEW n \in Nat, n > 2, n % 2 # 1
  PROVE  ~IsPrime(n)
  BY DEF IsPrime, Divides

(* What next_prime returns is a prime, and there is none before it. *)
LEMMA NextPrimeIsPrime ==
  ASSUME NEW n \in Nat, NEW p \in NextPrime(n)
  PROVE  /\ p \in Nat /\ p >= n /\ IsPrime(p)
         /\ \A q \in n .. p - 1 : ~IsPrime(q)
<1>1. CASE n <= 2
  <2>1. p = 2
    BY <1>1 DEF NextPrime
  <2>2. ASSUME NEW q \in n .. 1 PROVE ~IsPrime(q)
    BY <1>1 DEF IsPrime
  <2> QED
    BY <1>1, <2>1, <2>2, TwoIsPrime
<1>2. CASE n > 2
  <2> DEFINE from == IF Divides(2, n) THEN n + 1 ELSE n
  <2>1. /\ p \in from .. 2 * from /\ IsPrime(p)
        /\ \A q \in from .. p - 1 : q % 2 = 1 => ~IsPrime(q)
    BY <1>2 DEF NextPrime
  <2>2. ASSUME NEW q \in n .. p - 1 PROVE ~IsPrime(q)
    <3>1. CASE q % 2 # 1
      BY <1>2, <3>1, PrimesAreOdd
    <3>2. CASE q % 2 = 1
      <4>1. q # n \/ ~Divides(2, n)
        BY <3>2 DEF Divides
      <4>2. q \in from .. p - 1
        BY <4>1, <2>1
      <4> QED
        BY <4>2, <3>2, <2>1
    <3> QED
      BY <3>1, <3>2
  <2> QED
    BY <1>2, <2>1, <2>2
<1> QED
  BY <1>1, <1>2

(* Each of these primes is less than twice the one before. *)
LEMMA SomePrimes ==
  \A p \in {3, 5, 7, 13, 23, 43, 83} : IsPrime(p) /\ p % 2 = 1
<1> SUFFICES ASSUME NEW p \in {3, 5, 7, 13, 23, 43, 83},
                    NEW i \in 3 .. p, i % 2 = 1, i * i <= p
             PROVE  ~Divides(i, p)
  BY DEF IsPrime, Divides
<1>1. i >= 10 => i * i >= 10 * i
  OBVIOUS
<1>2. i \in {3, 5, 7, 9}
  BY <1>1
<1>3. i >= 4 => i * i >= 4 * i
  OBVIOUS
<1>4. i >= 6 => i * i >= 6 * i
  OBVIOUS
<1> QED
  BY <1>2, <1>3, <1>4 DEF Divides

(* There is a prime between n and 2n, for the n of NextPrimeIsLeast. *)
LEMMA SomeNextPrime ==
  ASSUME NEW n \in 0 .. 60
  PROVE  NextPrime(n) # {}
<1>1. CASE n <= 2
  BY <1>1 DEF NextPrime
<1>2. CASE n > 2
  <2> DEFINE from == IF Divides(2, n) THEN n + 1 ELSE n
             T == {q \in from .. 2 * from : q % 2 = 1 /\ IsPrime(q)}
  <2>1. from \in 3 .. 61
    BY <1>2 DEF Divides
  <2>2. T # {}
    <3>1. \E p \in {3, 5, 7, 13, 23, 43, 83} : p \in from .. 2 * from
      <4> HIDE DEF from
      <4> QED
        BY <2>1
    <3> HIDE DEF from
    <3> QED
      BY <3>1, SomePrimes
  <2>3. PICK p \in T : \A y \in T : p <= y
    <3>1. T \subseteq Nat
      BY <2>1
    <3> HIDE DEF T
    <3> QED
      BY <2>2, <3>1, LeastNat
  <2>4. p \in from .. 2 * from /\ p % 2 = 1 /\ IsPrime(p)
    OBVIOUS
  <2>5. ASSUME NEW q \in from .. p - 1, q % 2 = 1 PROVE ~IsPrime(q)
    <3>1. q \in from .. 2 * from /\ ~(p <= q)
      <4> HIDE DEF from
      <4> QED
        BY <2>1, <2>4
    <3> QED
      BY <3>1, <2>3, <2>5
  <2>6. p \in NextPrime(n)
    BY <1>2, <2>4, <2>5 DEF NextPrime
  <2> QED
    BY <2>6
<1> QED
  BY <1>1, <1>2

LEMMA NextPrimeOnSamples == NextPrimeIsLeast
<1> DEFINE prime(p) == p >= 2 /\ \A d \in 2 .. p - 1 : ~Divides(d, p)
<1> SUFFICES ASSUME NEW n \in 0 .. 60
             PROVE  \E p \in NextPrime(n) :
                      /\ NextPrime(n) = {p}
                      /\ p >= n /\ prime(p)
                      /\ \A q \in n .. p - 1 : ~prime(q)
  BY DEF NextPrimeIsLeast
<1>1. PICK p \in NextPrime(n) : TRUE
  BY SomeNextPrime
<1>2. ASSUME NEW q \in Nat PROVE prime(q) <=> IsPrime(q)
  BY TrialDivision
<1> HIDE DEF prime
<1>3. p \in Nat /\ p >= n /\ prime(p) /\ \A q \in n .. p - 1 : ~prime(q)
  BY <1>2, NextPrimeIsPrime
<1>4. ASSUME NEW q \in NextPrime(n) PROVE q = p
  <2>1. /\ p \in Nat /\ p >= n /\ IsPrime(p)
        /\ \A u \in n .. p - 1 : ~IsPrime(u)
    BY NextPrimeIsPrime
  <2>2. /\ q \in Nat /\ q >= n /\ IsPrime(q)
        /\ \A u \in n .. q - 1 : ~IsPrime(u)
    BY NextPrimeIsPrime
  <2> QED
    BY <2>1, <2>2
<1> QED
  BY <1>3, <1>4

(* next_prime returns the least prime that is not smaller, for the numbers *)
(* of NextPrimeIsLeast; and whatever prime it returns, for whatever        *)
(* number, makes every offset and every skip a permutation of the slots    *)
(* (maglev.rs 20-25, 292-301, 306-334).                                    *)
THEOREM PrimesPermute == Spec => []PrimeSizesPermute
<1>1. ASSUME IInv PROVE PrimeSizesPermute
  <2>1. ASSUME NEW n \in Asked, size \in NextPrime(n), Started PROVE AllPermute
    <3>1. IsPrime(size)
      BY <2>1, NextPrimeIsPrime, SizesAssumption
    <3> QED
      BY <1>1, <2>1, <3>1, PrimeMeansPermutes
  <2> QED
    BY <2>1, NextPrimeOnSamples DEF PrimeSizesPermute, Started
<1> QED
  BY <1>1, Invariance, PTL

-----------------------------------------------------------------------------
(* Min and Max of a set of numbers in an interval. *)
LEMMA Extremes ==
  ASSUME NEW a \in Nat, NEW b \in Nat, NEW S \in SUBSET (a .. b), S # {}
  PROVE  Max(S) \in S /\ Min(S) \in S
<1>1. \E x \in S : \A y \in S : x <= y
  <2>1. S \subseteq Nat
    OBVIOUS
  <2> QED
    BY <2>1, LeastNat
<1>2. \E x \in S : \A y \in S : x >= y
  <2> DEFINE T == {b - x : x \in S}
  <2>1. T \subseteq Nat /\ T # {}
    OBVIOUS
  <2> HIDE DEF T
  <2>2. PICK m \in T : \A y \in T : m <= y
    BY <2>1, LeastNat
  <2> USE DEF T
  <2>3. PICK x \in S : m = b - x
    OBVIOUS
  <2>4. ASSUME NEW y \in S PROVE x >= y
    <3>1. b - y \in T
      OBVIOUS
    <3>2. m <= b - y
      BY <3>1, <2>2
    <3> QED
      BY <3>2, <2>3
  <2> QED
    BY <2>4
<1> QED
  BY <1>1, <1>2 DEF Max, Min

(* Virtual nodes that have had their turn in the last round have r + 1     *)
(* slots of a finished table and the others r: r is the even share.        *)
LEMMA LastRound ==
  ASSUME IInv, pc = "built", AllPermute
  PROVE  \A v \in VNodes :
           SlotsOf(v) \in size \div Len(VnodeToNode) .. size \div Len(VnodeToNode) + 1
<1>1. /\ weights \in Seq(Nat) /\ size \in Nat /\ Accepted
      /\ table \in [Slots -> VNodes \cup {Empty}] /\ turn \in VNodes
  BY DEF IInv, TypeOK, Started
<1>2. PICK M \in Nat \ {0} : M = Len(VnodeToNode) /\ VNodes = 1 .. M
  BY <1>1, SomeVNode
<1>3. PICK r \in Nat : \A v \in VNodes : SlotsOf(v) = IF v < turn THEN r + 1 ELSE r
  BY DEF IInv, InTurn, Started
<1>4. turn \in 1 .. M /\ IsFiniteSet(Slots) /\ Cardinality(Slots) = size
  <2>1. IsFiniteSet(Slots) /\ Cardinality(Slots) = size
    BY <1>1, FS_Interval DEF Slots
  <2> QED
    BY <2>1, <1>1, <1>2
<1> DEFINE Before == 1 .. turn - 1
           After == turn .. M
<1>5. PICK b \in Nat, c \in Nat :
        /\ IsFiniteSet(Before) /\ b = Cardinality(Before) /\ b = turn - 1
        /\ IsFiniteSet(After) /\ c = Cardinality(After) /\ c = M - b
  <2>1. /\ IsFiniteSet(Before) /\ Cardinality(Before) = turn - 1
        /\ IsFiniteSet(After) /\ Cardinality(After) = M - (turn - 1)
    BY <1>4, FS_Interval
  <2> HIDE DEF Before, After
  <2>2. turn - 1 \in Nat /\ M - (turn - 1) \in Nat
    BY <1>4
  <2> QED
    BY <2>1, <2>2
<1>6. Cardinality(PlacesIn(Slots, table, Before)) = b * (r + 1)
  <2>1. PICK R \in Nat : R = r + 1
    OBVIOUS
  <2>2. \A v \in Before : Cardinality(PlacesOf(Slots, table, v)) \in R .. R
    BY <1>2, <1>3, <1>4, <2>1 DEF SlotsOf, PlacesOf
  <2> HIDE DEF Before
  <2>3. /\ Cardinality(PlacesIn(Slots, table, Before)) \in Nat
        /\ b * R <= Cardinality(PlacesIn(Slots, table, Before)) /\ Cardinality(PlacesIn(Slots, table, Before)) <= b * R
    BY <2>2, <1>4, <1>5, SharesAddUp
  <2> QED
    BY <2>1, <2>3
<1>7. Cardinality(PlacesIn(Slots, table, After)) = c * r
  <2>1. \A v \in After : Cardinality(PlacesOf(Slots, table, v)) \in r .. r
    BY <1>2, <1>3, <1>4 DEF SlotsOf, PlacesOf
  <2> HIDE DEF After
  <2>2. /\ Cardinality(PlacesIn(Slots, table, After)) \in Nat
        /\ c * r <= Cardinality(PlacesIn(Slots, table, After)) /\ Cardinality(PlacesIn(Slots, table, After)) <= c * r
    BY <2>1, <1>4, <1>5, SharesAddUp
  <2> QED
    BY <2>2
<1>8. size = Cardinality(PlacesIn(Slots, table, Before))
               + Cardinality(PlacesIn(Slots, table, After))
  <2>1. \A s \in Slots : table[s] \in 1 .. M
    BY <1>1, <1>2 DEF IInv, BuiltIsFull
  <2> DEFINE X == PlacesIn(Slots, table, Before)
             Y == PlacesIn(Slots, table, After)
  <2>2. Slots = X \cup Y /\ X \cap Y = {}
    BY <2>1, <1>4 DEF PlacesIn
  <2>3. X \in SUBSET Slots /\ Y \in SUBSET Slots
    BY DEF PlacesIn
  <2> HIDE DEF X, Y
  <2>4. IsFiniteSet(X) /\ IsFiniteSet(Y)
    BY <2>3, <1>4, FS_Subset
  <2>5. Cardinality(X \cup Y) = Cardinality(X) + Cardinality(Y) - Cardinality(X \cap Y)
    BY <2>4, FS_Union
  <2>6. /\ Cardinality(X) \in Nat /\ Cardinality(Y) \in Nat
        /\ Cardinality(X \cap Y) = 0
    BY <2>2, <2>4, FS_CardinalityType, FS_EmptySet
  <2> QED
    <3>1. Cardinality(X \cup Y) = size
      BY <2>2, <1>4
    <3>2. size = Cardinality(X) + Cardinality(Y)
      BY <3>1, <2>5, <2>6
    <3> QED
      BY <3>2 DEF X, Y
<1> HIDE DEF Before, After
<1>9. size = M * r + b /\ b \in 0 .. M - 1
  <2>1. b \in 0 .. M - 1
    BY <1>4, <1>5
  <2>2. size = b * (r + 1) + (M - b) * r
    BY <1>5, <1>6, <1>7, <1>8
  <2> QED
    BY <2>1, <2>2
<1>10. size \div M = r
  BY <1>9, Quotient
<1>11. ASSUME NEW v \in VNodes PROVE SlotsOf(v) \in r .. r + 1
  BY <1>3
<1> QED
  BY <1>2, <1>10, <1>11

(* The load a finished table reports for a node is its weight's part of    *)
(* the table, up to one slot for each of its virtual nodes, and with equal *)
(* weights the extremes differ by no more than the weight (maglev.rs       *)
(* 57-69, 84-101, 172-216).                                                *)
THEOREM LoadsFollowWeights == Spec => []SharesFollowWeights
<1>1. ASSUME IInv PROVE SharesFollowWeights
  <2> SUFFICES ASSUME pc = "built", AllPermute
               PROVE  LET least == size \div Len(VnodeToNode)
                      IN  /\ \A k \in DOMAIN weights :
                               LoadOf(k) \in weights[k] * least .. weights[k] * (least + 1)
                          /\ (\A k \in DOMAIN weights : weights[k] = weights[1])
                               => Max(Loads) - Min(Loads) <= weights[1]
    BY DEF SharesFollowWeights
  <2>1. /\ weights \in Seq(Nat) /\ weights # <<>> /\ size \in Nat /\ Accepted
        /\ table \in [Slots -> VNodes \cup {Empty}] /\ IsFiniteSet(Slots)
    BY <1>1, FS_Interval DEF IInv, TypeOK, Started, Accepted, Slots
  <2>2. PICK M \in Nat \ {0} : M = Len(VnodeToNode)
    BY <2>1, SomeVNode
  <2>3. PICK r \in Nat : r = size \div Len(VnodeToNode)
    BY <2>1, <2>2, Remainder
  <2>4. \A v \in VNodes : SlotsOf(v) \in r .. r + 1
    BY <1>1, <2>3, LastRound
  <2>5. \A s \in Slots : table[s] \in VNodes
    BY <1>1, <2>1 DEF IInv, BuiltIsFull
  <2>6. ASSUME NEW k \in DOMAIN weights
        PROVE  LoadOf(k) \in weights[k] * r .. weights[k] * (r + 1)
    <3> DEFINE V == {v \in VNodes : VnodeToNode[v] = k}
    <3>1. Cardinality(V) = weights[k]
      BY <2>1, OwnersFollowWeights
    <3>2. IsFiniteSet(V)
      BY <2>1, SomeVNode, FS_Subset
    <3>3. \A v \in V : Cardinality(PlacesOf(Slots, table, v)) \in r .. r + 1
      BY <2>4 DEF SlotsOf, PlacesOf
    <3>4. PlacesIn(Slots, table, V) = {s \in Slots : VnodeToNode[table[s]] = k}
      BY <2>5 DEF PlacesIn
    <3> HIDE DEF V
    <3>5. PICK R \in Nat, n \in Nat : R = r + 1 /\ n = Cardinality(V)
      <4>1. r + 1 \in Nat /\ Cardinality(V) \in Nat
        BY <3>2, FS_CardinalityType
      <4> QED
        BY <4>1
    <3>6. \A v \in V : Cardinality(PlacesOf(Slots, table, v)) \in r .. R
      BY <3>3, <3>5
    <3>7. /\ LoadOf(k) \in Nat /\ n * r <= LoadOf(k) /\ LoadOf(k) <= n * R
      <4>1. /\ Cardinality(PlacesIn(Slots, table, V)) \in Nat
            /\ n * r <= Cardinality(PlacesIn(Slots, table, V))
            /\ Cardinality(PlacesIn(Slots, table, V)) <= n * R
        BY <3>2, <3>5, <3>6, <2>1, SharesAddUp
      <4> QED
        BY <4>1, <3>4 DEF LoadOf
    <3> QED
      BY <3>1, <3>5, <3>7
  <2>7. ASSUME \A k \in DOMAIN weights : weights[k] = weights[1]
        PROVE  Max(Loads) - Min(Loads) <= weights[1]
    <3>1. PICK w \in Nat : w = weights[1]
      BY <2>1
    <3>2. \A k \in DOMAIN weights : LoadOf(k) \in w * r .. w * (r + 1)
      BY <2>6, <2>7, <3>1
    <3>3. PICK a \in Nat : a = w * r
      OBVIOUS
    <3>4. w * (r + 1) = a + w
      BY <3>3
    <3>5. Loads \in SUBSET (a .. a + w)
      BY <3>2, <3>3, <3>4 DEF Loads
    <3>6. Loads # {}
      <4>1. 1 \in DOMAIN weights
        <5>1. Len(weights) \in Nat /\ Len(weights) # 0 /\ DOMAIN weights = 1 .. Len(weights)
          BY <2>1
        <5> QED
          BY <5>1
      <4> QED
        BY <4>1 DEF Loads
    <3>7. Max(Loads) \in a .. a + w /\ Min(Loads) \in a .. a + w
      <4>1. PICK b \in Nat : b = a + w
        OBVIOUS
      <4>2. Loads \in SUBSET (a .. b)
        BY <3>5, <4>1
      <4>3. Max(Loads) \in Loads /\ Min(Loads) \in Loads
        BY <3>6, <4>2, Extremes
      <4> QED
        BY <4>3, <3>5
    <3> QED
      BY <3>1, <3>7
  <2> QED
    BY <2>3, <2>6, <2>7
<1> QED
  BY <1>1, Invariance, PTL

-----------------------------------------------------------------------------
(* The walk of get_n: s are the first n different ones of the first k      *)
(* nodes of w, in the order in which they come.                            *)
Collects(w, n, s, k) ==
  /\ Len(s) <= n
  /\ \A i, j \in 1 .. Len(s) : s[i] = s[j] => i = j
  /\ \A i \in 1 .. Len(s) : \E j \in 1 .. k : s[i] = w[j]
  /\ Len(s) < n => \A j \in 1 .. k : \E i \in 1 .. Len(s) : s[i] = w[j]
  /\ \A r \in 1 .. Len(s) :
       \E i \in 1 .. k :
         /\ w[i] = s[r]
         /\ \A j \in 1 .. i : \E q \in 1 .. r : s[q] = w[j]
         /\ \A q \in 1 .. r : \E j \in 1 .. i : s[q] = w[j]
  /\ k >= 1 => Len(s) >= 1 /\ s[1] = w[1]

Collect(n, s, x) == IF Len(s) < n /\ x \notin ToSet(s) THEN Append(s, x) ELSE s

LEMMA CollectOne ==
  ASSUME NEW S, NEW N \in Nat, NEW w \in [1 .. N -> S], NEW n \in Nat \ {0},
         NEW k \in 1 .. N, NEW s \in Seq(S), Collects(w, n, s, k - 1)
  PROVE  /\ Collect(n, s, w[k]) \in Seq(S)
         /\ Collects(w, n, Collect(n, s, w[k]), k)
<1> DEFINE x == w[k]
<1>1. x \in S /\ Len(s) \in Nat
  OBVIOUS
<1>2. \A y : y \in ToSet(s) <=> \E i \in 1 .. Len(s) : s[i] = y
  BY DEF ToSet
<1> HIDE DEF x
<1>3. PICK L \in Nat : L = Len(s)
  BY <1>1
<1>4. CASE L < n /\ x \notin ToSet(s)
  <2> DEFINE t == Append(s, x)
  <2>1. /\ t \in Seq(S) /\ Len(t) = L + 1 /\ t[L + 1] = x
        /\ \A i \in 1 .. L : t[i] = s[i]
    BY <1>1, <1>3
  <2>2. Collect(n, s, w[k]) = t
    BY <1>3, <1>4 DEF Collect, x
  <2> HIDE DEF t
  <2>3. \A i \in 1 .. L : s[i] # x
    BY <1>2, <1>3, <1>4
  <2>4. \A i, j \in 1 .. L + 1 : t[i] = t[j] => i = j
    BY SMTT(30), <2>1, <2>3, <1>3 DEF Collects
  <2>5. ASSUME NEW i \in 1 .. L + 1 PROVE \E j \in 1 .. k : t[i] = w[j]
    <3>1. CASE i = L + 1
      BY <3>1, <2>1 DEF x
    <3>2. CASE i # L + 1
      <4>1. i \in 1 .. L
        BY <3>2
      <4>2. PICK j \in 1 .. k - 1 : s[i] = w[j]
        BY <4>1, <1>3 DEF Collects
      <4> QED
        BY <4>1, <4>2, <2>1
    <3> QED
      BY <3>1, <3>2
  <2>6. ASSUME NEW j \in 1 .. k PROVE \E i \in 1 .. L + 1 : t[i] = w[j]
    <3>1. CASE j = k
      BY <3>1, <2>1 DEF x
    <3>2. CASE j # k
      <4>1. j \in 1 .. k - 1
        BY <3>2
      <4>2. PICK i \in 1 .. L : s[i] = w[j]
        BY <4>1, <1>3, <1>4 DEF Collects
      <4> QED
        BY <4>2, <2>1
    <3> QED
      BY <3>1, <3>2
  <2>7. ASSUME NEW r \in 1 .. L + 1
        PROVE  \E i \in 1 .. k :
                 /\ w[i] = t[r]
                 /\ \A j \in 1 .. i : \E q \in 1 .. r : t[q] = w[j]
                 /\ \A q \in 1 .. r : \E j \in 1 .. i : t[q] = w[j]
    <3>1. CASE r = L + 1
      <4>1. w[k] = t[r]
        BY <3>1, <2>1 DEF x
      <4>2. \A j \in 1 .. k : \E q \in 1 .. r : t[q] = w[j]
        BY <3>1, <2>6
      <4>3. \A q \in 1 .. r : \E j \in 1 .. k : t[q] = w[j]
        BY <3>1, <2>5
      <4>4. k \in 1 .. k
        OBVIOUS
      <4> QED
        BY <4>1, <4>2, <4>3, <4>4
    <3>2. CASE r # L + 1
      <4>1. r \in 1 .. L /\ \A q \in 1 .. r : t[q] = s[q]
        BY <3>2, <2>1
      <4>2. PICK i \in 1 .. k - 1 :
              /\ w[i] = s[r]
              /\ \A j \in 1 .. i : \E q \in 1 .. r : s[q] = w[j]
              /\ \A q \in 1 .. r : \E j \in 1 .. i : s[q] = w[j]
        <5>1. r \in 1 .. Len(s)
          BY <4>1, <1>3
        <5> QED
          BY <5>1 DEF Collects
      <4>3. i \in 1 .. k /\ w[i] = t[r]
        BY <4>1, <4>2
      <4>4. ASSUME NEW j \in 1 .. i PROVE \E q \in 1 .. r : t[q] = w[j]
        BY <4>1, <4>2
      <4>5. ASSUME NEW q \in 1 .. r PROVE \E j \in 1 .. i : t[q] = w[j]
        BY <4>1, <4>2
      <4> QED
        BY <4>3, <4>4, <4>5
    <3> QED
      BY <3>1, <3>2
  <2>8. t[1] = w[1]
    <3>1. CASE k = 1
      <4>1. L = 0
        BY <3>1, <1>3 DEF Collects
      <4> QED
        BY <4>1, <3>1, <2>1 DEF x
    <3>2. CASE k # 1
      <4>1. L >= 1 /\ s[1] = w[1]
        BY <3>2, <1>3 DEF Collects
      <4> QED
        BY <4>1, <2>1
    <3> QED
      BY <3>1, <3>2
  <2>9. Collects(w, n, t, k)
    BY <2>1, <2>4, <2>5, <2>6, <2>7, <2>8, <1>4 DEF Collects
  <2> QED
    BY <2>1, <2>2, <2>9
<1>5. CASE ~(L < n /\ x \notin ToSet(s))
  <2>1. Collect(n, s, w[k]) = s
    BY <1>3, <1>5 DEF Collect, x
  <2>2. ASSUME L < n, NEW j \in 1 .. k PROVE \E i \in 1 .. L : s[i] = w[j]
    <3>1. CASE j = k
      BY <3>1, <2>2, <1>2, <1>3, <1>5 DEF x
    <3>2. CASE j # k
      <4>1. j \in 1 .. k - 1
        BY <3>2
      <4> QED
        BY <4>1, <2>2, <1>3 DEF Collects
    <3> QED
      BY <3>1, <3>2
  <2>3. k # 1
    <3> SUFFICES ASSUME k = 1 PROVE FALSE
      OBVIOUS
    <3>1. L = 0
      BY <1>3 DEF Collects
    <3>2. x \notin ToSet(s)
      BY <3>1, <1>2, <1>3
    <3> QED
      BY <3>1, <3>2, <1>5
  <2>4. L >= 1 /\ s[1] = w[1] /\ L <= n
    BY <2>3, <1>3 DEF Collects
  <2>5. \A i \in 1 .. L : \E j \in 1 .. k : s[i] = w[j]
    BY <1>3 DEF Collects
  <2>6. ASSUME NEW r \in 1 .. L
        PROVE  \E i \in 1 .. k :
                 /\ w[i] = s[r]
                 /\ \A j \in 1 .. i : \E q \in 1 .. r : s[q] = w[j]
                 /\ \A q \in 1 .. r : \E j \in 1 .. i : s[q] = w[j]
    <3>1. PICK i \in 1 .. k - 1 :
            /\ w[i] = s[r]
            /\ \A j \in 1 .. i : \E q \in 1 .. r : s[q] = w[j]
            /\ \A q \in 1 .. r : \E j \in 1 .. i : s[q] = w[j]
      BY <1>3 DEF Collects
    <3>2. i \in 1 .. k
      OBVIOUS
    <3> QED
      BY <3>1, <3>2
  <2>7. \A i, j \in 1 .. L : s[i] = s[j] => i = j
    BY <1>3 DEF Collects
  <2>8. Collects(w, n, s, k)
    BY <2>2, <2>4, <2>5, <2>6, <2>7, <1>3 DEF Collects
  <2> QED
    BY <2>1, <2>8
<1> QED
  BY <1>4, <1>5

(* get_n collects the nodes of one round. *)
LEMMA GetNCollects ==
  ASSUME NEW S, NEW h, NEW n \in Nat \ {0}, size \in Nat, Walk(h) \in [1 .. size -> S]
  PROVE  GetN(h, n) \in Seq(S) /\ Collects(Walk(h), n, GetN(h, n), size)
<1> DEFINE W == Walk(h)
           Unrolls(m, g) ==
             g = [k \in 0 .. m |->
                    IF k = 0 THEN <<>>
                    ELSE IF Len(g[k - 1]) < n /\ W[k] \notin ToSet(g[k - 1])
                         THEN Append(g[k - 1], W[k])
                         ELSE g[k - 1]]
           Bad == {m \in Nat : \A g : ~Unrolls(m, g)}
<1>1. Bad = {}
  <2> SUFFICES ASSUME Bad # {} PROVE FALSE
    OBVIOUS
  <2>1. PICK m \in Bad : \A y \in Bad : m <= y
    <3>1. Bad \subseteq Nat
      OBVIOUS
    <3> HIDE DEF Bad
    <3> QED
      BY <3>1, LeastNat
  <2> HIDE DEF W
  <2>2. m \in Nat /\ m # 0
    <3>1. Unrolls(0, [k \in 0 .. 0 |-> <<>>])
      OBVIOUS
    <3> QED
      BY <3>1
  <2>3. PICK g : Unrolls(m - 1, g)
    <3>1. m - 1 \in Nat /\ ~(m <= m - 1)
      BY <2>2
    <3>2. m - 1 \notin Bad
      <4> HIDE DEF Bad
      <4> QED
        BY <3>1, <2>1
    <3> HIDE DEF Unrolls
    <3> QED
      BY <3>1, <3>2
  <2> DEFINE f == [k \in 0 .. m |-> IF k = m THEN Collect(n, g[m - 1], W[m]) ELSE g[k]]
  <2>4. ASSUME NEW k \in 0 .. m
        PROVE  f[k] = IF k = 0 THEN <<>> ELSE Collect(n, f[k - 1], W[k])
    <3>1. CASE k = m
      <4>1. f[k - 1] = g[m - 1]
        BY <2>2, <3>1
      <4> QED
        BY <2>2, <3>1, <4>1
    <3>2. CASE k # m
      <4>1. k \in 0 .. m - 1
        BY <2>2, <3>2
      <4>2. g[k] = IF k = 0 THEN <<>> ELSE Collect(n, g[k - 1], W[k])
        BY <2>3, <4>1 DEF Collect
      <4>3. f[k] = g[k] /\ (k # 0 => f[k - 1] = g[k - 1])
        BY <2>2, <3>2, <4>1
      <4> QED
        BY <4>2, <4>3
    <3> QED
      BY <3>1, <3>2
  <2>5. Unrolls(m, f)
    <3>1. f = [k \in 0 .. m |-> f[k]]
      OBVIOUS
    <3> HIDE DEF f
    <3> QED
      BY <3>1, <2>4 DEF Collect
  <2> QED
    BY <2>5
<1> DEFINE found[k \in 0 .. size] ==
             IF k = 0 THEN <<>>
             ELSE IF Len(found[k - 1]) < n /\ W[k] \notin ToSet(found[k - 1])
                  THEN Append(found[k - 1], W[k])
                  ELSE found[k - 1]
<1>2. GetN(h, n) = found[size]
  BY DEF GetN
<1>3. found = CHOOSE g : Unrolls(size, g)
  OBVIOUS
<1>4. \E g : Unrolls(size, g)
  <2>1. size \notin Bad
    <3> HIDE DEF Bad
    <3> QED
      BY <1>1
  <2> HIDE DEF Unrolls
  <2> QED
    BY <2>1
<1> HIDE DEF found
<1>5. Unrolls(size, found)
  <2> HIDE DEF Unrolls
  <2> QED
    BY <1>3, <1>4
<1> HIDE DEF W
<1>6. found[0] = <<>> /\ \A k \in 1 .. size : found[k] = Collect(n, found[k - 1], W[k])
  <2>1. \A k \in 0 .. size : found[k] = IF k = 0 THEN <<>> ELSE Collect(n, found[k - 1], W[k])
    BY <1>5 DEF Collect
  <2>2. 0 \in 0 .. size /\ \A k \in 1 .. size : k \in 0 .. size /\ k # 0
    OBVIOUS
  <2> QED
    BY <2>1, <2>2
<1> DEFINE Good(k) == found[k] \in Seq(S) /\ Collects(W, n, found[k], k)
           Wrong == {k \in Nat : k \in 0 .. size /\ ~Good(k)}
<1>7. Wrong = {}
  <2> SUFFICES ASSUME Wrong # {} PROVE FALSE
    OBVIOUS
  <2>1. PICK k \in Wrong : \A y \in Wrong : k <= y
    <3>1. Wrong \subseteq Nat
      OBVIOUS
    <3> HIDE DEF Wrong
    <3> QED
      BY <3>1, LeastNat
  <2>2. k \in Nat /\ k \in 0 .. size /\ ~Good(k)
    OBVIOUS
  <2>3. k # 0
    <3>1. <<>> \in Seq(S) /\ Collects(W, n, <<>>, 0)
      BY DEF Collects
    <3>2. Good(0)
      BY <3>1, <1>6
    <3> QED
      BY <2>2, <3>2
  <2>4. k - 1 \in 0 .. size /\ k - 1 \in Nat /\ k \in 1 .. size /\ ~(k <= k - 1)
    BY <2>2, <2>3
  <2>5. Good(k - 1)
    <3>1. k - 1 \notin Wrong
      <4> HIDE DEF Wrong
      <4> QED
        BY <2>4, <2>1
    <3> HIDE DEF Good
    <3> QED
      BY <3>1, <2>4
  <2>6. W \in [1 .. size -> S]
    BY DEF W
  <2>7. Good(k)
    <3>1. PICK s \in Seq(S) : s = found[k - 1] /\ Collects(W, n, s, k - 1)
      BY <2>5
    <3>2. found[k] = Collect(n, s, W[k])
      BY <2>4, <3>1, <1>6
    <3>3. Collect(n, s, W[k]) \in Seq(S) /\ Collects(W, n, Collect(n, s, W[k]), k)
      BY <2>4, <2>6, <3>1, CollectOne
    <3> QED
      BY <3>2, <3>3
  <2> QED
    BY <2>2, <2>7
<1>8. Good(size)
  <2> HIDE DEF Good
  <2> QED
    BY <1>7
<1> QED
  BY <1>2, <1>8 DEF W

LEMMA WrapAround ==
  ASSUME NEW n \in Nat \ {0}, NEW x \in 0 .. 2 * n - 1
  PROVE  x % n = IF x < n THEN x ELSE x - n
<1>1. PICK q \in Nat, r \in 0 .. n - 1 : r = x % n /\ x = n * q + r
  <2>1. x \in Nat
    OBVIOUS
  <2> QED
    BY <2>1, Remainder
<1>2. q >= 2 => n * q >= n * 2
  OBVIOUS
<1>3. q \in {0, 1}
  BY <1>1, <1>2
<1>4. CASE q = 0
  BY <1>1, <1>4
<1>5. CASE q = 1
  BY <1>1, <1>5
<1> QED
  BY <1>3, <1>4, <1>5

(* What the walk from slot h comes by. *)
LEMMA WalkGoesRound ==
  ASSUME IInv, pc = "built", NEW h \in Slots
  PROVE  /\ size \in Nat \ {0}
         /\ Walk(h) \in [1 .. size -> DOMAIN weights]
         /\ \A k \in Slots : Get(h + k) = Walk(h)[k + 1]
         /\ \A s \in Slots : \E j \in 1 .. size : Get(s) = Walk(h)[j]
         /\ \A j \in 1 .. size : \E s \in Slots : Get(s) = Walk(h)[j]
         /\ Get(h) = Walk(h)[1]
<1>1. /\ size \in Nat \ {0} /\ weights \in Seq(Nat) /\ Accepted
      /\ table \in [Slots -> VNodes \cup {Empty}]
  BY DEF IInv, TypeOK, Started
<1>2. \A s \in Slots : table[s] \in VNodes
  BY <1>1 DEF IInv, BuiltIsFull
<1>3. \A s \in Slots : VnodeToNode[table[s]] \in DOMAIN weights
  BY <1>1, <1>2, SomeVNode
<1>4. h \in 0 .. size - 1 /\ Slots = 0 .. size - 1
  BY DEF Slots
<1>5. ASSUME NEW j \in 1 .. size
      PROVE  /\ h + j - 1 \in 0 .. 2 * size - 1
             /\ (h + j - 1) % size = IF h + j - 1 < size THEN h + j - 1 ELSE h + j - 1 - size
             /\ (h + j - 1) % size \in Slots
  <2>1. h + j - 1 \in 0 .. 2 * size - 1
    BY <1>1, <1>4
  <2>2. (h + j - 1) % size = IF h + j - 1 < size THEN h + j - 1 ELSE h + j - 1 - size
    <3>1. PICK n \in Nat \ {0}, x \in 0 .. 2 * size - 1 : n = size /\ x = h + j - 1
      BY <1>1, <2>1
    <3>2. x \in 0 .. 2 * n - 1
      BY <3>1
    <3>3. x % n = IF x < n THEN x ELSE x - n
      BY <3>2, WrapAround
    <3>4. (h + j - 1) % size = x % n
      BY <3>1
    <3>5. IF x < n THEN x = h + j - 1 /\ h + j - 1 < size
                   ELSE x - n = h + j - 1 - size /\ ~(h + j - 1 < size)
      BY <3>1, <1>1, <1>4
    <3> QED
      BY <3>3, <3>4, <3>5
  <2> QED
    BY <1>1, <1>4, <2>1, <2>2
<1>6. \A j \in 1 .. size : Walk(h)[j] = VnodeToNode[table[(h + j - 1) % size]]
  BY DEF Walk
<1>7. Walk(h) \in [1 .. size -> DOMAIN weights]
  BY <1>3, <1>5 DEF Walk
<1>8. ASSUME NEW s \in Slots PROVE s % size = s /\ Get(s) = VnodeToNode[table[s]]
  <2>1. s \in 0 .. 2 * size - 1 /\ s < size
    BY <1>1, <1>4
  <2>2. s % size = s
    BY <1>1, <2>1, WrapAround
  <2> QED
    BY <2>2 DEF Get
<1>9. ASSUME NEW k \in Slots PROVE Get(h + k) = Walk(h)[k + 1]
  <2>1. k + 1 \in 1 .. size /\ h + (k + 1) - 1 = h + k
    BY <1>1, <1>4
  <2>2. Walk(h)[k + 1] = VnodeToNode[table[(h + (k + 1) - 1) % size]]
    BY <1>6, <2>1
  <2> QED
    BY <2>1, <2>2 DEF Get
<1>10. ASSUME NEW s \in Slots PROVE \E j \in 1 .. size : Get(s) = Walk(h)[j]
  <2> DEFINE j == IF s >= h THEN s - h + 1 ELSE s - h + 1 + size
  <2>1. j \in 1 .. size
    BY <1>1, <1>4
  <2>2. (h + j - 1) % size = s
    BY <1>1, <1>4, <1>5, <2>1
  <2> HIDE DEF j
  <2> QED
    BY <1>6, <1>8, <2>1, <2>2
<1>11. ASSUME NEW j \in 1 .. size PROVE \E s \in Slots : Get(s) = Walk(h)[j]
  BY <1>5, <1>6, <1>8
<1>12. Get(h) = Walk(h)[1]
  <2>1. 1 \in 1 .. size /\ h + 1 - 1 = h
    BY <1>1, <1>4
  <2>2. Walk(h)[1] = VnodeToNode[table[(h + 1 - 1) % size]]
    BY <1>6, <2>1
  <2> QED
    BY <2>1, <2>2 DEF Get
<1> QED
  BY <1>1, <1>7, <1>9, <1>10, <1>11, <1>12

(* get_n returns each node once, the owner that get returns first, then    *)
(* the others by the slots they own, and as many as there are nodes in the *)
(* table or were asked for (maglev.rs 116-154).                            *)
THEOREM GetNFollowsWalk == Spec => []GetNIsWalk
<1>1. ASSUME IInv PROVE GetNIsWalk
  <2> SUFFICES ASSUME pc = "built", NEW h \in Slots, NEW n \in 1 .. Len(weights) + 1
               PROVE  LET result == GetN(h, n)
                          present == {Get(s) : s \in Slots}
                      IN  /\ result[1] = Get(h)
                          /\ IsInjective(result)
                          /\ ToSet(result) \subseteq present
                          /\ Len(result) = IF n <= Cardinality(present) THEN n
                                           ELSE Cardinality(present)
                          /\ \A r \in 1 .. Len(result) :
                               \E k \in Slots :
                                 /\ Get(h + k) = result[r]
                                 /\ {Get(h + j) : j \in 0 .. k} = {result[q] : q \in 1 .. r}
    BY DEF GetNIsWalk
  <2> DEFINE result == GetN(h, n)
             present == {Get(s) : s \in Slots}
             W == Walk(h)
  <2>1. n \in Nat \ {0}
    BY <1>1 DEF IInv, TypeOK
  <2>2. /\ size \in Nat \ {0}
        /\ W \in [1 .. size -> DOMAIN weights]
        /\ \A k \in Slots : Get(h + k) = W[k + 1]
        /\ \A s \in Slots : \E j \in 1 .. size : Get(s) = W[j]
        /\ \A j \in 1 .. size : \E s \in Slots : Get(s) = W[j]
        /\ Get(h) = W[1]
    BY <1>1, WalkGoesRound
  <2>3. result \in Seq(DOMAIN weights) /\ Collects(W, n, result, size)
    BY <2>1, <2>2, GetNCollects
  <2>4. \A y : y \in present <=> \E j \in 1 .. size : y = W[j]
    BY <2>2
  <2> HIDE DEF result, W, present
  <2>5. PICK L \in Nat : L = Len(result) /\ DOMAIN result = 1 .. L
    BY <2>3
  <2>6. result[1] = Get(h)
    BY <2>2, <2>3 DEF Collects
  <2>7. IsInjective(result)
    BY <2>3, <2>5 DEF Collects, IsInjective
  <2>8. ToSet(result) \subseteq present
    <3>1. \A i \in 1 .. L : \E j \in 1 .. size : result[i] = W[j]
      BY <2>3, <2>5 DEF Collects
    <3>2. \A i \in 1 .. L : result[i] \in present
      BY <3>1, <2>4
    <3> QED
      BY <3>2, <2>5 DEF ToSet
  <2>9. L < n => present \subseteq ToSet(result)
    <3>1. L < n => \A j \in 1 .. size : \E i \in 1 .. L : result[i] = W[j]
      BY <2>3, <2>5 DEF Collects
    <3> QED
      BY <3>1, <2>4, <2>5 DEF ToSet
  <2>10. IsFiniteSet(ToSet(result)) /\ Cardinality(ToSet(result)) = L
    <3>1. result \in Bijection(1 .. L, ToSet(result))
      <4>1. result \in [1 .. L -> ToSet(result)]
        BY <2>3, <2>5 DEF ToSet
      <4> QED
        BY <4>1, <2>5, <2>7 DEF Bijection, Injection, Surjection, IsInjective, ToSet
    <3>2. IsFiniteSet(1 .. L) /\ Cardinality(1 .. L) = L
      BY IntervalSize
    <3> QED
      BY <3>1, <3>2, FS_Bijection DEF ExistsBijection
  <2>11. IsFiniteSet(present)
    <3>1. present \in SUBSET (DOMAIN weights)
      BY <2>2 DEF present
    <3>2. IsFiniteSet(DOMAIN weights)
      <4>1. DOMAIN weights = 1 .. Len(weights) /\ Len(weights) \in Nat
        BY <1>1 DEF IInv, TypeOK
      <4> QED
        BY <4>1, IntervalSize
    <3> QED
      BY <3>1, <3>2, FS_Subset
  <2>12. L <= n
    BY <2>3, <2>5 DEF Collects
  <2>13. ASSUME NEW r \in 1 .. L
         PROVE  \E k \in Slots :
                  /\ Get(h + k) = result[r]
                  /\ {Get(h + j) : j \in 0 .. k} = {result[q] : q \in 1 .. r}
    <3>1. PICK i \in 1 .. size :
            /\ W[i] = result[r]
            /\ \A j \in 1 .. i : \E q \in 1 .. r : result[q] = W[j]
            /\ \A q \in 1 .. r : \E j \in 1 .. i : result[q] = W[j]
      BY <2>3, <2>5 DEF Collects
    <3>2. i - 1 \in Slots /\ \A j \in 0 .. i - 1 : j \in Slots /\ j + 1 \in 1 .. i
      BY <2>2 DEF Slots
    <3>3. Get(h + (i - 1)) = result[r]
      <4>1. (i - 1) + 1 = i
        OBVIOUS
      <4>2. Get(h + (i - 1)) = W[(i - 1) + 1]
        BY <2>2, <3>2
      <4> QED
        BY <4>1, <4>2, <3>1
    <3>4. ASSUME NEW j \in 0 .. i - 1 PROVE \E q \in 1 .. r : Get(h + j) = result[q]
      <4>1. j + 1 \in 1 .. i /\ Get(h + j) = W[j + 1]
        BY <2>2, <3>2
      <4> QED
        BY <4>1, <3>1
    <3>5. ASSUME NEW q \in 1 .. r PROVE \E j \in 0 .. i - 1 : Get(h + j) = result[q]
      <4>1. PICK j \in 1 .. i : result[q] = W[j]
        BY <3>1
      <4>2. j - 1 \in 0 .. i - 1 /\ (j - 1) + 1 = j /\ j - 1 \in Slots
        BY <3>2
      <4>3. Get(h + (j - 1)) = W[(j - 1) + 1]
        BY <2>2, <4>2
      <4> QED
        BY <4>1, <4>2, <4>3
    <3>6. {Get(h + j) : j \in 0 .. i - 1} = {result[q] : q \in 1 .. r}
      BY <3>4, <3>5
    <3> QED
      BY <3>2, <3>3, <3>6
  <2>14. L = IF n <= Cardinality(present) THEN n ELSE Cardinality(present)
    <3>1. Cardinality(present) \in Nat /\ L <= Cardinality(present)
      BY <2>8, <2>10, <2>11, FS_Subset, FS_CardinalityType
    <3>2. CASE L < n
      <4>1. present = ToSet(result)
        BY <3>2, <2>8, <2>9
      <4> QED
        BY <4>1, <3>1, <3>2, <2>1, <2>10
    <3>3. CASE L = n
      BY <3>1, <3>3
    <3> QED
      BY <3>2, <3>3, <2>1, <2>12
  <2> QED
    BY <2>5, <2>6, <2>7, <2>8, <2>13, <2>14 DEF result, present
<1> QED
  BY <1>1, Invariance, PTL

=============================================================================
