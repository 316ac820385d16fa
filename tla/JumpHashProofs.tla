---------------------------- MODULE JumpHashProofs ----------------------------
(***************************************************************************)
(* Theorems about JumpHash, for every width of the integers, every range   *)
(* of the draws and every sequence of draws.                               *)
(*                                                                         *)
(* Two calls for one key draw the same numbers, so the stops of the call   *)
(* that runs and those of the call before agree as far as both go: an      *)
(* invariant, which a step that appends a stop preserves because both      *)
(* calls computed it from the same stop and the same draw.  What a call    *)
(* answers is its last stop; the stops increase, all of them are below the *)
(* number of buckets, and the one that would follow is not.                *)
(***************************************************************************)
EXTENDS JumpHash, TLAPS

(* The stop that follows the i-th. *)
Follow(s, i) == IF i = 0 THEN 0 ELSE NextStop(s[i], draws[i])

Stops == Seq(0 .. Half - 1)

TypeOK ==
  /\ draws \in [Draws -> 1 .. Range]
  /\ num \in 0 .. 2 * Half - 1
  /\ signed \in Int
  /\ stops \in Stops
  /\ j \in 0 .. Half - 1
  /\ last \in [num : 0 .. 2 * Half - 1, stops : Stops]

(* s are the first stops for the key, and they increase. *)
Walked(s) ==
  /\ Len(s) < Half
  /\ \A i \in 0 .. Len(s) - 1 : s[i + 1] = Follow(s, i)
  /\ \A i, k \in 1 .. Len(s) : i < k => s[i] < s[k]

Agree == \A i \in 1 .. Len(stops) : i <= Len(last.stops) => stops[i] = last.stops[i]

SignedOK ==
  num > 0 => /\ signed < Half
             /\ IF num < Half THEN signed = num ELSE signed < 0

Current ==
  /\ Walked(stops)
  /\ j = Follow(stops, Len(stops))
  /\ Len(stops) <= j
  /\ \A i \in 1 .. Len(stops) : stops[i] < j
  /\ num > 0 => \A i \in 1 .. Len(stops) : stops[i] < signed

Previous ==
  /\ Walked(last.stops)
  /\ \A i \in 1 .. Len(last.stops) : last.stops[i] < last.num
  /\ last.num \in 1 .. Half - 1
       => Follow(last.stops, Len(last.stops)) >= last.num

IInv == TypeOK /\ SignedOK /\ Current /\ Previous /\ Agree

-----------------------------------------------------------------------------
(* Integer division by at most q keeps at least the q-th part. *)
LEMMA DivisionBound ==
  ASSUME NEW x \in Nat, NEW q \in Nat \ {0}, NEW r \in 1 .. q
  PROVE  /\ (x * q) \div r \in Nat
         /\ (x * q) \div r >= x
<1> DEFINE d == (x * q) \div r
<1>1. x * q \in Nat /\ r \in Nat \ {0}
  OBVIOUS
<1> HIDE DEF d
<1>2. d \in Int /\ d * r <= x * q /\ x * q < (d + 1) * r
  BY <1>1, Z3 DEF d
<1>3. x * r <= x * q
  OBVIOUS
<1>4. ASSUME d < x PROVE FALSE
  <2>1. (d + 1) * r <= x * r
    BY <1>2, <1>4
  <2> QED BY <1>2, <1>3, <2>1
<1>5. d >= x
  BY <1>2, <1>4
<1> QED BY <1>2, <1>5 DEF d

(* A draw moves the key on, and never out of i64. *)
LEMMA NextStopMoves ==
  ASSUME NEW b \in 0 .. Half - 2, NEW r \in 1 .. Range
  PROVE  NextStop(b, r) \in b + 1 .. Half - 1
<1>1. ((b + 1) * Range) \div r \in Nat /\ ((b + 1) * Range) \div r >= b + 1
  BY DivisionBound, WidthsAssumption
<1> QED BY <1>1, WidthsAssumption DEF NextStop

(* Remainders of what is in range. *)
LEMMA Remainders ==
  ASSUME NEW m \in Nat \ {0}
  PROVE  /\ \A x \in 0 .. m - 1 : x % m = x
         /\ (-1) % m = m - 1
OBVIOUS

-----------------------------------------------------------------------------
LEMMA InitIInv == Init => IInv
BY WidthsAssumption
DEF Init, IInv, TypeOK, SignedOK, Current, Previous, Agree, Walked, Follow, Stops

(* A new call: the stops it has are none. *)
LEMMA StartIInv ==
  ASSUME IInv, NEW n \in 1 .. 2 * Half - 1, NEW asSigned \in Int,
         asSigned < Half, IF n < Half THEN asSigned = n ELSE asSigned < 0,
         Start(n, asSigned)
  PROVE  IInv'
<1> USE DEF Start
<1>1. TypeOK'
  BY WidthsAssumption DEF IInv, TypeOK, Stops
<1>2. SignedOK'
  BY DEF SignedOK
<1>3. Current'
  BY WidthsAssumption DEF Current, Walked, Follow
<1>4. Previous'
  BY DEF IInv, Previous, Walked, Follow
<1>5. Agree'
  BY DEF Agree
<1> QED BY <1>1, <1>2, <1>3, <1>4, <1>5 DEF IInv

LEMMA JumpIInv ==
  ASSUME IInv, Jump
  PROVE  IInv'
<1> USE DEF Jump
<1> DEFINE len == Len(stops)
<1>1. /\ num > 0 /\ j < signed /\ signed < Half
      /\ stops \in Seq(Int) /\ len \in Nat /\ len <= j /\ j \in 0 .. Half - 2
  BY WidthsAssumption DEF IInv, TypeOK, SignedOK, Current, LoopsOn, Stops
<1>2. len + 1 \in Draws /\ draws[len + 1] \in 1 .. Range
  BY <1>1, WidthsAssumption DEF Draws, IInv, TypeOK
<1>3. j' \in j + 1 .. Half - 1
  BY <1>1, <1>2, NextStopMoves DEF Drawn
<1>4. /\ Len(stops') = len + 1
      /\ \A i \in 1 .. len : stops'[i] = stops[i]
      /\ stops'[len + 1] = j
  BY <1>1
<1>5. /\ draws' = draws /\ num' = num /\ signed' = signed /\ last' = last
  OBVIOUS
<1> HIDE DEF Jump
<1>6. TypeOK'
  <2>1. stops' \in Stops
    BY <1>1 DEF Jump, IInv, TypeOK, Stops
  <2> QED BY <2>1, <1>1, <1>3, <1>5, WidthsAssumption DEF IInv, TypeOK
<1>7. SignedOK'
  BY <1>5 DEF IInv, SignedOK
<1>8. Current'
  <2>1. Walked(stops)'
    <3>1. Len(stops') < Half
      BY <1>1, <1>4, WidthsAssumption
    <3>2. ASSUME NEW i \in 0 .. Len(stops') - 1
          PROVE  stops'[i + 1] = Follow(stops, i)'
      <4>1. CASE i < len
        BY <4>1, <1>1, <1>4, <1>5 DEF IInv, Current, Walked, Follow
      <4>2. CASE i = len
        BY <4>2, <1>1, <1>4, <1>5 DEF IInv, Current, Follow
      <4> QED BY <4>1, <4>2, <1>1, <1>4
    <3>3. ASSUME NEW i \in 1 .. Len(stops'), NEW k \in 1 .. Len(stops'), i < k
          PROVE  stops'[i] < stops'[k]
      <4>1. CASE k <= len
        BY SMTT(30), <4>1, <3>3, <1>1, <1>4 DEF IInv, Current, Walked
      <4>2. CASE k = len + 1
        BY <4>2, <3>3, <1>1, <1>4 DEF IInv, Current
      <4> QED BY <4>1, <4>2, <1>1, <1>4
    <3> QED BY <3>1, <3>2, <3>3 DEF Walked
  <2>2. j' = Follow(stops, Len(stops))'
    BY <1>1, <1>4, <1>5 DEF Jump, Follow, Drawn
  <2>3. Len(stops') <= j'
    BY <1>1, <1>3, <1>4
  <2>4. ASSUME NEW i \in 1 .. Len(stops')
        PROVE  stops'[i] < j' /\ stops'[i] < signed'
    <3>1. CASE i <= len
      <4>1. stops[i] < j /\ stops[i] < signed /\ stops[i] \in Int
        BY <3>1, <1>1 DEF IInv, Current
      <4> QED BY <3>1, <4>1, <1>1, <1>3, <1>4, <1>5 DEF IInv, TypeOK
    <3>2. CASE i = len + 1
      BY <3>2, <1>1, <1>3, <1>4, <1>5
    <3> QED BY <3>1, <3>2, <1>1, <1>4
  <2> QED BY <2>1, <2>2, <2>3, <2>4 DEF Current
<1>9. Previous'
  BY <1>5 DEF IInv, Previous, Walked, Follow
<1>10. Agree'
  <2> SUFFICES ASSUME NEW i \in 1 .. Len(stops'), i <= Len(last.stops)
               PROVE  stops'[i] = last.stops[i]
    BY <1>5 DEF Agree
  <2>1. CASE i <= len
    BY <2>1, <1>1, <1>4 DEF IInv, Agree
  <2>2. CASE i = len + 1
    <3>1. len \in 0 .. Len(last.stops) - 1
      BY <2>2, <1>1 DEF IInv, TypeOK, Stops
    <3>2. last.stops[len + 1] = Follow(last.stops, len)
      BY <3>1 DEF IInv, Previous, Walked
    <3>3. Follow(last.stops, len) = Follow(stops, len)
      <4>1. CASE len = 0
        BY <4>1 DEF Follow
      <4>2. CASE len > 0
        <5>1. stops[len] = last.stops[len]
          BY <4>2, <3>1, <1>1 DEF IInv, Agree
        <5> QED BY <4>2, <5>1 DEF Follow
      <4> QED BY <4>1, <4>2, <1>1
    <3>4. j = Follow(stops, len)
      BY DEF IInv, Current
    <3> QED BY <2>2, <3>2, <3>3, <3>4, <1>4
  <2> QED BY <2>1, <2>2, <1>1, <1>4
<1> QED BY <1>6, <1>7, <1>8, <1>9, <1>10 DEF IInv

LEMMA ReturnIInv ==
  ASSUME IInv, Return
  PROVE  IInv'
<1> USE DEF Return
<1>1. TypeOK'
  BY WidthsAssumption DEF IInv, TypeOK
<1>2. SignedOK'
  BY DEF SignedOK
<1>3. Current'
  BY DEF IInv, Current, Walked, Follow
<1>4. Previous'
  <2>1. /\ last'.stops = stops /\ last'.num = num /\ draws' = draws
        /\ num \in 0 .. 2 * Half - 1 /\ num > 0 /\ signed \in Int /\ j \in Int /\ j >= signed
    BY WidthsAssumption DEF Ended, LoopsOn, IInv, TypeOK
  <2>2. Walked(last.stops)'
    BY <2>1 DEF IInv, Current, Walked, Follow
  <2>3. ASSUME NEW i \in 1 .. Len(stops)
        PROVE  stops[i] < num
    <3>1. stops[i] < signed /\ stops[i] \in 0 .. Half - 1
      BY <2>1, WidthsAssumption DEF IInv, Current, TypeOK, Stops
    <3>2. signed <= num
      BY <2>1, WidthsAssumption DEF IInv, SignedOK
    <3> QED BY <2>1, <3>1, <3>2, WidthsAssumption
  <2>4. num < Half => Follow(stops, Len(stops)) >= num
    BY <2>1 DEF IInv, Current, SignedOK
  <2>5. Follow(last.stops, Len(last.stops))' = Follow(stops, Len(stops))
    BY <2>1 DEF Follow
  <2> QED BY <2>1, <2>2, <2>3, <2>4, <2>5, WidthsAssumption DEF Previous
<1>5. Agree'
  BY DEF Agree
<1> QED BY <1>1, <1>2, <1>3, <1>4, <1>5 DEF IInv

LEMMA NextIInv == IInv /\ [Next]_vars => IInv'
<1> SUFFICES ASSUME IInv, [Next]_vars PROVE IInv'
  OBVIOUS
<1>1. ASSUME NEW n \in 1 .. NarrowMax, Hash(n) PROVE IInv'
  BY <1>1, StartIInv, WidthsAssumption DEF Hash
<1>2. ASSUME NEW n \in 1 .. 2 * Half - 1, HashU64(n) PROVE IInv'
  <2>1. /\ Signed(n) \in Int /\ Signed(n) < Half
        /\ IF n < Half THEN Signed(n) = n ELSE Signed(n) < 0
    BY WidthsAssumption DEF Signed
  <2> QED BY <1>2, <2>1, StartIInv DEF HashU64
<1>3. CASE Jump
  BY <1>3, JumpIInv
<1>4. CASE Return
  BY <1>4, ReturnIInv
<1>5. CASE UNCHANGED vars
  BY <1>5 DEF vars, IInv, TypeOK, SignedOK, Current, Previous, Agree, Walked, Follow
<1> QED BY <1>1, <1>2, <1>3, <1>4, <1>5 DEF Next

LEMMA Invariance == Spec => []IInv
BY InitIInv, NextIInv, PTL DEF Spec

-----------------------------------------------------------------------------
(* The bucket is one the caller has, for every count below 2^63.           *)
THEOREM JumpBucketExists == Spec => []BucketExists
<1>1. IInv => BucketExists
  <2> SUFFICES ASSUME IInv, Ended
               PROVE  IF num < Half THEN Bucket < num ELSE Bucket = 2 * Half - 1
    BY DEF BucketExists
  <2>1. /\ num \in 1 .. 2 * Half - 1 /\ signed \in Int /\ j \in Nat /\ j >= signed
        /\ stops \in Seq(0 .. Half - 1) /\ Len(stops) \in Nat
    BY DEF Ended, LoopsOn, IInv, TypeOK, Stops
  <2>2. 2 * Half \in Nat \ {0}
    BY WidthsAssumption
  <2>3. CASE stops = <<>>
    <3>1. j = 0
      BY <2>3 DEF IInv, Current, Follow
    <3>2. num >= Half
      BY <2>1, <3>1, WidthsAssumption DEF IInv, SignedOK
    <3>3. Bucket = 2 * Half - 1
      BY <2>2, <2>3, Remainders DEF Bucket, BAfter
    <3> QED BY <2>1, <3>2, <3>3, WidthsAssumption
  <2>4. CASE stops # <<>>
    <3>1. Len(stops) \in 1 .. Len(stops)
      BY <2>1, <2>4
    <3>2. stops[Len(stops)] < signed /\ stops[Len(stops)] \in 0 .. Half - 1
      <4>1. num > 0
        BY <2>1
      <4>2. \A i \in 1 .. Len(stops) : stops[i] < signed
        BY <4>1 DEF IInv, Current
      <4> QED BY <2>1, <3>1, <4>2, WidthsAssumption
    <3>3. num < Half /\ signed = num
      BY <2>1, <3>2, WidthsAssumption DEF IInv, SignedOK
    <3>4. stops[Len(stops)] \in 0 .. 2 * Half - 1
      BY <3>2, WidthsAssumption
    <3>5. Bucket = stops[Len(stops)]
      BY <2>2, <2>4, <3>4, Remainders DEF Bucket, BAfter
    <3> QED BY <3>2, <3>3, <3>5
  <2> QED BY <2>3, <2>4
<1> QED BY <1>1, Invariance, PTL

(* Resizing moves a key only to buckets that are new, or out of buckets    *)
(* that are gone, for any two counts below 2^63.                           *)
THEOREM JumpMovesToNewBuckets == Spec => []MovesToNewBuckets
<1>1. IInv => MovesToNewBuckets
  <2> DEFINE n == num
             m == last.num
             K == Len(stops)
             L == Len(last.stops)
  <2> SUFFICES ASSUME IInv, Ended, n < Half, m \in 1 .. Half - 1
               PROVE  \/ BAfter(stops) = BAfter(last.stops)
                      \/ IF n > m THEN BAfter(stops) >= m
                                  ELSE BAfter(last.stops) >= n
    BY DEF MovesToNewBuckets
  <2>1. /\ n \in 1 .. Half - 1 /\ j \in Nat /\ j >= n
        /\ stops \in Seq(0 .. Half - 1) /\ last.stops \in Seq(0 .. Half - 1)
        /\ K \in Nat /\ L \in Nat
    BY WidthsAssumption DEF Ended, LoopsOn, IInv, TypeOK, Stops, SignedOK
  <2>2. j = Follow(stops, K) /\ Follow(last.stops, L) >= m
    BY DEF IInv, Current, Previous
  <2>3. K > 0 /\ L > 0
    BY <2>1, <2>2 DEF Follow
  <2>4. BAfter(stops) = stops[K] /\ BAfter(last.stops) = last.stops[L]
    BY <2>1, <2>3 DEF BAfter
  <2>5. /\ stops[K] \in Nat /\ stops[K] < n
        /\ last.stops[L] \in Nat /\ last.stops[L] < m
    <3>1. K \in 1 .. K /\ L \in 1 .. L
      BY <2>1, <2>3
    <3>2. stops[K] \in Nat /\ last.stops[L] \in Nat
      BY <2>1, <3>1, WidthsAssumption
    <3>3. num > 0 /\ signed = n
      BY <2>1 DEF IInv, SignedOK
    <3>4. stops[K] < n
      BY <3>1, <3>3 DEF IInv, Current
    <3>5. last.stops[L] < m
      BY <3>1 DEF IInv, Previous
    <3> QED BY <3>2, <3>4, <3>5
  <2>6. CASE K = L
    BY <2>1, <2>3, <2>4, <2>6 DEF IInv, Agree
  <2>7. CASE K < L
    <3>1. stops[K] = last.stops[K]
      BY <2>1, <2>3, <2>7 DEF IInv, Agree
    <3>2. last.stops[K + 1] = j
      BY <2>1, <2>2, <2>3, <2>7, <3>1 DEF IInv, Previous, Walked, Follow
    <3>3. last.stops[L] >= last.stops[K + 1]
      <4>1. CASE L = K + 1
        BY <2>5, <4>1
      <4>2. CASE L > K + 1
        <5>1. K + 1 \in 1 .. L /\ L \in 1 .. L
          BY <2>1, <4>2
        <5>2. last.stops[K + 1] < last.stops[L]
          BY <5>1, <4>2 DEF IInv, Previous, Walked
        <5> QED BY <2>1, <2>5, <3>2, <5>2
      <4> QED BY <2>1, <2>7, <4>1, <4>2
    <3>4. last.stops[L] >= n
      BY <2>1, <2>5, <3>2, <3>3
    <3>5. ~(n > m)
      BY <2>1, <2>5, <3>4
    <3> QED BY <2>4, <3>4, <3>5
  <2>8. CASE K > L
    <3>1. stops[L] = last.stops[L]
      BY <2>1, <2>3, <2>8 DEF IInv, Agree
    <3>2. stops[L + 1] = Follow(last.stops, L)
      BY <2>1, <2>3, <2>8, <3>1 DEF IInv, Current, Walked, Follow
    <3>3. stops[L + 1] >= m /\ stops[L + 1] \in Nat
      <4>1. L + 1 \in 1 .. K
        BY <2>1, <2>8
      <4>2. \A i \in 1 .. Len(stops) : stops[i] \in 0 .. Half - 1
        BY <2>1, WidthsAssumption
      <4>3. stops[L + 1] \in 0 .. Half - 1
        BY <4>1, <4>2
      <4> QED BY <2>2, <3>2, <4>3, WidthsAssumption
    <3>4. stops[K] >= stops[L + 1]
      <4>1. CASE K = L + 1
        BY <2>5, <4>1
      <4>2. CASE K > L + 1
        <5>1. L + 1 \in 1 .. K /\ K \in 1 .. K
          BY <2>1, <4>2
        <5>2. stops[L + 1] < stops[K]
          BY <5>1, <4>2 DEF IInv, Current, Walked
        <5> QED BY <2>5, <3>3, <5>2
      <4> QED BY <2>1, <2>8, <4>1, <4>2
    <3>5. stops[K] >= m
      BY <2>5, <3>3, <3>4
    <3>6. n > m
      BY <2>1, <2>5, <3>5
    <3> QED BY <2>4, <3>5, <3>6
  <2> QED BY <2>1, <2>6, <2>7, <2>8
<1> QED BY <1>1, Invariance, PTL
=============================================================================
