---------------------------- MODULE RingWalkProofs ----------------------------
(***************************************************************************)
(* The walk of get_n is correct on every well-formed ring, for every hash  *)
(* and every n: its result is a preference list of the right length.       *)
(*                                                                         *)
(* PreferenceOrder says nothing of the point the walk has reached, so it   *)
(* is not inductive.  IInv adds that `seen` and the result agree, and that *)
(* until every node is seen all points behind the walk have been.          *)
(***************************************************************************)
EXTENDS RingWalk, RingLookupProofs

Collected == {result[r] : r \in 1 .. Len(result)}

AllSeen == \A node \in Nodes(ring) : seen[node]

Behind == \A k \in Indices(ring) : Offset(k) < Offset(i) => seen[NodeAt(ring, k)]

IInv ==
  /\ TypeOK
  /\ \A node \in Nodes(ring) : seen[node] <=> node \in Collected
  /\ Len(result) <= n /\ Len(result) <= ring.size
  /\ PreferenceOrder
  /\ pc = "walking" => AllSeen \/ Behind
  /\ CompleteWhenDone

-----------------------------------------------------------------------------
(* One step clockwise moves one offset further, until the circle closes.   *)
LEMMA OffsetArithmetic ==
  ASSUME NEW L \in Nat \ {0}, NEW s \in 0 .. L - 1, NEW x \in 0 .. L - 1,
         NEW y \in 0 .. L - 1
  PROVE  LET off(k) == IF s <= k THEN k - s ELSE k - s + L
         IN  /\ (x + 1) % L \in 0 .. L - 1
             /\ off(x) \in 0 .. L - 1
             /\ off(x) = off(y) => x = y
             /\ off((x + 1) % L) = off(x) + 1 \/ off(x) = L - 1
<1>1. CASE x = L - 1
  <2>1. (x + 1) % L = 0
    BY <1>1
  <2> QED
    BY <1>1, <2>1
<1>2. CASE x # L - 1
  <2>1. (x + 1) % L = x + 1
    BY <1>2
  <2> QED
    BY <1>2, <2>1
<1> QED
  BY <1>1, <1>2

(* A well-formed ring has points, so the lookup starts at one of them, and *)
(* offsets count the circle once.                                          *)
LEMMA OffsetsCountTheCircle ==
  ASSUME WellFormed(ring), hash \in Hashes, NEW k \in Indices(ring),
         NEW other \in Indices(ring)
  PROVE  /\ StartIndex(ring.points, hash) \in Indices(ring)
         /\ (k + 1) % Len(ring.points) \in Indices(ring)
         /\ Offset(k) \in 0 .. Len(ring.points) - 1
         /\ Offset(k) = Offset(other) => k = other
         /\ \/ Offset((k + 1) % Len(ring.points)) = Offset(k) + 1
            \/ Offset(k) = Len(ring.points) - 1
<1>1. Len(ring.points) \in Nat \ {0}
  BY DEF WellFormed, Indices
<1>2. StartIndex(ring.points, hash) \in 0 .. Len(ring.points) - 1
  BY <1>1, LookupFindsSuccessor DEF WellFormed, StartsAtSuccessor
<1> DEFINE L == Len(ring.points)
           s == StartIndex(ring.points, hash)
           off(x) == IF s <= x THEN x - s ELSE x - s + L
<1>3. /\ (k + 1) % L \in 0 .. L - 1
      /\ off(k) \in 0 .. L - 1
      /\ off(k) = off(other) => k = other
      /\ off((k + 1) % L) = off(k) + 1 \/ off(k) = L - 1
  <2> k \in 0 .. L - 1 /\ other \in 0 .. L - 1
    BY DEF Indices
  <2> HIDE DEF L, s
  <2> QED
    BY <1>1, <1>2, OffsetArithmetic DEF L, s
<1>4. \A x : Offset(x) = off(x)
  BY DEF Offset
<1> QED
  BY <1>2, <1>3, <1>4 DEF Indices

(* A well-formed ring has a point, and its points name its nodes. *)
LEMMA PointsNameNodes ==
  ASSUME WellFormed(ring)
  PROVE  /\ 0 \in Indices(ring)
         /\ \A k \in Indices(ring) : NodeAt(ring, k) \in Nodes(ring)
         /\ \A node \in Nodes(ring) :
              \E k \in Indices(ring) : NodeAt(ring, k) = node
<1>1. 0 \in Nodes(ring)
  BY DEF WellFormed, Nodes
<1>2. PICK k \in Indices(ring) : NodeAt(ring, k) = 0
  BY <1>1 DEF WellFormed
<1>3. 0 \in Indices(ring)
  BY <1>2 DEF Indices, WellFormed
<1> QED
  BY <1>3 DEF WellFormed

LEMMA InitIInv == Init => IInv
<1> SUFFICES ASSUME Init PROVE IInv
  OBVIOUS
<1>1. WellFormed(ring)
  BY RingsAssumption DEF Init
<1>2. TypeOK
  BY <1>1, PointsNameNodes, MaxHashAssumption DEF Init, TypeOK, Hashes
<1>3. Len(result) = 0 /\ n = 0 /\ ring.size \in Nat
  BY <1>1 DEF Init, WellFormed
<1> QED
  BY <1>2, <1>3 DEF Init, IInv, Collected, PreferenceOrder, CompleteWhenDone

-----------------------------------------------------------------------------
LEMMA CallIInv ==
  ASSUME IInv, NEW h \in Hashes, NEW count \in Counts, Call(h, count)
  PROVE  IInv'
<1>1. WellFormed(ring)' /\ hash' \in Hashes /\ n' \in Nat
  BY CountsAssumption DEF IInv, TypeOK, Call
<1>2. StartIndex(ring.points, h) \in 0 .. Len(ring.points) - 1
  <2>1. 0 \in Indices(ring) /\ ring.points \in Seq(Point) /\ Sorted(ring.points)
    BY PointsNameNodes DEF IInv, TypeOK, WellFormed
  <2> QED
    BY <2>1, LookupFindsSuccessor DEF Indices, StartsAtSuccessor
<1>3. TypeOK'
  BY <1>1, <1>2 DEF Call, TypeOK, Indices
<1>4. Len(result') = 0 /\ ring'.size \in Nat
  BY <1>1 DEF Call, WellFormed
<1>5. Offset(i)' = 0
  BY <1>2 DEF Call, Offset
<1>6. \A k \in Indices(ring') : Offset(k)' \in 0 .. Len(ring'.points) - 1
  <2> SUFFICES ASSUME NEW k \in Indices(ring)
               PROVE  Offset(k)' \in 0 .. Len(ring.points) - 1
    BY DEF Call
  <2>1. Len(ring.points) \in Nat \ {0}
    BY <1>2 DEF IInv, TypeOK, WellFormed
  <2> QED
    BY <2>1, <1>2, OffsetArithmetic DEF Call, Offset, Indices
<1>7. Behind'
  BY <1>5, <1>6 DEF Behind
<1> QED
  BY <1>1, <1>3, <1>4, <1>7
  DEF Call, IInv, Collected, PreferenceOrder, CompleteWhenDone

(* The step to the next point keeps every point behind it seen, if the     *)
(* node of the point it leaves is.                                         *)
LEMMA StepKeepsBehind ==
  ASSUME TypeOK, AllSeen \/ Behind, Step, UNCHANGED <<ring, hash>>,
         seen' \in [Nodes(ring) -> BOOLEAN],
         \A node \in Nodes(ring) : seen[node] => seen'[node],
         seen'[NodeAt(ring, i)]
  PROVE  (AllSeen \/ Behind)'
<1>1. CASE AllSeen
  BY <1>1 DEF AllSeen
<1>2. CASE Behind
  <2>1. \A k \in Indices(ring) : Offset(k) <= Offset(i) => seen'[NodeAt(ring, k)]
    <3> SUFFICES ASSUME NEW k \in Indices(ring), Offset(k) <= Offset(i)
                 PROVE  seen'[NodeAt(ring, k)]
      OBVIOUS
    <3>1. /\ Offset(k) \in Int /\ Offset(i) \in Int
          /\ Offset(k) = Offset(i) => k = i
      BY OffsetsCountTheCircle DEF TypeOK
    <3>2. CASE Offset(k) < Offset(i)
      BY <3>2, <1>2, PointsNameNodes DEF Behind, TypeOK
    <3>3. CASE Offset(k) = Offset(i)
      BY <3>1, <3>3
    <3> QED
      BY <3>1, <3>2, <3>3
  <2>2. \A k : Offset(k)' = IF StartIndex(ring.points, hash) <= k
                             THEN k - StartIndex(ring.points, hash)
                             ELSE k - StartIndex(ring.points, hash) + Len(ring.points)
    BY DEF Offset
  <2>3. CASE Offset((i + 1) % Len(ring.points)) = Offset(i) + 1
    <3>1. ASSUME NEW k \in Indices(ring), Offset(k) < Offset(i')
          PROVE  seen'[NodeAt(ring, k)]
      <4>1. Offset(i') = Offset(i) + 1
        BY <2>3 DEF Step
      <4>2. Offset(k) \in Int /\ Offset(i) \in Int
        BY OffsetsCountTheCircle DEF TypeOK
      <4>3. Offset(k) <= Offset(i)
        BY <3>1, <4>1, <4>2
      <4> QED
        BY <4>3, <2>1
    <3> QED
      BY <3>1 DEF Behind, Indices, NodeAt, Offset
  <2>4. CASE Offset(i) = Len(ring.points) - 1
    <3>1. ASSUME NEW node \in Nodes(ring) PROVE seen'[node]
      <4>1. PICK k \in Indices(ring) : NodeAt(ring, k) = node
        BY PointsNameNodes DEF TypeOK
      <4>2. Offset(k) \in 0 .. Len(ring.points) - 1
        BY OffsetsCountTheCircle DEF TypeOK
      <4>3. Offset(k) <= Offset(i)
        BY <4>2, <2>4 DEF TypeOK, WellFormed
      <4> QED
        BY <4>1, <4>3, <2>1
    <3> QED
      BY <3>1 DEF AllSeen, Nodes
  <2> QED
    BY <2>3, <2>4, OffsetsCountTheCircle DEF TypeOK
<1> QED
  BY <1>1, <1>2

LEMMA CollectIInv == IInv /\ Collect => IInv'
<1> SUFFICES ASSUME IInv, Collect PROVE IInv'
  OBVIOUS
<1> DEFINE new == NodeAt(ring, i)
<1>1. /\ new \in Nodes(ring) /\ ~seen[new] /\ new \notin Collected
      /\ pc = "walking" /\ pc' = "walking"
      /\ Len(result) < n /\ Len(result) < ring.size
      /\ Len(result) \in Nat /\ result \in Seq(Nodes(ring))
      /\ i \in Indices(ring)
  BY PointsNameNodes DEF IInv, TypeOK, Collect, Wanted
<1>2. /\ result' = Append(result, new)
      /\ Len(result') = Len(result) + 1
      /\ \A r \in 1 .. Len(result) : result'[r] = result[r]
      /\ result'[Len(result) + 1] = new
  BY <1>1 DEF Collect
<1>3. UNCHANGED <<ring, hash, n>> /\ Step
  BY DEF Collect
<1>4. /\ seen' \in [Nodes(ring) -> BOOLEAN]
      /\ \A node \in Nodes(ring) : seen'[node] <=> seen[node] \/ node = new
  BY <1>1 DEF Collect, IInv, TypeOK
<1>5. TypeOK'
  <2>1. i' \in Indices(ring)
    BY <1>1, <1>3, OffsetsCountTheCircle DEF Step, IInv, TypeOK
  <2>2. result' \in Seq(Nodes(ring))
    BY <1>1, <1>2
  <2> QED
    BY <1>1, <1>3, <1>4, <2>1, <2>2 DEF IInv, TypeOK, WellFormed, Indices, Nodes, NodeAt
<1>6. \A node \in Nodes(ring) : seen'[node] <=> node \in Collected'
  <2>1. Collected' = Collected \cup {new}
    BY <1>1, <1>2 DEF Collected
  <2> QED
    BY <2>1, <1>4 DEF IInv
<1>7. AllSeen \/ Behind
  BY <1>1 DEF IInv
<1>8. (AllSeen \/ Behind)'
  BY <1>1, <1>3, <1>4, <1>7, StepKeepsBehind DEF IInv
<1>9. PreferenceOrder'
  <2> SUFFICES ASSUME NEW r \in 1 .. Len(result')
               PROVE  (/\ result[r] \notin Earlier(r - 1)
                       /\ \E k \in Indices(ring) :
                            /\ NodeAt(ring, k) = result[r]
                            /\ \A other \in Indices(ring) :
                                 NodeAt(ring, other) \notin Earlier(r)
                                   => Offset(k) < Offset(other))'
    BY DEF PreferenceOrder
  <2>1. \A q \in 0 .. Len(result) : Earlier(q)' = Earlier(q)
    BY <1>2 DEF Earlier
  <2>2. \A k : Offset(k)' = Offset(k)
    BY <1>3 DEF Offset
  <2>3. CASE r \in 1 .. Len(result)
    <3>1. result'[r] = result[r] /\ Earlier(r)' = Earlier(r)
          /\ Earlier(r - 1)' = Earlier(r - 1)
      BY <2>1, <2>3, <1>2
    <3>2. PICK k \in Indices(ring) :
            /\ NodeAt(ring, k) = result[r]
            /\ \A other \in Indices(ring) :
                 NodeAt(ring, other) \notin Earlier(r) => Offset(k) < Offset(other)
      BY <2>3 DEF IInv, PreferenceOrder
    <3>3. result[r] \notin Earlier(r - 1)
      BY <2>3 DEF IInv, PreferenceOrder
    <3> QED
      BY <3>1, <3>2, <3>3, <2>2, <1>3 DEF Indices, NodeAt
  <2>4. CASE r = Len(result) + 1
    <3>1. Earlier(r - 1)' = Collected
      <4>1. r - 1 = Len(result)
        BY <2>4, <1>1
      <4>2. \A q \in 1 .. Len(result) : result'[q] = result[q]
        BY <1>2
      <4> HIDE DEF new
      <4> QED
        BY <4>1, <4>2 DEF Earlier, Collected
    <3>2. Earlier(r)' = Collected \cup {new}
      BY <1>1, <1>2, <2>4 DEF Earlier, Collected
    <3>3. Behind
      BY <1>1, <1>7 DEF AllSeen
    <3>4. ASSUME NEW other \in Indices(ring), NodeAt(ring, other) \notin Earlier(r)'
          PROVE  Offset(i) < Offset(other)
      <4>1. NodeAt(ring, other) # new /\ ~seen[NodeAt(ring, other)]
        BY <3>2, <3>4, PointsNameNodes DEF IInv, TypeOK
      <4>2. /\ Offset(other) \in Int /\ Offset(i) \in Int
            /\ Offset(i) # Offset(other)
        BY <4>1, <1>1, OffsetsCountTheCircle DEF IInv, TypeOK
      <4>3. ~(Offset(other) < Offset(i))
        BY <4>1, <3>3 DEF Behind
      <4> QED
        BY <4>2, <4>3
    <3>5. new \notin Earlier(r - 1)' /\ result'[r] = new
      BY <3>1, <1>1, <1>2, <2>4
    <3>6. Offset(i)' = Offset(i') /\ ring' = ring /\ hash' = hash
      BY <1>3 DEF Offset
    <3>7. NodeAt(ring, i) = result'[r] /\ i \in Indices(ring)
      BY <3>5, <1>1
    <3> QED
      BY <3>4, <3>5, <3>7, <2>2, <1>3 DEF Indices, NodeAt
  <2> QED
    BY <2>3, <2>4, <1>1, <1>2
<1>10. Len(result') <= n' /\ Len(result') <= ring'.size
  BY <1>1, <1>2, <1>3 DEF IInv, TypeOK, WellFormed
<1>11. CompleteWhenDone'
  BY <1>1 DEF CompleteWhenDone
<1>12. Nodes(ring)' = Nodes(ring)
  BY <1>3 DEF Nodes
<1> QED
  BY <1>5, <1>6, <1>8, <1>9, <1>10, <1>11, <1>12 DEF IInv

LEMMA SkipIInv == IInv /\ Skip => IInv'
<1> SUFFICES ASSUME IInv, Skip PROVE IInv'
  OBVIOUS
<1>1. UNCHANGED <<ring, hash, n, seen, result, pc>> /\ Step
  BY DEF Skip
<1>2. i' \in Indices(ring)
  BY <1>1, OffsetsCountTheCircle DEF Step, IInv, TypeOK
<1>3. TypeOK'
  BY <1>1, <1>2 DEF IInv, TypeOK, WellFormed, Indices, Nodes, NodeAt
<1>4. AllSeen \/ Behind
  BY DEF IInv, Skip
<1>5. (AllSeen \/ Behind)'
  BY <1>1, <1>4, StepKeepsBehind DEF IInv, TypeOK, Skip
<1>6. PreferenceOrder' /\ CompleteWhenDone'
  BY <1>1 DEF IInv, PreferenceOrder, CompleteWhenDone, Earlier, Indices, NodeAt, Offset
<1> QED
  BY <1>1, <1>3, <1>5, <1>6 DEF IInv, Collected, Nodes

LEMMA ReturnIInv == IInv /\ Return => IInv'
<1> SUFFICES ASSUME IInv, Return PROVE IInv'
  OBVIOUS
<1>1. UNCHANGED <<ring, hash, n, i, seen, result>> /\ pc' = "idle" /\ ~Wanted
  BY DEF Return
<1>2. TypeOK'
  BY <1>1 DEF IInv, TypeOK, WellFormed, Indices, Nodes, NodeAt
<1>3. CompleteWhenDone'
  BY <1>1 DEF IInv, TypeOK, WellFormed, Wanted, CompleteWhenDone
<1>4. PreferenceOrder'
  BY SMTT(30), <1>1 DEF IInv, PreferenceOrder, Earlier, Indices, NodeAt, Offset
<1> QED
  BY <1>1, <1>2, <1>3, <1>4 DEF IInv, Collected, Nodes

LEMMA StutterIInv == IInv /\ UNCHANGED vars => IInv'
<1> SUFFICES ASSUME IInv, UNCHANGED vars PROVE IInv'
  OBVIOUS
<1>1. UNCHANGED <<ring, hash, n, i, seen, result, pc>>
  BY DEF vars
<1>2. TypeOK' /\ CompleteWhenDone'
  BY <1>1 DEF IInv, TypeOK, WellFormed, Indices, Nodes, NodeAt, CompleteWhenDone
<1>3. PreferenceOrder' /\ (pc = "walking" => AllSeen \/ Behind)'
  BY <1>1 DEF IInv, PreferenceOrder, Earlier, Indices, NodeAt, Offset, AllSeen,
              Behind, Nodes
<1> QED
  BY <1>1, <1>2, <1>3 DEF IInv, Collected, Nodes

-----------------------------------------------------------------------------
(* The strengthened invariant holds in every reachable state. *)
THEOREM WalkInvariant == Spec => []IInv
<1>1. IInv /\ [Next]_vars => IInv'
  BY CallIInv, CollectIInv, SkipIInv, ReturnIInv, StutterIInv DEF Next, Walk
<1> QED
  BY InitIInv, <1>1, PTL DEF Spec

(* get_n never leaves the points and nodes of its ring (ring.rs 185-192). *)
THEOREM WalkTypeOK == Spec => []TypeOK
<1>1. IInv => TypeOK
  BY DEF IInv
<1> QED
  BY WalkInvariant, <1>1, PTL

(* On every ring, the result of get_n is a preference list: distinct       *)
(* nodes, in the order a clockwise walk first meets them, the node of      *)
(* `get` first (ring.rs 168-195).                                          *)
THEOREM WalkPreferenceOrder == Spec => []PreferenceOrder
<1>1. IInv => PreferenceOrder
  BY DEF IInv
<1> QED
  BY WalkInvariant, <1>1, PTL

(* A call of get_n that has returned gave n nodes, or every node of the    *)
(* ring when it has fewer (ring.rs 185).                                   *)
THEOREM WalkComplete == Spec => []CompleteWhenDone
<1>1. IInv => CompleteWhenDone
  BY DEF IInv
<1> QED
  BY WalkInvariant, <1>1, PTL
====
