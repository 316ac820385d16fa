--------------------------- MODULE BoundedRingProofs ---------------------------
(***************************************************************************)
(* BoundedRing for any number of threads, requests and nodes, any ring and *)
(* any load factor: the counters are exact, get never settles for a node   *)
(* that is not healthy, it fails only if none is, and the whole implements *)
(* Admission.  Of threads that only call get, on a ring whose health does  *)
(* not change, how far they can take a node over the bound.                *)
(*                                                                         *)
(* None of the invariants is inductive alone.  HandsInv says that a request*)
(* is in the hands of one worker at most and holds no node meanwhile; it   *)
(* makes a request count once.  ScanInv is what the fallback knows half    *)
(* way: if it has chosen, the choice is healthy, and if not, no node       *)
(* behind it is.  The loads are below best_load's initial value because    *)
(* Accounting bounds them by the number of requests.                       *)
(*                                                                         *)
(* The bound on the overshoot needs more.  Room is what the cap would be   *)
(* with every addition done; it only grows, and no cap is above it.  A     *)
(* worker claims a node when it has settled for it, or chosen it half way  *)
(* through a scan.  ClaimInv bounds the load of a node plus its claims by  *)
(* the number of workers above the room, or above any load that its        *)
(* scanning claimants have read there: that much is needed since scans go  *)
(* on while others raise the load, and it suffices since a scan ends with  *)
(* a load below the mean (LowIsRoom), if the factor is at least 1.         *)
(*                                                                         *)
(* Then BoundedGetN, for any number of threads as well.  Each step of      *)
(* get_n is a step of BoundedRing or leaves it alone, except the release   *)
(* of a node that was not counted; so the invariant of BoundedRing holds   *)
(* until the first of those, and HandsInv always.  And a call knows, half  *)
(* way through its tail, that every node behind it that was up throughout  *)
(* is in the result or among those to append (TailFits).                   *)
(***************************************************************************)
EXTENDS BoundedGetN, RingLookupProofs, FiniteSetTheorems, SequenceTheorems

Reading == {"probing", "scanning", "adding", "counting"}

(* A request is in the hands of one worker at most; a worker with none is  *)
(* idle, or releases a node that was not counted (in BoundedGetN).         *)
HandsInv ==
  /\ \A w \in Workers : pc[w] = "idle" => job[w] = None
  /\ \A w \in Workers : job[w] = None => pc[w] \in {"idle", "dropping"}
  /\ \A w \in Workers : job[w] # None => held[job[w]] = None
  /\ \A w, v \in Workers : job[w] = job[v] /\ job[w] # None => w = v
  /\ \A w \in Workers : pc[w] \in Reading => job[w] \in Routed
  /\ \A w \in Workers : pc[w] = "acquiring" => job[w] \in Manual
  /\ \A w \in Workers : pc[w] \in {"adding", "counting", "acquiring"} => pick[w] \in Nodes

JobInv == HandsInv /\ \A w \in Workers : job[w] = None => pc[w] = "idle"

ScanInv ==
  \A w \in Workers :
    pc[w] = "scanning" =>
         /\ at[w] <= NumNodes
         /\ IF pick[w] = None
            THEN /\ low[w] = LoadRange - 1
                 /\ \A n \in Nodes : n < at[w] => n \notin up
            ELSE pick[w] \in up \cap Nodes

IInv == TypeOK /\ JobInv /\ ScanInv /\ PickIsUp /\ Accounting

-----------------------------------------------------------------------------
LEMMA ConstantsTyped ==
  /\ NumNodes \in Nat /\ NumNodes > 0
  /\ LoadRange \in Nat /\ LoadRange > 1
  /\ None \notin Nodes /\ None \notin Requests
  /\ FactorNum \in Nat /\ FactorDen \in Nat /\ FactorDen > 0
  /\ MaxProbes \in Nat
<1>1. IsFiniteSet(Requests) /\ Cardinality(Requests) < LoadRange - 1
  BY BoundsAssumption
<1>2. Cardinality(Requests) \in Nat
  BY <1>1, FS_CardinalityType
<1> QED
  BY <1>1, <1>2, NodesAssumption, RequestsAssumption, ConfigAssumption

(* A probe always lands on a point of the ring, and the point on a node. *)
LEMMA ProbedIsNode ==
  /\ \A h \in Hashes : StartIndex(Points, h) \in 0 .. Len(Points) - 1
  /\ \A s \in 0 .. Len(Points) - 1, k \in Nat :
       PointAt(Points, (s + k) % Len(Points)).node \in Nodes
<1>1. Points \in Seq(Point) /\ Len(Points) \in Nat /\ Len(Points) > 0 /\ Sorted(Points)
  BY PointsAssumption DEF ValidPoints
<1>2. ASSUME NEW h \in Hashes PROVE StartIndex(Points, h) \in 0 .. Len(Points) - 1
  BY <1>1, LookupFindsSuccessor DEF StartsAtSuccessor
<1>3. ASSUME NEW s \in 0 .. Len(Points) - 1, NEW k \in Nat
      PROVE  PointAt(Points, (s + k) % Len(Points)).node \in Nodes
  <2> DEFINE L == Len(Points)
             j == (s + k) % L
  <2>1. L \in Nat /\ L > 0 /\ s + k \in Nat
    BY <1>1
  <2> HIDE DEF L
  <2>2. j \in 0 .. L - 1
    BY <2>1
  <2> HIDE DEF j
  <2>3. j + 1 \in 1 .. L
    BY <2>2, <2>1
  <2>4. Points[j + 1].node \in Nodes
    BY <2>3, PointsAssumption DEF L, ValidPoints, Nodes
  <2> QED
    BY <2>4 DEF PointAt, j, L
<1> QED
  BY <1>2, <1>3

(* The cap is a natural number, also on a ring with nothing up. *)
LEMMA MaxLoadIsNat == TypeOK => MaxLoad \in Nat
<1> SUFFICES ASSUME TypeOK, up # {} PROVE MaxLoad \in Nat
  BY DEF MaxLoad
<1>1. IsFiniteSet(up) /\ Cardinality(up) \in Nat
  <2>1. IsFiniteSet(Nodes)
    BY ConstantsTyped, FS_Interval DEF Nodes
  <2>2. IsFiniteSet(Nodes \cup Strangers)
    BY <2>1, FS_Union, BoundsAssumption
  <2> QED
    BY <2>2, FS_Subset, FS_CardinalityType DEF TypeOK
<1>2. Cardinality(up) # 0
  BY <1>1, FS_EmptySet
<1> DEFINE num == total * FactorNum
           den == Cardinality(up) * FactorDen
<1>3. num \in Nat
  BY ConstantsTyped DEF TypeOK
<1>4. den \in Nat /\ den > 0
  <2> DEFINE c == Cardinality(up)
  <2>1. c \in Nat /\ c > 0
    BY <1>1, <1>2
  <2> HIDE DEF c
  <2>2. c * FactorDen \in Nat /\ c * FactorDen > 0
    BY <2>1, ConstantsTyped
  <2> QED
    BY <2>2 DEF c
<1> HIDE DEF num, den
<1>5. num \div den \in Nat
  BY <1>3, <1>4
<1> QED
  BY <1>5 DEF MaxLoad, num, den

-----------------------------------------------------------------------------
LEMMA InitIInv ==
  ASSUME NEW marked \in SUBSET (Nodes \cup Strangers), InitWith(marked)
  PROVE  IInv
<1>1. TypeOK
  <2>1. 0 \in 0 .. Len(Points) - 1 /\ 0 \in 0 .. LoadRange - 1
    BY ConstantsTyped, PointsAssumption DEF ValidPoints
  <2> QED
    BY <2>1, ConstantsTyped DEF InitWith, TypeOK
<1>2. JobInv /\ ScanInv /\ PickIsUp
  BY DEF InitWith, JobInv, HandsInv, ScanInv, PickIsUp, Reading
<1>3. Accounting
  <2>1. \A n \in Nodes : CountedOn(n) = {}
    BY ConstantsTyped DEF InitWith, CountedOn
  <2>2. CountedInTotal = {}
    BY DEF InitWith, CountedInTotal
  <2> QED
    BY <2>1, <2>2, FS_EmptySet DEF InitWith, Accounting
<1> QED
  BY <1>1, <1>2, <1>3 DEF IInv

(* Leaving resets the locals of a worker. *)
LEMMA LeaveTyped ==
  ASSUME TypeOK, NEW w \in Workers, Leave(w)
  PROVE  /\ pc' \in [Workers -> {"idle", "probing", "scanning", "adding",
                                 "counting", "acquiring", "dropping"}]
         /\ job' \in [Workers -> Requests \cup {None}]
         /\ start' \in [Workers -> 0 .. Len(Points) - 1]
         /\ at' \in [Workers -> Nat]
         /\ cap' \in [Workers -> Nat]
         /\ pick' \in [Workers -> Nodes \cup {None}]
         /\ low' \in [Workers -> 0 .. LoadRange - 1]
<1>1. 0 \in 0 .. Len(Points) - 1 /\ 0 \in 0 .. LoadRange - 1
  BY ConstantsTyped, PointsAssumption DEF ValidPoints
<1> QED
  BY <1>1 DEF TypeOK, Leave

LEMMA WrapTyped ==
  \A v \in 0 .. LoadRange - 1 :
    /\ (v + 1) % LoadRange \in 0 .. LoadRange - 1
    /\ (v - 1) % LoadRange \in 0 .. LoadRange - 1
<1>1. \A v \in Int : v % LoadRange \in 0 .. LoadRange - 1
  BY ConstantsTyped
<1>2. \A v \in 0 .. LoadRange - 1 : v + 1 \in Int /\ v - 1 \in Int
  BY ConstantsTyped
<1> QED
  BY <1>1, <1>2

LEMMA TypeStep == TypeOK /\ Next => TypeOK'
<1> SUFFICES ASSUME TypeOK, Next PROVE TypeOK'
  OBVIOUS
<1> USE DEF shared
<1>0. TypeOK
  OBVIOUS
<1>1. ASSUME NEW w \in Workers, NEW r \in Routed, NEW h \in Hashes, Get(w, r, h)
      PROVE  TypeOK'
  <2>1. StartIndex(Points, h) \in 0 .. Len(Points) - 1 /\ MaxLoad \in Nat
    BY <1>0, ProbedIsNode, MaxLoadIsNat
  <2>2. r \in Requests
    BY DEF Requests
  <2> QED
    BY <1>0, <1>1, <2>1, <2>2 DEF Get, TypeOK
<1>2. ASSUME NEW w \in Workers, ProbeAccept(w) PROVE TypeOK'
  <2>1. Probed(w, at[w]) \in Nodes
    BY <1>0, ProbedIsNode DEF TypeOK, Probed
  <2> QED
    BY <1>0, <1>2, <2>1 DEF ProbeAccept, TypeOK
<1>3. ASSUME NEW w \in Workers, ProbeNext(w) PROVE TypeOK'
  BY <1>0, <1>3 DEF ProbeNext, TypeOK
<1>4. ASSUME NEW w \in Workers, FallBack(w) PROVE TypeOK'
  BY <1>0, <1>4, ConstantsTyped DEF FallBack, TypeOK
<1>5. ASSUME NEW w \in Workers, ScanBetter(w) PROVE TypeOK'
  <2>1. at[w] \in Nodes
    BY <1>0, <1>5, ConstantsTyped DEF ScanBetter, Nodes, TypeOK
  <2>2. load[at[w]] \in 0 .. LoadRange - 1
    BY <1>0, <2>1 DEF TypeOK
  <2> QED
    BY <1>0, <1>5, <2>1, <2>2 DEF ScanBetter, TypeOK
<1>6. ASSUME NEW w \in Workers, ScanNext(w) PROVE TypeOK'
  BY <1>0, <1>6 DEF ScanNext, TypeOK
<1>7. ASSUME NEW w \in Workers, ScanFound(w) PROVE TypeOK'
  BY <1>0, <1>7 DEF ScanFound, TypeOK
<1>8. ASSUME NEW w \in Workers, ScanEmpty(w) PROVE TypeOK'
  BY <1>0, <1>8, LeaveTyped DEF ScanEmpty, TypeOK
<1>9. ASSUME NEW w \in Workers, AddLoad(w) PROVE TypeOK'
  <2>1. \A n \in Nodes : (load[n] + 1) % LoadRange \in 0 .. LoadRange - 1
    BY <1>0, WrapTyped DEF TypeOK
  <2> QED
    BY <1>0, <1>9, <2>1 DEF AddLoad, TypeOK
<1>10. ASSUME NEW w \in Workers, AddTotal(w) PROVE TypeOK'
  <2>1. (total + 1) % LoadRange \in 0 .. LoadRange - 1
    BY <1>0, WrapTyped DEF TypeOK
  <2>2. held' \in [Requests -> Nodes \cup {None}]
    BY <1>0, <1>10 DEF AddTotal, TypeOK
  <2> QED
    BY <1>0, <1>10, <2>1, <2>2, LeaveTyped DEF AddTotal, TypeOK
<1>11. ASSUME NEW w \in Workers, DropTotal(w) PROVE TypeOK'
  <2>1. (total - 1) % LoadRange \in 0 .. LoadRange - 1
    BY <1>0, WrapTyped DEF TypeOK
  <2> QED
    BY <1>0, <1>11, <2>1, LeaveTyped DEF DropTotal, TypeOK
<1>12. ASSUME NEW w \in Workers, NEW r \in Manual, NEW n \in Nodes, Acquire(w, r, n)
       PROVE  TypeOK'
  <2>1. \A m \in Nodes : (load[m] + 1) % LoadRange \in 0 .. LoadRange - 1
    BY <1>0, WrapTyped DEF TypeOK
  <2>2. r \in Requests
    BY DEF Requests
  <2> QED
    BY <1>0, <1>12, <2>1, <2>2 DEF Acquire, TypeOK
<1>13. ASSUME NEW w \in Workers, NEW r \in Requests, Release(w, r) PROVE TypeOK'
  <2>1. \A m \in Nodes : (load[m] - 1) % LoadRange \in 0 .. LoadRange - 1
    BY <1>0, WrapTyped DEF TypeOK
  <2> QED
    BY <1>0, <1>13, <2>1 DEF Release, TypeOK
<1>14. ASSUME NEW id \in Nodes \cup Strangers, NEW healthy \in BOOLEAN,
              SetHealthy(id, healthy)
       PROVE  TypeOK'
  BY <1>0, <1>14 DEF SetHealthy, TypeOK
<1> QED
  BY <1>1, <1>2, <1>3, <1>4, <1>5, <1>6, <1>7, <1>8, <1>9, <1>10, <1>11, <1>12,
     <1>13, <1>14 DEF Next, GetSome, Proceed

-----------------------------------------------------------------------------
(* A worker only takes up a request that is in no other hands. *)
LEMMA HandsStep == TypeOK /\ HandsInv /\ Next => HandsInv'
<1> SUFFICES ASSUME TypeOK, HandsInv, Next PROVE HandsInv'
  OBVIOUS
<1> USE DEF shared
<1>0. TypeOK /\ HandsInv /\ None \notin Requests /\ None \notin Nodes
  BY ConstantsTyped
<1>1. ASSUME NEW w \in Workers, NEW r \in Routed, NEW h \in Hashes, Get(w, r, h)
      PROVE  HandsInv'
  BY <1>0, <1>1 DEF Get, Free, TypeOK, HandsInv, Reading, Requests
<1>2. ASSUME NEW w \in Workers,
             \/ ProbeAccept(w) \/ ProbeNext(w) \/ FallBack(w)
             \/ ScanBetter(w) \/ ScanNext(w) \/ ScanFound(w) \/ AddLoad(w)
      PROVE  HandsInv'
  <2>1. /\ UNCHANGED <<held, job>>
        /\ pc[w] \in Reading /\ pc'[w] \in Reading
        /\ \A v \in Workers : v # w => pc'[v] = pc[v] /\ pick'[v] = pick[v]
    BY <1>0, <1>2 DEF ProbeAccept, ProbeNext, FallBack, ScanBetter, ScanNext,
                      ScanFound, AddLoad, TypeOK, Reading
  <2>2. pc'[w] \in {"adding", "counting"} => pick'[w] \in Nodes
    <3>1. Probed(w, at[w]) \in Nodes
      BY <1>0, ProbedIsNode DEF TypeOK, Probed
    <3> QED
      BY <1>0, <1>2, <3>1 DEF ProbeAccept, ProbeNext, FallBack, ScanBetter, ScanNext,
                              ScanFound, AddLoad, TypeOK, HandsInv
  <2>3. pc'[w] \notin {"idle", "dropping", "acquiring"}
    BY <2>1 DEF Reading
  <2>4. job[w] \in Routed /\ job[w] # None
    BY <1>0, <2>1 DEF HandsInv, Requests
  <2> QED
    BY <1>0, <2>1, <2>2, <2>3, <2>4 DEF HandsInv
<1>3. ASSUME NEW w \in Workers, ScanEmpty(w) \/ DropTotal(w) PROVE HandsInv'
  BY ZenonT(30), <1>0, <1>3 DEF ScanEmpty, DropTotal, Leave, TypeOK, HandsInv, Reading
<1>4. ASSUME NEW w \in Workers, AddTotal(w) PROVE HandsInv'
  <2>1. /\ job'[w] = None /\ pc'[w] = "idle"
        /\ \A v \in Workers : v # w => /\ pc'[v] = pc[v] /\ job'[v] = job[v]
                                       /\ pick'[v] = pick[v]
        /\ \A r \in Requests : r # job[w] => held'[r] = held[r]
    BY <1>0, <1>4 DEF AddTotal, Leave, TypeOK
  <2>2. job[w] # None
    BY <1>0, <1>4 DEF AddTotal, HandsInv
  <2>3. ASSUME NEW v \in Workers, job'[v] # None PROVE held'[job'[v]] = None
    <3>1. v # w /\ job'[v] = job[v] /\ job[v] # job[w] /\ job[v] \in Requests
      BY <1>0, <2>1, <2>2, <2>3 DEF HandsInv, TypeOK
    <3> QED
      BY <1>0, <2>1, <3>1 DEF HandsInv
  <2> QED
    BY <1>0, <2>1, <2>3 DEF HandsInv, Reading
<1>5. ASSUME NEW w \in Workers, NEW r \in Manual, NEW n \in Nodes, Acquire(w, r, n)
      PROVE  HandsInv'
  BY <1>0, <1>5 DEF Acquire, Free, TypeOK, HandsInv, Reading, Requests
<1>6. ASSUME NEW w \in Workers, NEW r \in Requests, Release(w, r) PROVE HandsInv'
  BY <1>0, <1>6 DEF Release, Free, TypeOK, HandsInv, Reading
<1>7. ASSUME NEW id \in Nodes \cup Strangers, NEW healthy \in BOOLEAN,
             SetHealthy(id, healthy)
      PROVE  HandsInv'
  BY <1>0, <1>7 DEF SetHealthy, HandsInv
<1> QED
  BY <1>1, <1>2, <1>3, <1>4, <1>5, <1>6, <1>7 DEF Next, GetSome, Proceed

LEMMA JobStep == IInv /\ Next => JobInv'
<1> SUFFICES ASSUME IInv, Next PROVE JobInv'
  OBVIOUS
<1> USE DEF shared
<1>1. TypeOK /\ HandsInv /\ None \notin Requests
      /\ \A w \in Workers : job[w] = None => pc[w] = "idle"
  BY ConstantsTyped DEF IInv, JobInv
<1>2. ASSUME NEW v \in Workers, job'[v] = None PROVE pc'[v] = "idle"
  BY <1>1, <1>2 DEF Next, GetSome, Proceed, Get, ProbeAccept, ProbeNext, FallBack,
     ScanBetter, ScanNext, ScanFound, ScanEmpty, AddLoad, AddTotal, DropTotal, Leave,
     Acquire, Release, SetHealthy, TypeOK, HandsInv, Requests
<1> QED
  BY <1>1, <1>2, HandsStep DEF JobInv

-----------------------------------------------------------------------------
(* No load reaches the value that find_least_loaded starts from. *)
LEMMA LoadsBelowRange ==
  ASSUME Accounting, NEW n \in Nodes
  PROVE  load[n] \in Nat /\ load[n] < LoadRange - 1
<1>1. CountedOn(n) \subseteq Requests
  BY DEF CountedOn
<1>2. /\ IsFiniteSet(CountedOn(n))
      /\ Cardinality(CountedOn(n)) <= Cardinality(Requests)
  BY <1>1, BoundsAssumption, FS_Subset
<1>3. Cardinality(CountedOn(n)) \in Nat /\ Cardinality(Requests) \in Nat
  BY <1>2, BoundsAssumption, FS_CardinalityType
<1> QED
  BY <1>2, <1>3, BoundsAssumption, ConstantsTyped DEF Accounting

(* The health of the nodes stands still while a worker is inside get. *)
LEMMA PickStep == IInv /\ Next => ScanInv' /\ PickIsUp'
<1> SUFFICES ASSUME IInv, Next PROVE ScanInv' /\ PickIsUp'
  OBVIOUS
<1> USE DEF shared
<1>0. TypeOK /\ ScanInv /\ PickIsUp
  BY DEF IInv
<1>1. ASSUME NEW w \in Workers, NEW r \in Routed, NEW h \in Hashes, Get(w, r, h)
      PROVE  ScanInv' /\ PickIsUp'
  BY <1>0, <1>1 DEF Get, TypeOK, ScanInv, PickIsUp
<1>2. ASSUME NEW w \in Workers, ProbeAccept(w) PROVE ScanInv' /\ PickIsUp'
  <2>1. Probed(w, at[w]) \in Nodes
    BY <1>0, ProbedIsNode DEF TypeOK, Probed
  <2> QED
    BY <1>0, <1>2, <2>1 DEF ProbeAccept, Accepts, TypeOK, ScanInv, PickIsUp
<1>3. ASSUME NEW w \in Workers, ProbeNext(w) PROVE ScanInv' /\ PickIsUp'
  BY <1>0, <1>3 DEF ProbeNext, TypeOK, ScanInv, PickIsUp
<1>4. ASSUME NEW w \in Workers, FallBack(w) PROVE ScanInv' /\ PickIsUp'
  <2>1. 0 <= NumNodes /\ \A n \in Nodes : ~(n < 0)
    BY ConstantsTyped DEF Nodes
  <2> QED
    BY <1>0, <1>4, <2>1 DEF FallBack, TypeOK, ScanInv, PickIsUp
<1>5. ASSUME NEW w \in Workers, ScanBetter(w) PROVE ScanInv' /\ PickIsUp'
  <2>1. at[w] \in Nodes /\ at[w] # None /\ at[w] + 1 <= NumNodes
    BY <1>0, <1>5, ConstantsTyped DEF ScanBetter, Nodes, TypeOK
  <2> QED
    BY <1>0, <1>5, <2>1 DEF ScanBetter, Better, TypeOK, ScanInv, PickIsUp
<1>6. ASSUME NEW w \in Workers, ScanNext(w) PROVE ScanInv' /\ PickIsUp'
  <2>1. at[w] \in Nodes /\ at[w] + 1 <= NumNodes /\ at[w] \in Nat
    BY <1>0, <1>6, ConstantsTyped DEF ScanNext, Nodes, TypeOK
  <2>2. load[at[w]] < LoadRange - 1
    BY <2>1, LoadsBelowRange DEF IInv
  <2>3. ASSUME pick[w] = None, NEW n \in Nodes, n < at[w] + 1 PROVE n \notin up
    <3>1. CASE n = at[w]
      BY <1>0, <1>6, <2>2, <2>3, <3>1 DEF ScanNext, Better, ScanInv
    <3>2. CASE n < at[w]
      BY <1>0, <1>6, <2>3, <3>2 DEF ScanNext, ScanInv
    <3> QED
      BY <2>1, <2>3, <3>1, <3>2, ConstantsTyped DEF Nodes
  <2> QED
    BY <1>0, <1>6, <2>1, <2>3 DEF ScanNext, TypeOK, ScanInv, PickIsUp
<1>7. ASSUME NEW w \in Workers, ScanFound(w) PROVE ScanInv' /\ PickIsUp'
  BY <1>0, <1>7 DEF ScanFound, TypeOK, ScanInv, PickIsUp
<1>8. ASSUME NEW w \in Workers, ScanEmpty(w) PROVE ScanInv' /\ PickIsUp'
  BY <1>0, <1>8 DEF ScanEmpty, Leave, TypeOK, ScanInv, PickIsUp
<1>9. ASSUME NEW w \in Workers, AddLoad(w) PROVE ScanInv' /\ PickIsUp'
  BY <1>0, <1>9 DEF AddLoad, TypeOK, ScanInv, PickIsUp
<1>10. ASSUME NEW w \in Workers, AddTotal(w) PROVE ScanInv' /\ PickIsUp'
  BY <1>0, <1>10 DEF AddTotal, Leave, TypeOK, ScanInv, PickIsUp
<1>11. ASSUME NEW w \in Workers, DropTotal(w) PROVE ScanInv' /\ PickIsUp'
  BY <1>0, <1>11 DEF DropTotal, Leave, TypeOK, ScanInv, PickIsUp
<1>12. ASSUME NEW w \in Workers, NEW r \in Manual, NEW n \in Nodes, Acquire(w, r, n)
       PROVE  ScanInv' /\ PickIsUp'
  BY <1>0, <1>12 DEF Acquire, TypeOK, ScanInv, PickIsUp
<1>13. ASSUME NEW w \in Workers, NEW r \in Requests, Release(w, r)
       PROVE  ScanInv' /\ PickIsUp'
  BY <1>0, <1>13 DEF Release, TypeOK, ScanInv, PickIsUp
<1>14. ASSUME NEW id \in Nodes \cup Strangers, NEW healthy \in BOOLEAN,
              SetHealthy(id, healthy)
       PROVE  ScanInv' /\ PickIsUp'
  <2>1. \A w \in Workers : pc[w] \notin Reading
    BY <1>14 DEF SetHealthy, WriterBlocked, Readers, Reading
  <2> QED
    BY <1>0, <1>14, <2>1 DEF SetHealthy, ScanInv, PickIsUp, Reading
<1> QED
  BY <1>1, <1>2, <1>3, <1>4, <1>5, <1>6, <1>7, <1>8, <1>9, <1>10, <1>11, <1>12,
     <1>13, <1>14 DEF Next, GetSome, Proceed

-----------------------------------------------------------------------------
(* Workers between the two subtractions of a node that was not counted. *)
Uncounted == {w \in Workers : pc[w] = "dropping" /\ job[w] = None}

(* The counters follow the sets they count, modulo their range. *)
CountersFollow ==
  /\ \A n \in Nodes :
       load'[n] = (load[n] + (Cardinality(CountedOn(n)') - Cardinality(CountedOn(n))))
                    % LoadRange
  /\ total' = (total + (Cardinality(CountedInTotal') - Cardinality(CountedInTotal))
                     + (Cardinality(Uncounted') - Cardinality(Uncounted))) % LoadRange

(* Sets of requests, and of workers, have a size; one more or one fewer. *)
LEMMA RequestSets ==
  ASSUME NEW S \in SUBSET Requests
  PROVE  /\ Cardinality(S) \in Nat /\ Cardinality(S) < LoadRange - 1
         /\ \A r \in Requests : r \notin S => Cardinality(S \cup {r}) = Cardinality(S) + 1
         /\ \A r \in S : Cardinality(S \ {r}) = Cardinality(S) - 1
<1>1. IsFiniteSet(S) /\ Cardinality(S) <= Cardinality(Requests)
  BY BoundsAssumption, FS_Subset
<1>2. Cardinality(S) \in Nat /\ Cardinality(Requests) \in Nat
  BY <1>1, BoundsAssumption, FS_CardinalityType
<1>3. Cardinality(S) < LoadRange - 1
  BY <1>1, <1>2, BoundsAssumption, ConstantsTyped
<1> QED
  BY <1>1, <1>2, <1>3, FS_AddElement, FS_RemoveElement

LEMMA WorkersFinite ==
  /\ IsFiniteSet(Workers) /\ Cardinality(Workers) \in Nat
  /\ \A W \in SUBSET Workers :
       /\ IsFiniteSet(W) /\ Cardinality(W) \in Nat
       /\ Cardinality(W) <= Cardinality(Workers)
       /\ W # {} => Cardinality(W) # 0
<1>1. IsFiniteSet(Workers)
  BY BoundsAssumption
<1>2. ASSUME NEW W \in SUBSET Workers
      PROVE  /\ IsFiniteSet(W) /\ Cardinality(W) \in Nat
             /\ Cardinality(W) <= Cardinality(Workers)
             /\ W # {} => Cardinality(W) # 0
  BY <1>1, FS_Subset, FS_CardinalityType, FS_EmptySet
<1> QED
  BY <1>1, <1>2, FS_CardinalityType

(* What a counter does in a step, once and for all. *)
LEMMA CounterMoves ==
  ASSUME NEW v \in 0 .. LoadRange - 1, NEW a \in Nat, NEW b \in Nat
  PROVE  /\ a = b => (v + (a - b)) % LoadRange = v
         /\ a = b + 1 => (v + (a - b)) % LoadRange = (v + 1) % LoadRange
         /\ a = b - 1 => (v + (a - b)) % LoadRange = (v - 1) % LoadRange
<1>1. LoadRange \in Nat \ {0}
  BY ConstantsTyped
<1>2. v % LoadRange = v
  BY <1>1
<1>3. a = b => v + (a - b) = v
  BY <1>1
<1>4. a = b + 1 => v + (a - b) = v + 1
  BY <1>1
<1>5. a = b - 1 => v + (a - b) = v - 1
  BY <1>1
<1> QED
  BY <1>2, <1>3, <1>4, <1>5, Zenon

LEMMA CountersStep == TypeOK /\ HandsInv /\ Next => CountersFollow
<1> SUFFICES ASSUME TypeOK, HandsInv, Next PROVE CountersFollow
  OBVIOUS
<1> USE DEF shared
<1>0. TypeOK /\ HandsInv /\ None \notin Requests /\ None \notin Nodes
  BY ConstantsTyped
<1>a. /\ \A n \in Nodes : CountedOn(n) \in SUBSET Requests /\ CountedOn(n)' \in SUBSET Requests
      /\ CountedInTotal \in SUBSET Requests /\ CountedInTotal' \in SUBSET Requests
      /\ Uncounted \in SUBSET Workers /\ Uncounted' \in SUBSET Workers
  BY DEF CountedOn, CountedInTotal, Uncounted
<1>b. /\ \A n \in Nodes : Cardinality(CountedOn(n)) \in Nat /\ Cardinality(CountedOn(n)') \in Nat
      /\ Cardinality(CountedInTotal) \in Nat /\ Cardinality(CountedInTotal') \in Nat
      /\ Cardinality(Uncounted) \in Nat /\ Cardinality(Uncounted') \in Nat
  BY <1>a, RequestSets, WorkersFinite
<1>c. total \in 0 .. LoadRange - 1 /\ \A n \in Nodes : load[n] \in 0 .. LoadRange - 1
  BY DEF TypeOK
<1> DEFINE OnFollows(n) ==
             load'[n] = (load[n] + (Cardinality(CountedOn(n)') - Cardinality(CountedOn(n))))
                          % LoadRange
           TotalFollows ==
             total' = (total + (Cardinality(CountedInTotal') - Cardinality(CountedInTotal))
                             + (Cardinality(Uncounted') - Cardinality(Uncounted))) % LoadRange
<1>d. ASSUME NEW n \in Nodes, load'[n] = load[n], CountedOn(n)' = CountedOn(n)
      PROVE  OnFollows(n)
  BY <1>b, <1>c, <1>d, CounterMoves
<1>e. ASSUME UNCHANGED total, CountedInTotal' = CountedInTotal, Uncounted' = Uncounted
      PROVE  TotalFollows
  <2>1. PICK v \in 0 .. LoadRange - 1, c, u \in Nat :
          v = total /\ c = Cardinality(CountedInTotal) /\ u = Cardinality(Uncounted)
    BY <1>b, <1>c
  <2>2. (v + (c - c) + (u - u)) = v /\ v % LoadRange = v
    BY ConstantsTyped
  <2> QED
    BY <1>e, <2>1, <2>2
<1>1. ASSUME UNCHANGED <<load, total>>,
             \A n \in Nodes : CountedOn(n)' = CountedOn(n),
             CountedInTotal' = CountedInTotal, Uncounted' = Uncounted
      PROVE  CountersFollow
  BY <1>1, <1>d, <1>e DEF CountersFollow
<1>2. ASSUME NEW w \in Workers, NEW r \in Routed, NEW h \in Hashes, Get(w, r, h)
      PROVE  CountersFollow
  <2>1. \A n \in Nodes : CountedOn(n)' = CountedOn(n)
    BY <1>0, <1>2 DEF Get, TypeOK, HandsInv, CountedOn
  <2>2. CountedInTotal' = CountedInTotal /\ Uncounted' = Uncounted
    BY <1>0, <1>2 DEF Get, TypeOK, HandsInv, CountedInTotal, Uncounted, Requests
  <2> QED
    BY <1>1, <1>2, <2>1, <2>2 DEF Get
<1>3. ASSUME NEW w \in Workers,
             \/ ProbeAccept(w) \/ ProbeNext(w) \/ FallBack(w)
             \/ ScanBetter(w) \/ ScanNext(w) \/ ScanFound(w)
      PROVE  CountersFollow
  <2>1. /\ UNCHANGED <<load, total, held, job>>
        /\ pc[w] \in {"probing", "scanning"}
        /\ pc'[w] \in {"probing", "scanning", "adding"}
        /\ \A v \in Workers : v # w => pc'[v] = pc[v] /\ pick'[v] = pick[v]
    BY <1>0, <1>3 DEF ProbeAccept, ProbeNext, FallBack, ScanBetter, ScanNext,
                      ScanFound, TypeOK
  <2>2. \A n \in Nodes : CountedOn(n)' = CountedOn(n)
    BY <2>1 DEF CountedOn
  <2>3. CountedInTotal' = CountedInTotal /\ Uncounted' = Uncounted
    BY <2>1 DEF CountedInTotal, Uncounted
  <2> QED
    BY <1>1, <2>1, <2>2, <2>3
<1>4. ASSUME NEW w \in Workers, ScanEmpty(w) PROVE CountersFollow
  <2>1. \A n \in Nodes : CountedOn(n)' = CountedOn(n)
    BY <1>0, <1>4 DEF ScanEmpty, Leave, TypeOK, CountedOn
  <2>2. CountedInTotal' = CountedInTotal /\ Uncounted' = Uncounted
    BY <1>0, <1>4 DEF ScanEmpty, Leave, TypeOK, CountedInTotal, Uncounted
  <2> QED
    BY <1>1, <1>4, <2>1, <2>2 DEF ScanEmpty
<1>5. ASSUME NEW w \in Workers, NEW r \in Requests, NEW n \in Nodes,
             r \notin CountedOn(n),
             load' = [load EXCEPT ![n] = (@ + 1) % LoadRange], UNCHANGED total,
             \A m \in Nodes : CountedOn(m)' = IF m = n THEN CountedOn(n) \cup {r}
                                                       ELSE CountedOn(m),
             CountedInTotal' = CountedInTotal, Uncounted' = Uncounted
      PROVE  CountersFollow
  <2>1. OnFollows(n)
    <3>1. Cardinality(CountedOn(n)') = Cardinality(CountedOn(n)) + 1
      BY <1>5, <1>a, RequestSets
    <3>2. load'[n] = (load[n] + 1) % LoadRange
      BY <1>5 DEF TypeOK
    <3> QED
      BY <1>b, <1>c, <3>1, <3>2, CounterMoves
  <2>2. ASSUME NEW m \in Nodes, m # n PROVE OnFollows(m)
    BY <1>5, <1>d, <2>2 DEF TypeOK
  <2> HIDE DEF OnFollows, TotalFollows
  <2>3. TotalFollows /\ \A m \in Nodes : OnFollows(m)
    BY <1>5, <1>e, <2>1, <2>2
  <2> QED
    BY <2>3 DEF CountersFollow, OnFollows, TotalFollows
<1>6. ASSUME NEW w \in Workers, AddLoad(w) PROVE CountersFollow
  <2> DEFINE r == job[w]
             n == pick[w]
  <2>1. n \in Nodes /\ r \in Requests /\ held[r] = None
    BY <1>0, <1>6 DEF AddLoad, HandsInv, Reading, Requests
  <2>2. \A v \in Workers : job[v] = r => v = w
    BY <1>0, <2>1 DEF HandsInv
  <2>3. r \notin CountedOn(n)
    BY <1>0, <1>6, <2>1, <2>2 DEF CountedOn, AddLoad
  <2>4. \A m \in Nodes : CountedOn(m)' = IF m = n THEN CountedOn(n) \cup {r}
                                                  ELSE CountedOn(m)
    BY <1>0, <1>6, <2>1 DEF CountedOn, AddLoad, TypeOK
  <2>5. CountedInTotal' = CountedInTotal /\ Uncounted' = Uncounted
    BY <1>0, <1>6 DEF CountedInTotal, Uncounted, AddLoad, TypeOK
  <2> QED
    BY <1>5, <1>6, <2>1, <2>3, <2>4, <2>5 DEF AddLoad
<1>7. ASSUME NEW w \in Workers, NEW r \in Manual, NEW n \in Nodes, Acquire(w, r, n)
      PROVE  CountersFollow
  <2>1. r \in Requests /\ held[r] = None /\ \A v \in Workers : job[v] # r
    BY <1>7 DEF Acquire, Free, Requests
  <2>2. r \notin CountedOn(n)
    BY <1>0, <2>1 DEF CountedOn
  <2>3. \A m \in Nodes : CountedOn(m)' = IF m = n THEN CountedOn(n) \cup {r}
                                                  ELSE CountedOn(m)
    BY <1>0, <1>7, <2>1 DEF CountedOn, Acquire, TypeOK
  <2>4. CountedInTotal' = CountedInTotal /\ Uncounted' = Uncounted
    BY <1>0, <1>7, <2>1 DEF CountedInTotal, Uncounted, Acquire, TypeOK
  <2> QED
    BY <1>5, <1>7, <2>1, <2>2, <2>3, <2>4 DEF Acquire
<1>8. ASSUME NEW w \in Workers, AddTotal(w) PROVE CountersFollow
  <2> DEFINE r == job[w]
             n == pick[w]
  <2>1. n \in Nodes /\ r \in Requests /\ held[r] = None
    BY <1>0, <1>8 DEF AddTotal, HandsInv, Reading, Requests
  <2>2. \A v \in Workers : job[v] = r => v = w
    BY <1>0, <2>1 DEF HandsInv
  <2>3. /\ job'[w] = None /\ pc'[w] = "idle"
        /\ \A v \in Workers : v # w => /\ pc'[v] = pc[v] /\ job'[v] = job[v]
                                       /\ pick'[v] = pick[v]
        /\ held'[r] = n /\ \A q \in Requests : q # r => held'[q] = held[q]
    BY <1>0, <1>8, <2>1 DEF AddTotal, Leave, TypeOK
  <2>4. \A m \in Nodes : CountedOn(m)' = CountedOn(m)
    BY <1>0, <1>8, <2>1, <2>2, <2>3 DEF CountedOn, AddTotal
  <2>5. r \notin CountedInTotal
    BY <1>8, <2>1, <2>2 DEF CountedInTotal, AddTotal
  <2>6. CountedInTotal' = CountedInTotal \cup {r}
    BY <1>0, <1>8, <2>1, <2>2, <2>3 DEF CountedInTotal, AddTotal
  <2>7. Uncounted' = Uncounted
    BY <1>8, <2>3 DEF Uncounted, AddTotal
  <2>8. Cardinality(CountedInTotal') = Cardinality(CountedInTotal) + 1
    BY <1>a, <2>1, <2>5, <2>6, RequestSets
  <2>9. TotalFollows
    <3>1. PICK c, u \in Nat : c = Cardinality(CountedInTotal) /\ u = Cardinality(Uncounted)
      BY <1>b
    <3>2. total + ((c + 1) - c) + (u - u) = total + 1
      BY <1>c
    <3> QED
      BY <1>8, <2>7, <2>8, <3>1, <3>2 DEF AddTotal
  <2> HIDE DEF TotalFollows
  <2>10. \A m \in Nodes : OnFollows(m)
    BY <1>8, <1>d, <2>4 DEF AddTotal
  <2> QED
    BY <2>9, <2>10 DEF CountersFollow, TotalFollows
<1>9. ASSUME NEW w \in Workers, NEW r \in Requests, Release(w, r) PROVE CountersFollow
  <2>1. PICK n \in Nodes : n = held[r] /\ \A v \in Workers : job[v] # r
    BY <1>0, <1>9 DEF Release, Free, TypeOK
  <2>2. /\ job'[w] = r /\ pc'[w] = "dropping" /\ pc[w] = "idle" /\ job[w] = None
        /\ \A v \in Workers : v # w => /\ pc'[v] = pc[v] /\ job'[v] = job[v]
        /\ pick' = pick
        /\ held'[r] = None /\ \A q \in Requests : q # r => held'[q] = held[q]
    BY <1>0, <1>9 DEF Release, TypeOK, HandsInv
  <2>3. r \in CountedOn(n) /\ \A m \in Nodes : m # n => r \notin CountedOn(m)
    BY <2>1 DEF CountedOn
  <2>4. \A m \in Nodes : CountedOn(m)' = IF m = n THEN CountedOn(n) \ {r}
                                                  ELSE CountedOn(m)
    BY <1>0, <2>1, <2>2, <2>3 DEF CountedOn
  <2>5. CountedInTotal' = CountedInTotal
    BY <1>0, <2>1, <2>2 DEF CountedInTotal
  <2>6. Uncounted' = Uncounted
    BY <1>0, <2>2 DEF Uncounted
  <2>7. OnFollows(n)
    <3>1. Cardinality(CountedOn(n)') = Cardinality(CountedOn(n)) - 1
      BY <1>a, <2>1, <2>3, <2>4, RequestSets
    <3>2. load'[n] = (load[n] - 1) % LoadRange
      BY <1>9, <2>1 DEF Release, TypeOK
    <3> QED
      BY <1>b, <1>c, <2>1, <3>1, <3>2, CounterMoves
  <2>8. ASSUME NEW m \in Nodes, m # n PROVE OnFollows(m)
    BY <1>9, <2>1, <1>d, <2>4, <2>8 DEF TypeOK, Release
  <2> HIDE DEF OnFollows, TotalFollows
  <2>9. TotalFollows /\ \A m \in Nodes : OnFollows(m)
    BY <1>9, <1>e, <2>5, <2>6, <2>7, <2>8 DEF Release
  <2> QED
    BY <2>9 DEF CountersFollow, OnFollows, TotalFollows
<1>10. ASSUME NEW w \in Workers, DropTotal(w) PROVE CountersFollow
  <2> DEFINE r == job[w]
  <2>1. /\ job'[w] = None /\ pc'[w] = "idle" /\ pc[w] = "dropping"
        /\ \A v \in Workers : v # w => /\ pc'[v] = pc[v] /\ job'[v] = job[v]
                                       /\ pick'[v] = pick[v]
        /\ held' = held /\ load' = load /\ total' = (total - 1) % LoadRange
    BY <1>0, <1>10 DEF DropTotal, Leave, TypeOK
  <2>2. \A m \in Nodes : CountedOn(m)' = CountedOn(m)
    BY <1>0, <2>1 DEF CountedOn
  <2>3. PICK c, u \in Nat : c = Cardinality(CountedInTotal) /\ u = Cardinality(Uncounted)
    BY <1>b
  <2>4. /\ total + ((c - 1) - c) + (u - u) = total - 1
        /\ total + (c - c) + ((u - 1) - u) = total - 1
    BY <1>c
  <2>5. TotalFollows
    <3>1. CASE r # None
      <4>1. r \in Requests /\ held[r] = None
        BY <1>0, <3>1 DEF HandsInv, TypeOK
      <4>2. \A v \in Workers : job[v] = r => v = w
        BY <1>0, <4>1 DEF HandsInv
      <4>3. r \in CountedInTotal
        BY <2>1, <4>1 DEF CountedInTotal
      <4>4. CountedInTotal' = CountedInTotal \ {r}
        BY <1>0, <2>1, <4>1, <4>2 DEF CountedInTotal
      <4>5. Uncounted' = Uncounted
        BY <2>1, <3>1 DEF Uncounted
      <4>6. Cardinality(CountedInTotal') = c - 1
        BY <1>a, <2>3, <4>3, <4>4, RequestSets
      <4> QED
        BY <2>1, <2>3, <2>4, <4>5, <4>6
    <3>2. CASE r = None
      <4>1. CountedInTotal' = CountedInTotal
        BY <1>0, <2>1, <3>2 DEF CountedInTotal
      <4>2. Uncounted' = Uncounted \ {w} /\ w \in Uncounted
        BY <2>1, <3>2 DEF Uncounted
      <4>3. Cardinality(Uncounted') = u - 1
        BY <1>a, <2>3, <4>2, WorkersFinite, FS_RemoveElement
      <4> QED
        BY <2>1, <2>3, <2>4, <4>1, <4>3
    <3> QED
      BY <3>1, <3>2
  <2> HIDE DEF TotalFollows
  <2>6. \A m \in Nodes : OnFollows(m)
    BY <1>d, <2>1, <2>2
  <2> QED
    BY <2>5, <2>6 DEF CountersFollow, TotalFollows
<1>11. ASSUME NEW id \in Nodes \cup Strangers, NEW healthy \in BOOLEAN,
              SetHealthy(id, healthy)
       PROVE  CountersFollow
  <2>1. /\ \A n \in Nodes : CountedOn(n)' = CountedOn(n)
        /\ CountedInTotal' = CountedInTotal /\ Uncounted' = Uncounted
    BY <1>11 DEF SetHealthy, CountedOn, CountedInTotal, Uncounted
  <2> QED
    BY <1>1, <1>11, <2>1 DEF SetHealthy
<1> QED
  BY <1>2, <1>3, <1>4, <1>6, <1>7, <1>8, <1>9, <1>10, <1>11
  DEF Next, GetSome, Proceed

(* Counters that are exact stay so, as no set outgrows their range. *)
LEMMA AccountingStep == IInv /\ Next => Accounting'
<1> SUFFICES ASSUME IInv, Next PROVE Accounting'
  OBVIOUS
<1>1. CountersFollow
  BY CountersStep DEF IInv, JobInv
<1>2. Uncounted = {} /\ Uncounted' = {}
  BY JobStep DEF IInv, JobInv, Uncounted
<1>3. \A c, d \in Nat : d < LoadRange - 1 => (c + (d - c)) % LoadRange = d
  <2> SUFFICES ASSUME NEW c \in Nat, NEW d \in Nat, d < LoadRange - 1
               PROVE  (c + (d - c)) % LoadRange = d
    OBVIOUS
  <2>1. c + (d - c) = d /\ d % LoadRange = d
    BY ConstantsTyped
  <2> QED
    BY <2>1, Zenon
<1>4. ASSUME NEW n \in Nodes PROVE load'[n] = Cardinality(CountedOn(n)')
  <2>1. CountedOn(n) \in SUBSET Requests /\ CountedOn(n)' \in SUBSET Requests
    BY DEF CountedOn
  <2>2. PICK c, d \in Nat : /\ c = Cardinality(CountedOn(n)) /\ d = Cardinality(CountedOn(n)')
                            /\ d < LoadRange - 1
    BY <2>1, RequestSets
  <2>3. load'[n] = (c + (d - c)) % LoadRange
    BY <1>1, <2>2 DEF CountersFollow, IInv, Accounting
  <2> QED
    BY <1>3, <2>2, <2>3
<1>5. total' = Cardinality(CountedInTotal')
  <2>1. CountedInTotal \in SUBSET Requests /\ CountedInTotal' \in SUBSET Requests
    BY DEF CountedInTotal
  <2>2. PICK c, d \in Nat : /\ c = Cardinality(CountedInTotal)
                            /\ d = Cardinality(CountedInTotal') /\ d < LoadRange - 1
    BY <2>1, RequestSets
  <2>3. total' = (c + (d - c) + (0 - 0)) % LoadRange
    BY <1>1, <1>2, <2>2, FS_EmptySet DEF CountersFollow, IInv, Accounting
  <2>4. c + (d - c) + (0 - 0) = c + (d - c)
    OBVIOUS
  <2> QED
    BY <1>3, <2>2, <2>3, <2>4
<1> QED
  BY <1>4, <1>5 DEF Accounting

-----------------------------------------------------------------------------
LEMMA StutterIInv == IInv /\ UNCHANGED vars => IInv'
<1> SUFFICES ASSUME IInv, UNCHANGED vars PROVE IInv'
  OBVIOUS
<1>1. TypeOK' /\ JobInv' /\ ScanInv' /\ PickIsUp'
  BY DEF vars, IInv, TypeOK, JobInv, HandsInv, ScanInv, PickIsUp
<1>2. Accounting'
  BY DEF vars, IInv, Accounting, CountedOn, CountedInTotal
<1> QED
  BY <1>1, <1>2 DEF IInv

(* The strengthened invariant holds in every reachable state. *)
THEOREM BoundedInvariant == Spec => []IInv
<1>1. Init => IInv
  BY InitIInv DEF Init
<1>2. IInv /\ [Next]_vars => IInv'
  BY StutterIInv, TypeStep, JobStep, PickStep, AccountingStep DEF IInv
<1> QED
  BY <1>1, <1>2, PTL DEF Spec

(* Type correctness for every instance. *)
THEOREM BoundedTypeOK == Spec => []TypeOK
<1>1. IInv => TypeOK
  BY DEF IInv
<1> QED
  BY BoundedInvariant, <1>1, PTL

(* However many threads call get, acquire and release, every request in    *)
(* flight is counted exactly once in the load of its node and once in the  *)
(* total, and no counter ever wraps (bounded.rs 59-71).                    *)
THEOREM BoundedAccounting == Spec => []Accounting
<1>1. IInv => Accounting
  BY DEF IInv
<1> QED
  BY BoundedInvariant, <1>1, PTL

(* From the moment get settles for a node until it returns, the node is    *)
(* healthy, for every interleaving with set_healthy (bounded.rs 140-168).  *)
THEOREM BoundedPickIsUp == Spec => []PickIsUp
<1>1. IInv => PickIsUp
  BY DEF IInv
<1> QED
  BY BoundedInvariant, <1>1, PTL

(* The fallback comes back empty only from a ring with no healthy node,    *)
(* whatever happens to the loads while it scans (bounded.rs 208-225).      *)
THEOREM BoundedFailsOnlyWhenAllDown == Spec => []FailsOnlyWhenAllDown
<1>1. IInv => FailsOnlyWhenAllDown
  <2> SUFFICES ASSUME IInv, NEW w \in Workers, pc[w] = "scanning",
                      at[w] = NumNodes, pick[w] = None, NEW n \in up \cap Nodes
               PROVE  FALSE
    BY DEF FailsOnlyWhenAllDown
  <2>1. n < at[w]
    BY ConstantsTyped DEF Nodes
  <2> QED
    BY <2>1 DEF IInv, ScanInv
<1> QED
  BY BoundedInvariant, <1>1, PTL

-----------------------------------------------------------------------------
(* Counted, without the choice of the worker. *)
LEMMA CountedIs ==
  ASSUME IInv, NEW r \in Requests
  PROVE  /\ \A w \in Workers : job[w] = r /\ pc[w] \in {"counting", "acquiring"}
              => Counted[r] = pick[w]
         /\ (\A w \in Workers : job[w] = r => pc[w] \notin {"counting", "acquiring"})
              => Counted[r] = held[r]
<1>1. ASSUME NEW w \in Workers, job[w] = r, pc[w] \in {"counting", "acquiring"}
      PROVE  Counted[r] = pick[w]
  <2>1. \A v \in Workers : job[v] = r => v = w
    BY <1>1, ConstantsTyped DEF IInv, JobInv, HandsInv
  <2>2. (CHOOSE v \in Workers : job[v] = r) = w
    BY <1>1, <2>1
  <2> QED
    BY <1>1, <2>2 DEF Counted
<1>2. ASSUME \A w \in Workers : job[w] = r => pc[w] \notin {"counting", "acquiring"}
      PROVE  Counted[r] = held[r]
  BY <1>2 DEF Counted
<1> QED
  BY <1>1, <1>2

(* Every load is one that can be raised and lowered without wrapping. *)
LEMMA NoWrap ==
  ASSUME IInv, NEW n \in Nodes
  PROVE  /\ (load[n] + 1) % LoadRange = load[n] + 1
         /\ load[n] > 0 => (load[n] - 1) % LoadRange = load[n] - 1
<1>1. load[n] \in Nat /\ load[n] < LoadRange - 1
  BY LoadsBelowRange DEF IInv
<1> QED
  BY <1>1, ConstantsTyped

(* Steps that leave what is counted alone are invisible above. *)
LEMMA SilentSteps ==
  ASSUME IInv, NEW w \in Workers,
         \/ ProbeAccept(w) \/ ProbeNext(w) \/ FallBack(w) \/ ScanBetter(w)
         \/ ScanNext(w) \/ ScanFound(w) \/ ScanEmpty(w) \/ DropTotal(w)
  PROVE  UNCHANGED <<load, up, Counted>>
<1> USE DEF shared
<1>0. TypeOK
  BY DEF IInv
<1>1. /\ UNCHANGED <<load, up, held>>
      /\ pc[w] \notin {"counting", "acquiring"}
      /\ pc'[w] \notin {"counting", "acquiring"}
      /\ \A v \in Workers : v # w => /\ pc'[v] = pc[v] /\ job'[v] = job[v]
                                     /\ pick'[v] = pick[v]
  BY <1>0 DEF ProbeAccept, ProbeNext, FallBack, ScanBetter, ScanNext, ScanFound,
              ScanEmpty, DropTotal, Leave, TypeOK
<1>2. IInv'
  BY TypeStep, JobStep, PickStep, AccountingStep DEF IInv, Next, Proceed
<1>3. ASSUME NEW r \in Requests PROVE Counted'[r] = Counted[r]
  <2>1. CASE \E v \in Workers : job[v] = r /\ pc[v] \in {"counting", "acquiring"}
    <3>1. PICK v \in Workers : job[v] = r /\ pc[v] \in {"counting", "acquiring"}
      BY <2>1
    <3>2. v # w /\ job'[v] = r /\ pc'[v] \in {"counting", "acquiring"}
          /\ pick'[v] = pick[v]
      BY <1>1, <3>1
    <3>3. Counted[r] = pick[v]
      BY <3>1, CountedIs
    <3>4. Counted'[r] = pick'[v]
      <4>1. \A u \in Workers : job'[u] = r => u = v
        BY <1>2, <3>2, ConstantsTyped DEF IInv, JobInv, HandsInv
      <4>2. (CHOOSE u \in Workers : job'[u] = r) = v
        BY <3>2, <4>1
      <4> QED
        BY <3>2, <4>2 DEF Counted
    <3> QED
      BY <3>2, <3>3, <3>4
  <2>2. CASE \A v \in Workers : job[v] = r => pc[v] \notin {"counting", "acquiring"}
    <3>1. Counted[r] = held[r]
      BY <2>2, CountedIs
    <3>2. \A v \in Workers : job'[v] = r => pc'[v] \notin {"counting", "acquiring"}
      BY <1>1, <2>2
    <3>3. Counted'[r] = held'[r]
      BY <3>2 DEF Counted
    <3> QED
      BY <1>1, <3>1, <3>3
  <2> QED
    BY <2>1, <2>2
<1>4. Counted' = [r \in Requests |-> Counted'[r]] /\ Counted = [r \in Requests |-> Counted[r]]
  BY DEF Counted
<1> QED
  BY <1>1, <1>3, <1>4

(* A step that changes what one request counts on, seen from above. *)
LEMMA CountedChanges ==
  ASSUME NEW r \in Requests, NEW value,
         Counted'[r] = value,
         \A q \in Requests : q # r => Counted'[q] = Counted[q]
  PROVE  Counted' = [Counted EXCEPT ![r] = value]
<1>1. Counted' = [q \in Requests |-> Counted'[q]] /\ Counted = [q \in Requests |-> Counted[q]]
  BY DEF Counted
<1> QED
  BY <1>1

(* What no step of worker w on request r can change: the other requests.   *)
LEMMA OthersKeepCounting ==
  ASSUME IInv, NEW w \in Workers, NEW r \in Requests,
         job[w] \in {r, None}, job'[w] \in {r, None},
         \A v \in Workers : v # w => /\ pc'[v] = pc[v] /\ job'[v] = job[v]
                                     /\ pick'[v] = pick[v],
         \A q \in Requests : q # r => held'[q] = held[q]
  PROVE  \A q \in Requests : q # r => Counted'[q] = Counted[q]
<1> SUFFICES ASSUME NEW q \in Requests, q # r PROVE Counted'[q] = Counted[q]
  OBVIOUS
<1>1. \A v \in Workers : job'[v] = q <=> job[v] = q
  BY ConstantsTyped
<1>2. \A v \in Workers : job[v] = q => pc'[v] = pc[v] /\ pick'[v] = pick[v]
  BY ConstantsTyped
<1>3. CASE \E v \in Workers : job[v] = q /\ pc[v] \in {"counting", "acquiring"}
  <2>1. PICK v \in Workers : job[v] = q /\ pc[v] \in {"counting", "acquiring"}
    BY <1>3
  <2>2. \A u \in Workers : job[u] = q => u = v
    BY <2>1, ConstantsTyped DEF IInv, JobInv, HandsInv
  <2>3. (CHOOSE u \in Workers : job[u] = q) = v /\ (CHOOSE u \in Workers : job'[u] = q) = v
    BY <1>1, <2>1, <2>2
  <2> QED
    BY <1>1, <1>2, <2>1, <2>3 DEF Counted
<1>4. CASE \A v \in Workers : job[v] = q => pc[v] \notin {"counting", "acquiring"}
  <2>1. \A v \in Workers : job'[v] = q => pc'[v] \notin {"counting", "acquiring"}
    BY <1>1, <1>2, <1>4
  <2> QED
    BY <1>4, <2>1 DEF Counted
<1> QED
  BY <1>3, <1>4

(* get and acquire count a request with the addition to the load.          *)
LEMMA CountingStep ==
  ASSUME IInv, NEW w \in Workers, NEW r \in Requests, NEW n \in Nodes,
         \A v \in Workers : v # w => job[v] # r,
         held[r] = None, pc[w] \notin {"counting", "acquiring"},
         job[w] \in {r, None},
         job'[w] = r, pick'[w] = n, pc'[w] \in {"counting", "acquiring"},
         UNCHANGED <<held, up>>,
         \A v \in Workers : v # w => /\ pc'[v] = pc[v] /\ job'[v] = job[v]
                                     /\ pick'[v] = pick[v],
         load' = [load EXCEPT ![n] = (@ + 1) % LoadRange]
  PROVE  Abstract!Count(r, n)
<1>1. \A q \in Requests : q # r => Counted'[q] = Counted[q]
  BY OthersKeepCounting
<1>2. Counted[r] = None
  BY DEF Counted
<1>3. (CHOOSE u \in Workers : job'[u] = r) = w
  OBVIOUS
<1>4. Counted'[r] = n
  BY <1>3 DEF Counted
<1>5. Counted' = [Counted EXCEPT ![r] = n]
  BY <1>1, <1>4, CountedChanges
<1>6. load' = [load EXCEPT ![n] = @ + 1]
  BY NoWrap
<1> QED
  BY <1>2, <1>5, <1>6 DEF Abstract!Count

LEMMA InitImplements == Init => Abstract!Init
<1> SUFFICES ASSUME Init PROVE Abstract!Init
  OBVIOUS
<1>1. Counted = [r \in Requests |-> None]
  BY DEF Init, InitWith, Counted
<1> QED
  BY <1>1 DEF Init, InitWith, Abstract!Init, Abstract!Requests, Requests

LEMMA StepImplements == IInv /\ [Next]_vars => [Abstract!Next]_(Abstract!vars)
<1> SUFFICES ASSUME IInv, [Next]_vars PROVE Abstract!Next \/ UNCHANGED Abstract!vars
  BY DEF Abstract!vars
<1> USE DEF shared
<1>0. TypeOK /\ JobInv /\ ScanInv /\ PickIsUp /\ None \notin Requests /\ None \notin Nodes
  BY ConstantsTyped DEF IInv
<1>1. ASSUME NEW w \in Workers, NEW r \in Routed, NEW h \in Hashes, Get(w, r, h)
      PROVE  UNCHANGED Abstract!vars
  <2>1. r \in Requests /\ \A v \in Workers : job[v] # r
    BY <1>1 DEF Get, Free, Requests
  <2>2. \A q \in Requests : q # r => Counted'[q] = Counted[q]
    BY <1>0, <1>1, <2>1, OthersKeepCounting DEF Get, JobInv, HandsInv, TypeOK
  <2>3. Counted[r] = held[r]
    BY <2>1 DEF Counted
  <2>4. \A v \in Workers : job'[v] = r => pc'[v] = "probing"
    BY <1>0, <1>1, <2>1 DEF Get, TypeOK
  <2>5. Counted'[r] = held'[r]
    BY <2>4, <2>1 DEF Counted
  <2>6. Counted' = [q \in Requests |-> Counted'[q]] /\ Counted = [q \in Requests |-> Counted[q]]
    BY DEF Counted
  <2> QED
    BY <1>1, <2>2, <2>3, <2>5, <2>6 DEF Get, Abstract!vars
<1>2. ASSUME NEW w \in Workers,
             \/ ProbeAccept(w) \/ ProbeNext(w) \/ FallBack(w) \/ ScanBetter(w)
             \/ ScanNext(w) \/ ScanFound(w) \/ ScanEmpty(w) \/ DropTotal(w)
      PROVE  UNCHANGED Abstract!vars
  BY <1>2, SilentSteps DEF Abstract!vars
<1>3. ASSUME NEW w \in Workers, AddLoad(w) PROVE Abstract!Next
  <2> DEFINE r == job[w]
             n == pick[w]
  <2>1. n \in Nodes /\ n \in up /\ r \in Routed /\ r \in Requests /\ held[r] = None
    BY <1>0, <1>3 DEF AddLoad, PickIsUp, JobInv, HandsInv, Reading, Requests
  <2>2. \A v \in Workers : v # w => job[v] # r
    BY <1>0, <2>1 DEF JobInv, HandsInv
  <2>3. Abstract!Count(r, n)
    BY ZenonT(30), <1>0, <1>3, <2>1, <2>2, CountingStep DEF AddLoad, TypeOK
  <2>4. Abstract!Admit(r, n)
    BY <2>1, <2>3 DEF Abstract!Admit
  <2> QED
    BY <2>1, <2>4 DEF Abstract!Next
<1>4. ASSUME NEW w \in Workers, NEW r \in Manual, NEW n \in Nodes, Acquire(w, r, n)
      PROVE  Abstract!Next
  <2>1. r \in Requests
    BY DEF Requests
  <2>2. /\ \A v \in Workers : v # w => job[v] # r
        /\ held[r] = None /\ pc[w] \notin {"counting", "acquiring"}
        /\ job[w] \in {r, None}
    BY <1>0, <1>4 DEF Acquire, Free, JobInv, HandsInv
  <2>3. /\ job'[w] = r /\ pick'[w] = n /\ pc'[w] = "acquiring"
        /\ \A v \in Workers : v # w => /\ pc'[v] = pc[v] /\ job'[v] = job[v]
                                       /\ pick'[v] = pick[v]
    BY <1>0, <1>4 DEF Acquire, TypeOK
  <2>4. /\ UNCHANGED <<held, up>>
        /\ load' = [load EXCEPT ![n] = (@ + 1) % LoadRange]
    BY <1>4 DEF Acquire
  <2>5. Abstract!Count(r, n)
    BY <2>1, <2>2, <2>3, <2>4, CountingStep
  <2> QED
    BY <2>5 DEF Abstract!Next
<1>5. ASSUME NEW w \in Workers, AddTotal(w) PROVE UNCHANGED Abstract!vars
  <2> DEFINE r == job[w]
             n == pick[w]
  <2>1. n \in Nodes /\ r \in Requests /\ held[r] = None
    BY <1>0, <1>5 DEF AddTotal, PickIsUp, ScanInv, JobInv, HandsInv, Reading, Requests
  <2>2. \A v \in Workers : job[v] = r => v = w
    BY <1>0, <2>1 DEF JobInv, HandsInv
  <2>3. /\ job'[w] = None
        /\ \A v \in Workers : v # w => /\ pc'[v] = pc[v] /\ job'[v] = job[v]
                                       /\ pick'[v] = pick[v]
        /\ held'[r] = n /\ \A q \in Requests : q # r => held'[q] = held[q]
    BY <1>0, <1>5, <2>1 DEF AddTotal, Leave, TypeOK
  <2>4. \A q \in Requests : q # r => Counted'[q] = Counted[q]
    BY <2>1, <2>3, OthersKeepCounting
  <2>5. Counted[r] = n
    <3>1. job[w] = r /\ pc[w] \in {"counting", "acquiring"}
      BY <1>5 DEF AddTotal
    <3> HIDE DEF r, n
    <3>2. Counted[r] = pick[w]
      BY <2>1, <3>1, CountedIs
    <3> QED
      BY <3>2 DEF n
  <2>6. \A v \in Workers : job'[v] # r
    BY <1>0, <2>1, <2>2, <2>3
  <2>7. Counted'[r] = n
    BY <2>1, <2>3, <2>6 DEF Counted
  <2>8. Counted' = [q \in Requests |-> Counted'[q]] /\ Counted = [q \in Requests |-> Counted[q]]
    BY DEF Counted
  <2> QED
    BY <1>5, <2>4, <2>5, <2>7, <2>8 DEF AddTotal, Abstract!vars
<1>6. ASSUME NEW w \in Workers, NEW r \in Requests, Release(w, r) PROVE Abstract!Next
  <2> DEFINE n == held[r]
  <2>1. n \in Nodes /\ n # None /\ \A v \in Workers : job[v] # r
    BY <1>0, <1>6 DEF Release, Free, TypeOK
  <2>2. /\ job'[w] = r /\ pc'[w] = "dropping" /\ job[w] = None
        /\ \A v \in Workers : v # w => /\ pc'[v] = pc[v] /\ job'[v] = job[v]
                                       /\ pick'[v] = pick[v]
        /\ held'[r] = None /\ \A q \in Requests : q # r => held'[q] = held[q]
    BY <1>0, <1>6 DEF Release, TypeOK, JobInv, HandsInv
  <2>3. \A q \in Requests : q # r => Counted'[q] = Counted[q]
    BY <2>2, OthersKeepCounting
  <2>4. Counted[r] = n
    BY <2>1 DEF Counted
  <2>5. \A v \in Workers : job'[v] = r => v = w
    BY <2>1, <2>2
  <2>6. Counted'[r] = None
    BY <2>2, <2>5 DEF Counted
  <2>7. Counted' = [Counted EXCEPT ![r] = None]
    BY <2>3, <2>6, CountedChanges
  <2>8. load[n] > 0
    <3>1. r \in CountedOn(n)
      BY <2>1 DEF CountedOn
    <3>2. CountedOn(n) \subseteq Requests
      BY DEF CountedOn
    <3>3. IsFiniteSet(CountedOn(n)) /\ CountedOn(n) # {}
      BY <3>1, <3>2, BoundsAssumption, FS_Subset
    <3>4. load[n] \in Nat /\ load[n] # 0
      BY <2>1, <3>3, FS_CardinalityType, FS_EmptySet DEF IInv, Accounting
    <3> QED
      BY <3>4
  <2>9. load' = [load EXCEPT ![n] = @ - 1]
    BY <1>6, <2>1, <2>8, NoWrap DEF Release
  <2>10. Abstract!Finish(r)
    BY <1>6, <2>1, <2>4, <2>7, <2>9 DEF Release, Abstract!Finish
  <2> QED
    BY <2>10 DEF Abstract!Next, Abstract!Requests, Requests
<1>7. ASSUME NEW id \in Nodes \cup Strangers, NEW healthy \in BOOLEAN,
             SetHealthy(id, healthy)
      PROVE  Abstract!Next
  <2>1. Counted' = Counted
    BY <1>7 DEF SetHealthy, Counted
  <2>2. Abstract!Mark(id, healthy)
    BY <1>7, <2>1 DEF SetHealthy, Abstract!Mark
  <2> QED
    BY <2>2 DEF Abstract!Next
<1>8. ASSUME UNCHANGED vars PROVE UNCHANGED Abstract!vars
  BY <1>8 DEF vars, Abstract!vars, Counted
<1> QED
  BY <1>1, <1>2, <1>3, <1>4, <1>5, <1>6, <1>7, <1>8 DEF Next, GetSome, Proceed

(* Seen through its loads, BoundedRing is Admission: probes, stale caps    *)
(* and half-finished calls are invisible, each request starts to count at  *)
(* one instant, at which a node that get chose is healthy, and stops at    *)
(* one instant.                                                            *)
THEOREM BoundedImplementsAdmission == Spec => ImplementsAdmission
<1>1. Spec => Abstract!Init /\ [][Abstract!Next]_(Abstract!vars)
  BY InitImplements, StepImplements, BoundedInvariant, PTL DEF Spec
<1> QED
  BY <1>1 DEF ImplementsAdmission, Abstract!Spec

-----------------------------------------------------------------------------
(* Quotients. *)
LEMMA RoomGrows ==
  ASSUME NEW N \in Nat \ {0}, NEW h \in Nat \ {0}, NEW s \in Nat
  PROVE  /\ (N * s) \div h \in Nat /\ (N * (s + 1)) \div h \in Nat
         /\ (N * s + h - 1) \div h \in Nat /\ (N * (s + 1) + h - 1) \div h \in Nat
         /\ (N * s) \div h <= (N * (s + 1)) \div h
         /\ (N * s) \div h + 1 <= (N * (s + 1) + h - 1) \div h
         /\ (N * s + h - 1) \div h <= (N * (s + 1) + h - 1) \div h
<1>1. PICK a \in Nat, b \in Nat : a = N * s /\ b = N * (s + 1) /\ b = a + N
  <2>1. N * s \in Nat /\ N * (s + 1) \in Nat /\ N * (s + 1) = N * s + N
    OBVIOUS
  <2> QED
    BY <2>1
<1>2. a + h - 1 \in Nat /\ b + h - 1 \in Nat
  OBVIOUS
<1>3. PICK x, y, v, z \in Nat : /\ x = a \div h /\ y = b \div h
                            /\ v = (a + h - 1) \div h /\ z = (b + h - 1) \div h
  BY <1>2, QuotientIs
<1>4. x * h <= a /\ v * h <= a + h - 1
  BY <1>2, <1>3, QuotientIs
<1>5. (x + 1) * h = x * h + h /\ x * h \in Nat
  OBVIOUS
<1>6. x * h <= b /\ (x + 1) * h <= b + h - 1 /\ v * h <= b + h - 1
  <2>1. v * h \in Nat
    OBVIOUS
  <2> QED
    BY <1>1, <1>4, <1>5, <2>1
<1>7. x <= y /\ x + 1 <= z /\ v <= z
  <2>1. x <= y
    BY <1>3, <1>6, QuotientIs
  <2>2. PICK e \in Nat : e = b + h - 1
    BY <1>2
  <2>3. e \div h = z
    BY <1>3, <2>2, Zenon
  <2>4. x + 1 <= z
    BY <1>6, <2>2, <2>3, QuotientIs
  <2>5. v <= z
    BY <1>6, <2>2, <2>3, QuotientIs
  <2> QED
    BY <2>1, <2>4, <2>5
<1>8. /\ (N * s) \div h = x /\ (N * (s + 1)) \div h = y
      /\ (N * s + h - 1) \div h = v /\ (N * (s + 1) + h - 1) \div h = z
  BY <1>1, <1>3, Zenon
<1> QED
  BY <1>7, <1>8, Zenon

LEMMA CapWithinRoom ==
  ASSUME NEW N \in Nat, NEW D \in Nat \ {0}, NEW c \in Nat \ {0}, NEW u \in Nat, c <= u,
         NEW s \in Nat, NEW t \in Nat, t <= s
  PROVE  (t * N) \div (u * D) <= (N * s) \div (D * c)
<1>1. PICK k \in Nat, g \in Nat, h \in Nat \ {0} : k = u - c /\ g = k * D /\ h = D * c
  <2>1. ASSUME NEW k \in Nat PROVE k * D \in Nat
    OBVIOUS
  <2>2. D * c \in Nat /\ D * c # 0
    OBVIOUS
  <2> QED
    BY <2>1, <2>2
<1>2. u * D = h + g
  <2>1. u = c + k
    BY <1>1
  <2>2. (c + k) * D = D * c + k * D
    OBVIOUS
  <2> QED
    BY <1>1, <2>1, <2>2
<1>3. PICK a \in Nat, b \in Nat : a = t * N /\ b = N * s /\ a <= b
  <2>1. t * N \in Nat /\ N * s \in Nat /\ (s - t) * N >= 0
    OBVIOUS
  <2>2. N * s = t * N + (s - t) * N
    OBVIOUS
  <2> QED
    BY <2>1, <2>2
<1>4. PICK f \in Nat \ {0} : f = h + g
  OBVIOUS
<1>5. PICK x \in Nat : x = a \div f
  BY QuotientIs
<1>6. x * f <= a
  BY <1>5, QuotientIs
<1>7. x * h <= x * f
  <2>1. x * f = x * h + x * g /\ x * g \in Nat /\ x * h \in Nat
    BY <1>4
  <2> QED
    BY <2>1
<1>8. x * h <= b
  <2>1. x * h \in Nat /\ x * f \in Nat
    OBVIOUS
  <2> QED
    BY <1>3, <1>6, <1>7, <2>1
<1>9. x <= b \div h
  BY <1>8, QuotientIs
<1> QED
  BY <1>1, <1>2, <1>3, <1>4, <1>5, <1>9

LEMMA LeastWithinRoom ==
  ASSUME NEW N \in Nat, NEW D \in Nat \ {0}, D <= N, NEW c \in Nat \ {0},
         NEW s \in Nat, NEW l \in Nat, c * l <= s
  PROVE  l <= (N * s) \div (D * c)
<1>1. PICK m \in Nat, h \in Nat \ {0} : m = c * l /\ h = D * c
  <2>1. c * l \in Nat /\ D * c \in Nat /\ D * c # 0
    OBVIOUS
  <2> QED
    BY <2>1
<1>2. l * h = D * m
  BY <1>1
<1>3. D * m <= N * s
  <2>1. D * m + D * (s - m) + (N - D) * s = N * s
    OBVIOUS
  <2>2. D * (s - m) >= 0
    BY <1>1
  <2>3. (N - D) * s >= 0
    OBVIOUS
  <2>4. D * m \in Int /\ D * (s - m) \in Int /\ (N - D) * s \in Int /\ N * s \in Nat
    OBVIOUS
  <2> QED
    BY <2>1, <2>2, <2>3, <2>4
<1>4. N * s \in Nat
  OBVIOUS
<1>5. l <= (N * s) \div h
  BY <1>2, <1>3, <1>4, QuotientIs
<1> QED
  BY <1>1, <1>5

-----------------------------------------------------------------------------
(* Only get, on a ring whose health does not change. *)
UpNodes == up \cap Nodes

LoadSum == SumOver(load, Nodes)

Healthy == FactorDen * Cardinality(UpNodes)

(* max_load_factor times the mean, rounded down: no cap is higher. *)
Room == (FactorNum * LoadSum) \div Healthy

Counting == {w \in Workers : pc[w] = "counting"}

(* The workers that will raise the load of n, and those that may, as they  *)
(* read a load of at most y there.                                         *)
Claims(n, y) ==
  {w \in Workers : /\ pick[w] = n
                   /\ pc[w] = "adding" \/ (pc[w] = "scanning" /\ low[w] <= y)}

OnlyGets ==
  /\ \A w \in Workers : pc[w] \notin {"acquiring", "dropping"}
  /\ total + Cardinality(Counting) = LoadSum
  /\ UpNodes = {} => \A n \in Nodes : load[n] = 0

CapInv == UpNodes # {} => \A w \in Workers : pc[w] = "probing" => cap[w] <= Room

LowInv ==
  \A w \in Workers : pc[w] = "scanning" =>
    \A n \in UpNodes : n < at[w] => low[w] <= load[n]

ClaimInv ==
  UpNodes # {} =>
    \A n \in Nodes, y \in Nat :
      Room <= y /\ Claims(n, y) # {}
        => load[n] + Cardinality(Claims(n, y)) <= y + Cardinality(Workers)

AdmitInv ==
  /\ FactorDen <= FactorNum
  /\ IInv /\ OnlyGets /\ CapInv /\ LowInv /\ ClaimInv /\ OvershootIsBounded

-----------------------------------------------------------------------------
LEMMA NodesFinite ==
  /\ IsFiniteSet(Nodes) /\ Nodes \subseteq Nat
  /\ IsFiniteSet(UpNodes) /\ UpNodes \in SUBSET Nodes
  /\ Cardinality(UpNodes) \in Nat
  /\ UpNodes # {} => Cardinality(UpNodes) # 0
<1>1. IsFiniteSet(Nodes) /\ Nodes \subseteq Nat
  BY ConstantsTyped, FS_Interval DEF Nodes
<1>2. IsFiniteSet(UpNodes) /\ UpNodes \in SUBSET Nodes
  BY <1>1, FS_Subset DEF UpNodes
<1> QED
  BY <1>1, <1>2, FS_CardinalityType, FS_EmptySet

LEMMA HealthyPositive == UpNodes # {} => Healthy \in Nat \ {0}
<1> SUFFICES ASSUME UpNodes # {} PROVE Healthy \in Nat \ {0}
  OBVIOUS
<1>1. PICK c \in Nat \ {0} : c = Cardinality(UpNodes)
  BY NodesFinite
<1>2. FactorDen * c \in Nat \ {0}
  BY ConstantsTyped
<1> QED
  BY <1>1, <1>2 DEF Healthy

LEMMA LoadSumIsNat == TypeOK => LoadSum \in Nat
<1> SUFFICES ASSUME TypeOK PROVE LoadSum \in Nat
  OBVIOUS
<1>1. \A n \in Nodes : load[n] \in Nat
  BY ConstantsTyped DEF TypeOK
<1>2. {} \in SUBSET Nodes /\ \A n \in {} : 0 <= load[n]
  OBVIOUS
<1>3. 0 \in Nat
  OBVIOUS
<1>4. LoadSum \in Nat
  BY <1>1, <1>2, <1>3, NodesFinite, SumAtLeast DEF LoadSum
<1> QED
  BY <1>4

(* One load changes, and so does the sum. *)
LEMMA LoadSumMoves ==
  ASSUME TypeOK, NEW n \in Nodes
  PROVE  /\ load' = [load EXCEPT ![n] = load[n] + 1] => LoadSum' = LoadSum + 1
         /\ load' = [load EXCEPT ![n] = load[n] - 1] => LoadSum' = LoadSum - 1
<1>1. PICK f, h : f = load /\ h = load'
  OBVIOUS
<1>2. LoadSum' = SumOver(h, Nodes) /\ LoadSum = SumOver(f, Nodes)
  BY <1>1 DEF LoadSum, SumOver, MapThenSumSet, MapThenFoldSet
<1>3. \A m \in Nodes : f[m] \in Int
  BY <1>1, ConstantsTyped DEF TypeOK
<1>4. ASSUME NEW d \in Int, h[n] = f[n] + d, \A m \in Nodes : m # n => h[m] = f[m]
      PROVE  SumOver(f, Nodes) \in Int /\ SumOver(h, Nodes) = SumOver(f, Nodes) + d
  BY <1>3, <1>4, NodesFinite, SumChanges
<1>5. ASSUME load' = [load EXCEPT ![n] = load[n] + 1] PROVE LoadSum' = LoadSum + 1
  <2>1. PICK d \in Int : d = 1
    OBVIOUS
  <2>2. h[n] = f[n] + d /\ \A m \in Nodes : m # n => h[m] = f[m]
    BY <1>1, <1>5, <2>1 DEF TypeOK
  <2> QED
    BY <1>2, <1>4, <2>1, <2>2
<1>6. ASSUME load' = [load EXCEPT ![n] = load[n] - 1] PROVE LoadSum' = LoadSum - 1
  <2>1. PICK d \in Int : d = -1
    OBVIOUS
  <2>2. f[n] - 1 = f[n] + d
    BY <1>3, <2>1
  <2>3. h[n] = f[n] + d /\ \A m \in Nodes : m # n => h[m] = f[m]
    BY <1>1, <1>6, <2>2 DEF TypeOK
  <2>4. SumOver(f, Nodes) \in Int /\ SumOver(h, Nodes) = SumOver(f, Nodes) + d
    BY <1>4, <2>3
  <2> QED
    BY <1>2, <2>1, <2>4
<1> QED
  BY <1>5, <1>6

LEMMA RoomIsNat == TypeOK /\ UpNodes # {} => Room \in Nat
<1> SUFFICES ASSUME TypeOK, UpNodes # {} PROVE Room \in Nat
  OBVIOUS
<1>1. PICK a \in Nat : a = FactorNum * LoadSum
  <2>1. PICK s \in Nat : s = LoadSum
    BY LoadSumIsNat
  <2>2. FactorNum * s \in Nat
    BY ConstantsTyped
  <2> QED
    BY <2>1, <2>2
<1>2. PICK h \in Nat \ {0} : h = Healthy
  BY HealthyPositive
<1>3. a \div h \in Nat
  BY QuotientIs
<1> QED
  BY <1>1, <1>2, <1>3 DEF Room

(* One addition to one load: the sum grows, and so does the room. *)
LEMMA RoomAfterAdd ==
  ASSUME TypeOK, UpNodes # {}, FactorNum # 0, UNCHANGED up, LoadSum' = LoadSum + 1
  PROVE  /\ Room <= Room' /\ Room' \in Nat /\ Room \in Nat
         /\ BoundOn(LoadSum) \in Nat /\ BoundOn(LoadSum)' \in Nat
         /\ BoundOn(LoadSum) <= BoundOn(LoadSum)'
         /\ Room + 1 <= BoundOn(LoadSum)'
<1>1. PICK s \in Nat : s = LoadSum /\ s + 1 = LoadSum'
  BY LoadSumIsNat
<1>2. PICK h \in Nat \ {0} : h = Healthy
  BY HealthyPositive
<1>3. Healthy' = h /\ UpNodes' = UpNodes
  BY <1>2 DEF Healthy, UpNodes
<1>4. PICK N \in Nat \ {0} : N = FactorNum
  BY ConstantsTyped
<1>5. Room = (N * s) \div h /\ Room' = (N * (s + 1)) \div h
  BY <1>1, <1>2, <1>3, <1>4 DEF Room
<1>6. /\ BoundOn(LoadSum) = (N * s + h - 1) \div h
      /\ BoundOn(LoadSum)' = (N * (s + 1) + h - 1) \div h
  BY <1>1, <1>2, <1>3, <1>4 DEF BoundOn, Healthy, UpNodes
<1> QED
  BY <1>5, <1>6, RoomGrows

(* A step that touches neither loads nor health. *)
LEMMA Untouched ==
  ASSUME UNCHANGED <<load, up>>
  PROVE  /\ LoadSum' = LoadSum /\ UpNodes' = UpNodes /\ Room' = Room
         /\ OvershootIsBounded => OvershootIsBounded'
<1>1. LoadSum' = LoadSum
  BY DEF LoadSum, SumOver, MapThenSumSet, MapThenFoldSet
<1>2. UpNodes' = UpNodes
  BY DEF UpNodes
<1>3. Room' = Room
  BY <1>1, <1>2 DEF Room, Healthy
<1>4. OvershootIsBounded <=>
        \A n \in Nodes : load[n] > 0 => load[n] <= BoundOn(LoadSum) + Cardinality(Workers) - 1
  BY DEF OvershootIsBounded, LoadSum, SumOver
<1>5. OvershootIsBounded' <=>
        \A n \in Nodes : load'[n] > 0 => load'[n] <= BoundOn(LoadSum)' + Cardinality(Workers) - 1
  BY DEF OvershootIsBounded, LoadSum, SumOver
<1>6. BoundOn(LoadSum)' = BoundOn(LoadSum)
  BY <1>1 DEF BoundOn
<1> QED
  BY <1>1, <1>2, <1>3, <1>4, <1>5, <1>6

(* Fewer claims are no problem. *)
LEMMA FewerClaims ==
  ASSUME TypeOK, NEW n \in Nodes, NEW y \in Nat, NEW C \in SUBSET Claims(n, y), C # {},
         UpNodes # {}, Room <= y, ClaimInv
  PROVE  load[n] + Cardinality(C) <= y + Cardinality(Workers)
<1>1. Claims(n, y) \in SUBSET Workers /\ C \in SUBSET Workers /\ Claims(n, y) # {}
  BY DEF Claims
<1>2. load[n] + Cardinality(Claims(n, y)) <= y + Cardinality(Workers)
  BY <1>1 DEF ClaimInv
<1>3. Cardinality(C) <= Cardinality(Claims(n, y))
  BY <1>1, WorkersFinite, FS_Subset
<1>4. load[n] \in Nat
  BY ConstantsTyped DEF TypeOK
<1> QED
  BY <1>1, <1>2, <1>3, <1>4, WorkersFinite

(* A worker that reads a load within reach may claim its node. *)
LEMMA ClaimsWithinReach ==
  ASSUME TypeOK, NEW n \in Nodes, NEW y \in Nat, NEW C \in SUBSET Workers, load[n] <= y
  PROVE  load[n] + Cardinality(C) <= y + Cardinality(Workers)
<1>1. load[n] \in Nat
  BY ConstantsTyped DEF TypeOK
<1> QED
  BY <1>1, WorkersFinite

(* Steps in which nobody new goes for a node. *)
LEMMA NoNewClaims ==
  ASSUME TypeOK, ClaimInv, UNCHANGED <<load, up>>,
         \A n \in Nodes, y \in Nat : Claims(n, y)' \subseteq Claims(n, y)
  PROVE  ClaimInv'
<1>1. Room' = Room /\ UpNodes' = UpNodes
  BY Untouched
<1> SUFFICES ASSUME UpNodes # {}, NEW n \in Nodes, NEW y \in Nat, Room <= y,
                    Claims(n, y)' # {}
             PROVE  load'[n] + Cardinality(Claims(n, y)') <= y + Cardinality(Workers)
  BY <1>1 DEF ClaimInv
<1> QED
  BY FewerClaims

LEMMA AdmitInitially == 
  ASSUME NEW marked \in SUBSET (Nodes \cup Strangers), InitWith(marked)
  PROVE  OnlyGets /\ CapInv /\ LowInv /\ ClaimInv /\ OvershootIsBounded
<1>1. LoadSum = 0
  BY NodesFinite, SumOfZeros DEF InitWith, LoadSum
<1>2. Counting = {} /\ total = 0
  BY DEF InitWith, Counting
<1>3. OnlyGets
  BY <1>1, <1>2, FS_EmptySet DEF InitWith, OnlyGets
<1>4. \A n \in Nodes, y \in Nat : Claims(n, y) = {}
  BY DEF InitWith, Claims
<1> QED
  BY <1>3, <1>4 DEF InitWith, CapInv, LowInv, ClaimInv, OvershootIsBounded

(* The total is exact up to the workers between the two additions. *)
LEMMA TotalBelowRange ==
  ASSUME IInv
  PROVE  (total + 1) % LoadRange = total + 1 /\ total \in Nat
<1>1. CountedInTotal \subseteq Requests
  BY DEF CountedInTotal
<1>2. /\ IsFiniteSet(CountedInTotal)
      /\ Cardinality(CountedInTotal) <= Cardinality(Requests)
  BY <1>1, BoundsAssumption, FS_Subset
<1>3. Cardinality(CountedInTotal) \in Nat /\ Cardinality(Requests) \in Nat
  BY <1>2, BoundsAssumption, FS_CardinalityType
<1>4. total \in Nat /\ total < LoadRange - 1
  BY <1>2, <1>3, BoundsAssumption, ConstantsTyped DEF IInv, Accounting
<1> QED
  BY <1>4, ConstantsTyped

(* A step of w inside get that counts nothing. *)
LEMMA QuietGets ==
  ASSUME OnlyGets, TypeOK, NEW w \in Workers, UNCHANGED <<load, up, total>>,
         pc[w] # "counting",
         pc'[w] \in {"idle", "probing", "scanning", "adding"},
         \A v \in Workers : v # w => pc'[v] = pc[v]
  PROVE  OnlyGets'
<1>1. Counting' = Counting
  BY DEF Counting
<1>2. LoadSum' = LoadSum /\ UpNodes' = UpNodes
  BY Untouched
<1> QED
  BY <1>1, <1>2 DEF OnlyGets

LEMMA OnlyGetsStep ==
  ASSUME IInv, OnlyGets, AdmitNext
  PROVE  OnlyGets'
<1> USE DEF shared
<1>0. TypeOK /\ PickIsUp
  BY DEF IInv
<1>1. PICK w \in Workers : GetSome(w) \/ Proceed(w)
  BY DEF AdmitNext
<1>2. CASE \E r \in Routed, h \in Hashes : Get(w, r, h)
  BY <1>0, <1>2, QuietGets DEF Get, TypeOK
<1>3. CASE \/ ProbeAccept(w) \/ ProbeNext(w) \/ FallBack(w)
           \/ ScanBetter(w) \/ ScanNext(w) \/ ScanFound(w) \/ ScanEmpty(w)
  <2>1. /\ UNCHANGED <<load, up, total>> /\ pc[w] # "counting"
        /\ pc'[w] \in {"idle", "probing", "scanning", "adding"}
        /\ \A v \in Workers : v # w => pc'[v] = pc[v]
    BY <1>0, <1>3 DEF ProbeAccept, ProbeNext, FallBack, ScanBetter, ScanNext,
                      ScanFound, ScanEmpty, Leave, TypeOK
  <2> QED
    BY <1>0, <2>1, QuietGets
<1>4. CASE AddLoad(w)
  <2>1. pick[w] \in UpNodes /\ pick[w] \in Nodes
    BY <1>0, <1>4 DEF AddLoad, PickIsUp, UpNodes
  <2>2. load' = [load EXCEPT ![pick[w]] = @ + 1] /\ UNCHANGED <<total, up>>
    BY <1>4, <2>1, NoWrap DEF AddLoad
  <2>4. LoadSum' = LoadSum + 1
    BY <1>0, <2>1, <2>2, LoadSumMoves
  <2>5. Counting' = Counting \cup {w} /\ w \notin Counting /\ Counting \in SUBSET Workers
    BY <1>0, <1>4 DEF AddLoad, Counting, TypeOK
  <2>6. Cardinality(Counting') = Cardinality(Counting) + 1 /\ Cardinality(Counting) \in Nat
    BY <2>5, WorkersFinite, FS_AddElement
  <2>7. UpNodes' # {}
    BY <2>1, <2>2 DEF UpNodes
  <2>8. \A v \in Workers : pc'[v] \notin {"acquiring", "dropping"}
    BY <1>0, <1>4 DEF AddLoad, OnlyGets, TypeOK
  <2>9. total' + Cardinality(Counting') = LoadSum'
    BY <2>2, <2>4, <2>6, <1>0, ConstantsTyped, LoadSumIsNat DEF OnlyGets, TypeOK
  <2> QED
    BY <2>7, <2>8, <2>9 DEF OnlyGets
<1>5. CASE AddTotal(w)
  <2>1. pc[w] = "counting" /\ pc' = [pc EXCEPT ![w] = "idle"] /\ UNCHANGED <<load, up>>
    BY <1>5 DEF AddTotal, Leave, OnlyGets
  <2>2. total' = total + 1 /\ total \in Nat
    BY <1>5, TotalBelowRange DEF AddTotal
  <2>3. Counting' = Counting \ {w} /\ w \in Counting /\ Counting \in SUBSET Workers
    BY <1>0, <2>1 DEF Counting, TypeOK
  <2>4. Cardinality(Counting') = Cardinality(Counting) - 1 /\ Cardinality(Counting) \in Nat
    BY <2>3, WorkersFinite, FS_RemoveElement
  <2>5. LoadSum' = LoadSum /\ UpNodes' = UpNodes
    BY <2>1, Untouched
  <2>6. total' + Cardinality(Counting') = LoadSum'
    BY <2>2, <2>4, <2>5 DEF OnlyGets
  <2>7. \A v \in Workers : pc'[v] \notin {"acquiring", "dropping"}
    BY <1>0, <2>1 DEF OnlyGets, TypeOK
  <2> QED
    BY <2>1, <2>5, <2>6, <2>7 DEF OnlyGets
<1>6. CASE DropTotal(w)
  BY <1>6 DEF DropTotal, OnlyGets
<1> QED
  BY <1>1, <1>2, <1>3, <1>4, <1>5, <1>6 DEF GetSome, Proceed

(* A cap, when it is computed, is within the room: the total is behind. *)
LEMMA CapIsRoom ==
  ASSUME TypeOK, total <= LoadSum, UpNodes # {}
  PROVE  MaxLoad <= Room
<1>1. PICK s \in Nat : s = LoadSum
  BY LoadSumIsNat
<1>2. PICK t \in Nat : t = total
  BY ConstantsTyped DEF TypeOK
<1>3. t <= s
  BY <1>1, <1>2
<1>4. PICK c \in Nat \ {0} : c = Cardinality(UpNodes)
  BY NodesFinite
<1>5. PICK u \in Nat : u = Cardinality(up) /\ c <= u
  <2>1. IsFiniteSet(Nodes \cup Strangers)
    BY NodesFinite, FS_Union, BoundsAssumption
  <2>2. IsFiniteSet(up)
    BY <2>1, FS_Subset DEF TypeOK
  <2>3. UpNodes \in SUBSET up
    BY DEF UpNodes
  <2> QED
    BY <1>4, <2>2, <2>3, FS_Subset, FS_CardinalityType
<1>6. PICK N \in Nat, D \in Nat \ {0} : N = FactorNum /\ D = FactorDen
  BY ConstantsTyped
<1>7. (t * N) \div (u * D) <= (N * s) \div (D * c)
  BY <1>3, <1>5, CapWithinRoom
<1>8. up # {}
  BY DEF UpNodes
<1> QED
  BY <1>1, <1>2, <1>4, <1>5, <1>6, <1>7, <1>8 DEF MaxLoad, Room, Healthy

(* The fallback ends with a load that is below the mean. *)
LEMMA LowIsRoom ==
  ASSUME TypeOK, UpNodes # {}, FactorDen <= FactorNum,
         NEW w \in Workers, \A n \in UpNodes : low[w] <= load[n]
  PROVE  low[w] <= Room
<1>1. PICK l \in Nat : l = low[w]
  BY ConstantsTyped DEF TypeOK
<1>2. \A n \in UpNodes : l <= load[n]
  BY <1>1
<1>3. PICK c \in Nat \ {0} : c = Cardinality(UpNodes)
  BY NodesFinite
<1>4. PICK f : f = load
  OBVIOUS
<1>5. PICK s \in Nat : s = LoadSum /\ c * l <= s
  <2>1. \A n \in Nodes : f[n] \in Nat
    BY <1>4, ConstantsTyped DEF TypeOK
  <2>2. UpNodes \in SUBSET Nodes
    BY NodesFinite
  <2>3. SumOver(f, Nodes) \in Nat /\ Cardinality(UpNodes) * l <= SumOver(f, Nodes)
    BY <1>2, <1>4, <2>1, <2>2, NodesFinite, SumAtLeast
  <2>4. SumOver(f, Nodes) = LoadSum
    BY <1>4 DEF LoadSum
  <2> QED
    BY <1>3, <2>3, <2>4
<1>6. PICK N \in Nat, D \in Nat \ {0} : N = FactorNum /\ D = FactorDen
  BY ConstantsTyped
<1>7. D <= N
  BY <1>6
<1>8. l <= (N * s) \div (D * c)
  BY <1>5, <1>7, LeastWithinRoom
<1> QED
  BY <1>1, <1>3, <1>5, <1>6, <1>8 DEF Room, Healthy

(* What AddLoad does to the sum and the room. *)
LEMMA AddLoadStep ==
  ASSUME AdmitInv, NEW w \in Workers, AddLoad(w)
  PROVE  /\ pick[w] \in Nodes /\ pick[w] \in UpNodes
         /\ UpNodes' = UpNodes /\ UNCHANGED up
         /\ load' = [load EXCEPT ![pick[w]] = @ + 1]
         /\ LoadSum' = LoadSum + 1
         /\ Room \in Nat /\ Room' \in Nat /\ Room <= Room'
         /\ BoundOn(LoadSum) \in Nat /\ BoundOn(LoadSum)' \in Nat
         /\ BoundOn(LoadSum) <= BoundOn(LoadSum)'
         /\ Room + 1 <= BoundOn(LoadSum)'
<1>0. TypeOK /\ PickIsUp
  BY DEF IInv, AdmitInv
<1>1. pick[w] \in UpNodes /\ pick[w] \in Nodes
  BY <1>0 DEF AddLoad, PickIsUp, UpNodes
<1>2. load' = [load EXCEPT ![pick[w]] = @ + 1] /\ UNCHANGED up
  BY <1>1, NoWrap DEF AddLoad, AdmitInv
<1>3. UpNodes' = UpNodes
  BY <1>2 DEF UpNodes
<1>4. LoadSum' = LoadSum + 1
  BY <1>0, <1>1, <1>2, LoadSumMoves
<1>5. FactorNum # 0 /\ UpNodes # {}
  BY <1>1, ConstantsTyped DEF AdmitInv
<1> QED
  BY <1>0, <1>1, <1>2, <1>3, <1>4, <1>5, RoomAfterAdd

LEMMA CapStep ==
  ASSUME AdmitInv, AdmitNext
  PROVE  CapInv'
<1> USE DEF shared
<1>0. IInv /\ TypeOK /\ OnlyGets /\ CapInv
  BY DEF IInv, AdmitInv
<1>1. PICK w \in Workers : GetSome(w) \/ Proceed(w)
  BY DEF AdmitNext
<1>2. CASE \E r \in Routed, h \in Hashes : Get(w, r, h)
  <2>1. UNCHANGED <<load, up>>
    BY <1>2 DEF Get
  <2>2. Room' = Room /\ UpNodes' = UpNodes
    BY <2>1, Untouched
  <2>3. UpNodes # {} => MaxLoad <= Room
    <3>1. PICK k \in Nat : k = Cardinality(Counting)
      BY WorkersFinite DEF Counting
    <3>2. total \in Nat /\ total + k = LoadSum
      BY <1>0, <3>1, ConstantsTyped DEF OnlyGets, TypeOK
    <3>3. total <= LoadSum
      BY <1>0, <3>2, LoadSumIsNat
    <3> QED
      BY <1>0, <3>3, CapIsRoom
  <2>4. /\ cap' = [cap EXCEPT ![w] = MaxLoad]
        /\ pc' = [pc EXCEPT ![w] = "probing"]
    BY <1>2 DEF Get
  <2> QED
    BY <1>0, <2>2, <2>3, <2>4 DEF CapInv, TypeOK
<1>3. CASE \/ ProbeAccept(w) \/ ProbeNext(w) \/ FallBack(w) \/ AddTotal(w)
           \/ ScanBetter(w) \/ ScanNext(w) \/ ScanFound(w) \/ ScanEmpty(w)
  <2>1. /\ UNCHANGED <<load, up>>
        /\ \A v \in Workers : pc'[v] = "probing" => cap'[v] = cap[v] /\ pc[v] = "probing"
    BY <1>0, <1>3 DEF ProbeAccept, ProbeNext, FallBack, ScanBetter, ScanNext, AddTotal,
                      ScanFound, ScanEmpty, Leave, TypeOK
  <2>2. Room' = Room /\ UpNodes' = UpNodes
    BY <2>1, Untouched
  <2> QED
    BY <1>0, <2>1, <2>2 DEF CapInv
<1>4. CASE AddLoad(w)
  <2>1. \A v \in Workers : pc'[v] = "probing" => cap'[v] = cap[v] /\ pc[v] = "probing"
    BY <1>0, <1>4 DEF AddLoad, TypeOK
  <2>2. \A v \in Workers : cap[v] \in Nat
    BY <1>0 DEF TypeOK
  <2> QED
    BY <1>0, <1>4, <2>1, <2>2, AddLoadStep DEF CapInv
<1>5. CASE DropTotal(w)
  BY <1>0, <1>5 DEF DropTotal, OnlyGets
<1> QED
  BY <1>1, <1>2, <1>3, <1>4, <1>5 DEF GetSome, Proceed

LEMMA LowStep ==
  ASSUME AdmitInv, AdmitNext
  PROVE  LowInv'
<1> USE DEF shared
<1>0. IInv /\ TypeOK /\ OnlyGets /\ LowInv /\ UpNodes \in SUBSET Nodes /\ Nodes \in SUBSET Nat
  BY NodesFinite DEF IInv, AdmitInv
<1>1. PICK w \in Workers : GetSome(w) \/ Proceed(w)
  BY DEF AdmitNext
<1>2. CASE \/ GetSome(w) \/ ProbeAccept(w) \/ ProbeNext(w) \/ FallBack(w) \/ AddTotal(w)
           \/ ScanFound(w) \/ ScanEmpty(w)
  <2>1. UNCHANGED <<load, up>>
    BY <1>2 DEF GetSome, Get, ProbeAccept, ProbeNext, FallBack, AddTotal, ScanFound, ScanEmpty
  <2>2. \A v \in Workers : pc'[v] = "scanning" =>
          \/ pc[v] = "scanning" /\ at'[v] = at[v] /\ low'[v] = low[v]
          \/ at'[v] = 0
    BY <1>0, <1>2 DEF GetSome, Get, ProbeAccept, ProbeNext, FallBack, AddTotal, ScanFound,
                      ScanEmpty, Leave, TypeOK
  <2>3. UpNodes' = UpNodes
    BY <2>1, Untouched
  <2> QED
    BY <1>0, <2>1, <2>2, <2>3 DEF LowInv
<1>3. CASE ScanBetter(w) \/ ScanNext(w)
  <2>1. /\ UNCHANGED <<load, up, pc>> /\ at' = [at EXCEPT ![w] = @ + 1]
        /\ pc[w] = "scanning"
        /\ \A v \in Workers : v # w => low'[v] = low[v]
    BY <1>0, <1>3 DEF ScanBetter, ScanNext, TypeOK
  <2>2. UpNodes' = UpNodes
    BY <2>1, Untouched
  <2>3. at[w] \in Nat /\ low[w] \in Nat /\ \A n \in Nodes : load[n] \in Nat
    BY <1>0, ConstantsTyped DEF TypeOK
  <2>4. ASSUME NEW n \in UpNodes, n < at[w] + 1 PROVE low'[w] <= load[n]
    <3>1. n \in Nat /\ load[n] \in Nat
      BY <1>0, <2>3
    <3>2. n < at[w] => low[w] <= load[n]
      BY <1>0, <2>1 DEF LowInv
    <3>3. CASE ScanBetter(w)
      <4>1. low'[w] = load[at[w]] /\ load[at[w]] < low[w] /\ at[w] \in Nodes
        BY <1>0, <2>3, <3>3, ConstantsTyped DEF ScanBetter, Better, TypeOK, Nodes
      <4>2. load[at[w]] \in Nat
        BY <2>3, <4>1
      <4> QED
        BY <2>3, <2>4, <3>1, <3>2, <4>1, <4>2
    <3>4. CASE ScanNext(w)
      <4>1. low'[w] = low[w] /\ ~Better(w, at[w])
        BY <3>4 DEF ScanNext
      <4>2. n = at[w] => low[w] <= load[n]
        BY <2>3, <3>1, <4>1 DEF Better, UpNodes
      <4> QED
        BY <2>3, <2>4, <3>1, <3>2, <4>1, <4>2
    <3> QED
      BY <1>3, <3>3, <3>4
  <2>5. ASSUME NEW v \in Workers, pc'[v] = "scanning", NEW n \in UpNodes', n < at'[v]
        PROVE  low'[v] <= load'[n]
    <3>1. CASE v = w
      BY <1>0, <2>1, <2>2, <2>4, <2>5, <3>1 DEF TypeOK
    <3>2. CASE v # w
      <4>1. at'[v] = at[v] /\ low'[v] = low[v] /\ pc[v] = "scanning" /\ load'[n] = load[n]
        BY <1>0, <2>1, <2>5, <3>2 DEF TypeOK
      <4> QED
        BY <1>0, <2>2, <2>5, <4>1 DEF LowInv
    <3> QED
      BY <3>1, <3>2
  <2> QED
    BY <2>5 DEF LowInv
<1>4. CASE AddLoad(w)
  <2>1. /\ UpNodes' = UpNodes
        /\ \A v \in Workers : pc'[v] = "scanning" =>
             pc[v] = "scanning" /\ at'[v] = at[v] /\ low'[v] = low[v]
    BY <1>0, <1>4, AddLoadStep DEF AddLoad, TypeOK
  <2>2. \A n \in Nodes : load[n] \in Nat /\ load[n] <= load'[n] /\ load'[n] \in Nat
    <3>1. load' = [load EXCEPT ![pick[w]] = @ + 1] /\ pick[w] \in Nodes
      BY <1>4, AddLoadStep
    <3> QED
      BY <1>0, <3>1, ConstantsTyped DEF TypeOK
  <2>3. \A v \in Workers : low[v] \in Nat
    BY <1>0, ConstantsTyped DEF TypeOK
  <2>4. ASSUME NEW v \in Workers, pc'[v] = "scanning", NEW n \in UpNodes, n < at[v]
        PROVE  low[v] <= load'[n]
    <3>1. low[v] <= load[n]
      BY <2>1, <2>4 DEF LowInv, AdmitInv
    <3> QED
      BY <1>0, <2>2, <2>3, <3>1
  <2> QED
    BY <2>1, <2>4 DEF LowInv
<1>5. CASE DropTotal(w)
  BY <1>0, <1>5 DEF DropTotal, OnlyGets
<1> QED
  BY <1>1, <1>2, <1>3, <1>4, <1>5 DEF Proceed

LEMMA ClaimStep ==
  ASSUME AdmitInv, AdmitNext
  PROVE  ClaimInv'
<1> USE DEF shared
<1>0. /\ IInv /\ TypeOK /\ OnlyGets /\ ClaimInv /\ LowInv /\ CapInv
      /\ FactorDen <= FactorNum /\ None \notin Nodes
  BY ConstantsTyped DEF IInv, AdmitInv
<1>1. PICK w \in Workers : GetSome(w) \/ Proceed(w)
  BY DEF AdmitNext
<1>2. CASE \/ GetSome(w) \/ ProbeNext(w) \/ FallBack(w) \/ AddTotal(w)
           \/ ScanNext(w) \/ ScanEmpty(w)
  <2>1. UNCHANGED <<load, up>>
    BY <1>2 DEF GetSome, Get, ProbeNext, FallBack, AddTotal, ScanNext, ScanEmpty
  <2>2. ASSUME NEW n \in Nodes, NEW v \in Workers, pick'[v] = n,
               pc'[v] \in {"adding", "scanning"}
        PROVE  pick[v] = n /\ pc'[v] = pc[v] /\ low'[v] = low[v]
    BY <1>0, <1>2, <2>2 DEF GetSome, Get, ProbeNext, FallBack, AddTotal, ScanNext,
                            ScanEmpty, Leave, TypeOK
  <2>3. \A n \in Nodes, y \in Nat : Claims(n, y)' \subseteq Claims(n, y)
    BY <2>2 DEF Claims
  <2> QED
    BY <1>0, <2>1, <2>3, NoNewClaims
<1>3. CASE ProbeAccept(w)
  <2>1. /\ UNCHANGED <<load, up, low>>
        /\ pc[w] = "probing" /\ pick'[w] = Probed(w, at[w]) /\ Accepts(w, Probed(w, at[w]))
        /\ \A v \in Workers : v # w => pc'[v] = pc[v] /\ pick'[v] = pick[v]
    BY <1>0, <1>3 DEF ProbeAccept, TypeOK
  <2>2. Room' = Room /\ UpNodes' = UpNodes
    BY <2>1, Untouched
  <2>3. ASSUME UpNodes # {}, NEW n \in Nodes, NEW y \in Nat, Room <= y, Claims(n, y)' # {}
        PROVE  load'[n] + Cardinality(Claims(n, y)') <= y + Cardinality(Workers)
    <3>1. Claims(n, y)' \in SUBSET Workers
      BY DEF Claims
    <3>2. CASE n = pick'[w]
      <4>1. load[n] <= cap[w] /\ cap[w] <= Room /\ cap[w] \in Nat /\ Room \in Nat /\ load[n] \in Nat
        BY <1>0, <2>1, <2>3, <3>2, RoomIsNat, ConstantsTyped DEF Accepts, CapInv, TypeOK
      <4>2. load[n] <= y
        BY <2>3, <4>1
      <4> QED
        BY <1>0, <2>1, <3>1, <4>2, ClaimsWithinReach
    <3>3. CASE n # pick'[w]
      <4>1. Claims(n, y)' \in SUBSET Claims(n, y)
        BY <2>1, <3>3 DEF Claims
      <4> QED
        BY <1>0, <2>1, <2>3, <4>1, FewerClaims
    <3> QED
      BY <3>2, <3>3
  <2> QED
    BY <2>2, <2>3 DEF ClaimInv
<1>4. CASE ScanBetter(w)
  <2>1. /\ UNCHANGED <<load, up, pc>>
        /\ pick'[w] = at[w] /\ low'[w] = load[at[w]]
        /\ \A v \in Workers : v # w => low'[v] = low[v] /\ pick'[v] = pick[v]
        /\ pc[w] = "scanning"
    BY <1>0, <1>4 DEF ScanBetter, TypeOK
  <2>2. Room' = Room /\ UpNodes' = UpNodes
    BY <2>1, Untouched
  <2>3. ASSUME UpNodes # {}, NEW n \in Nodes, NEW y \in Nat, Room <= y, Claims(n, y)' # {}
        PROVE  load'[n] + Cardinality(Claims(n, y)') <= y + Cardinality(Workers)
    <3>1. Claims(n, y)' \in SUBSET Workers
      BY DEF Claims
    <3>2. CASE n = at[w] /\ load[n] <= y
      BY <1>0, <2>1, <3>1, <3>2, ClaimsWithinReach
    <3>3. CASE ~(n = at[w] /\ load[n] <= y)
      <4>1. Claims(n, y)' \in SUBSET Claims(n, y)
        BY <2>1, <3>3 DEF Claims
      <4> QED
        BY <1>0, <2>1, <2>3, <4>1, FewerClaims
    <3> QED
      BY <3>2, <3>3
  <2> QED
    BY <2>2, <2>3 DEF ClaimInv
<1>5. CASE ScanFound(w)
  <2>1. /\ UNCHANGED <<load, up, pick, low>>
        /\ pc[w] = "scanning" /\ at[w] = NumNodes
        /\ \A v \in Workers : v # w => pc'[v] = pc[v]
    BY <1>0, <1>5 DEF ScanFound, TypeOK
  <2>2. Room' = Room /\ UpNodes' = UpNodes
    BY <2>1, Untouched
  <2>3. ASSUME UpNodes # {}, NEW n \in Nodes, NEW y \in Nat, Room <= y, Claims(n, y)' # {}
        PROVE  load'[n] + Cardinality(Claims(n, y)') <= y + Cardinality(Workers)
    <3>1. low[w] <= Room /\ low[w] \in Nat /\ Room \in Nat
      <4>1. low[w] <= Room
        <5>1. \A m \in UpNodes : low[w] <= load[m]
          BY <1>0, <2>1, ConstantsTyped DEF LowInv, UpNodes, Nodes
        <5> QED
          BY <1>0, <2>3, <5>1, LowIsRoom
      <4>2. low[w] \in Nat
        BY <1>0, ConstantsTyped DEF TypeOK
      <4>3. Room \in Nat
        BY <1>0, <2>3, RoomIsNat
      <4> QED
        BY <4>1, <4>2, <4>3
    <3>2. low[w] <= y
      BY <2>3, <3>1
    <3>3. Claims(n, y)' \in SUBSET Claims(n, y)
      BY <2>1, <3>2 DEF Claims
    <3> QED
      BY <1>0, <2>1, <2>3, <3>3, FewerClaims
  <2> QED
    BY <2>2, <2>3 DEF ClaimInv
<1>6. CASE AddLoad(w)
  <2>1. /\ pc[w] = "adding" /\ pc'[w] = "counting" /\ UNCHANGED <<pick, low>>
        /\ \A v \in Workers : v # w => pc'[v] = pc[v]
        /\ \A n \in Nodes : load[n] \in Nat
    BY <1>0, <1>6, ConstantsTyped DEF AddLoad, TypeOK
  <2>2. /\ pick[w] \in Nodes /\ UpNodes' = UpNodes
        /\ load' = [load EXCEPT ![pick[w]] = @ + 1]
        /\ Room \in Nat /\ Room' \in Nat /\ Room <= Room'
    BY <1>6, AddLoadStep
  <2>3. ASSUME UpNodes # {}, NEW n \in Nodes, NEW y \in Nat, Room' <= y, Claims(n, y)' # {}
        PROVE  load'[n] + Cardinality(Claims(n, y)') <= y + Cardinality(Workers)
    <3>1. Room <= y
      BY <2>2, <2>3
    <3>2. CASE n = pick[w]
      <4>1. w \in Claims(n, y) /\ Claims(n, y) \in SUBSET Workers
        BY <2>1, <3>2 DEF Claims
      <4>2. Claims(n, y)' = Claims(n, y) \ {w}
        BY <2>1 DEF Claims
      <4>3. /\ Cardinality(Claims(n, y)') = Cardinality(Claims(n, y)) - 1
            /\ Cardinality(Claims(n, y)) \in Nat
        BY <4>1, <4>2, WorkersFinite, FS_RemoveElement
      <4>4. load[n] + Cardinality(Claims(n, y)) <= y + Cardinality(Workers)
        BY <1>0, <2>3, <3>1, <4>1 DEF ClaimInv
      <4>5. load'[n] = load[n] + 1
        BY <1>0, <2>2, <3>2 DEF TypeOK
      <4> QED
        BY <2>1, <4>3, <4>4, <4>5, WorkersFinite
    <3>3. CASE n # pick[w]
      <4>1. Claims(n, y)' \in SUBSET Claims(n, y)
        BY <2>1 DEF Claims
      <4>2. load'[n] = load[n]
        BY <1>0, <2>2, <3>3 DEF TypeOK
      <4> QED
        BY <1>0, <2>3, <3>1, <4>1, <4>2, FewerClaims
    <3> QED
      BY <3>2, <3>3
  <2> QED
    BY <2>2, <2>3 DEF ClaimInv
<1>7. CASE DropTotal(w)
  BY <1>0, <1>7 DEF DropTotal, OnlyGets
<1> QED
  BY <1>1, <1>2, <1>3, <1>4, <1>5, <1>6, <1>7 DEF Proceed

LEMMA BoundStep ==
  ASSUME AdmitInv, AdmitNext
  PROVE  OvershootIsBounded'
<1> USE DEF shared
<1>0. IInv /\ TypeOK /\ OnlyGets /\ ClaimInv /\ OvershootIsBounded
  BY DEF IInv, AdmitInv
<1>1. PICK w \in Workers : GetSome(w) \/ Proceed(w)
  BY DEF AdmitNext
<1>2. CASE AddLoad(w)
  <2>1. /\ pick[w] \in Nodes /\ pick[w] \in UpNodes
        /\ load' = [load EXCEPT ![pick[w]] = @ + 1]
        /\ Room \in Nat
        /\ BoundOn(LoadSum) \in Nat /\ BoundOn(LoadSum)' \in Nat
        /\ BoundOn(LoadSum) <= BoundOn(LoadSum)'
        /\ Room + 1 <= BoundOn(LoadSum)'
    BY <1>2, AddLoadStep
  <2>2. \A n \in Nodes : load[n] \in Nat
    BY <1>0, ConstantsTyped DEF TypeOK
  <2>3. ASSUME NEW n \in Nodes, load'[n] > 0
        PROVE  load'[n] <= BoundOn(LoadSum)' + Cardinality(Workers) - 1
    <3>1. CASE n = pick[w]
      <4>1. w \in Claims(n, Room) /\ Claims(n, Room) \in SUBSET Workers
        BY <1>2, <3>1 DEF AddLoad, Claims
      <4>2. PICK y \in Nat : y = Room
        BY <2>1
      <4>3. load[n] + Cardinality(Claims(n, y)) <= y + Cardinality(Workers)
        BY <1>0, <2>1, <4>1, <4>2 DEF ClaimInv
      <4>4. Cardinality(Claims(n, y)) \in Nat /\ Cardinality(Claims(n, y)) # 0
        BY <4>1, <4>2, WorkersFinite
      <4>5. load'[n] = load[n] + 1
        BY <1>0, <2>1, <3>1 DEF TypeOK
      <4>6. PICK b \in Nat : b = BoundOn(LoadSum)'
        BY <2>1
      <4>7. y + 1 <= b
        BY <2>1, <4>2, <4>6
      <4>8. load'[n] <= b + Cardinality(Workers) - 1
        BY <2>2, <4>3, <4>4, <4>5, <4>7, WorkersFinite
      <4> QED
        BY <4>6, <4>8
    <3>2. CASE n # pick[w]
      <4>1. load'[n] = load[n]
        BY <1>0, <2>1, <3>2 DEF TypeOK
      <4>2. load[n] <= BoundOn(LoadSum) + Cardinality(Workers) - 1
        BY <1>0, <2>3, <4>1 DEF OvershootIsBounded, LoadSum, SumOver
      <4>3. PICK a, b \in Nat : a = BoundOn(LoadSum) /\ b = BoundOn(LoadSum)' /\ a <= b
        BY <2>1
      <4>4. load[n] <= a + Cardinality(Workers) - 1
        BY <4>2, <4>3
      <4>5. load[n] <= b + Cardinality(Workers) - 1
        BY <2>2, <4>3, <4>4, WorkersFinite
      <4> QED
        BY <4>1, <4>3, <4>5
    <3> QED
      BY <3>1, <3>2
  <2> QED
    BY <2>3 DEF OvershootIsBounded, LoadSum, SumOver
<1>3. CASE ~AddLoad(w)
  <2>1. UNCHANGED <<load, up>>
    BY <1>0, <1>1, <1>3 DEF GetSome, Proceed, Get, ProbeAccept, ProbeNext, FallBack, AddTotal,
                            ScanBetter, ScanNext, ScanFound, ScanEmpty, DropTotal
  <2> QED
    BY <1>0, <2>1, Untouched
<1> QED
  BY <1>2, <1>3

LEMMA AdmitStep == AdmitInv /\ [AdmitNext]_vars => AdmitInv'
<1>1. ASSUME AdmitInv, AdmitNext PROVE AdmitInv'
  <2>1. Next
    BY <1>1 DEF AdmitNext, Next
  <2>2. IInv'
    BY <1>1, <2>1, TypeStep, JobStep, PickStep, AccountingStep DEF AdmitInv, IInv
  <2>3. OnlyGets'
    BY <1>1, OnlyGetsStep DEF AdmitInv
  <2>4. CapInv' /\ LowInv' /\ ClaimInv' /\ OvershootIsBounded'
    BY <1>1, CapStep, LowStep, ClaimStep, BoundStep
  <2> QED
    BY <1>1, <2>2, <2>3, <2>4 DEF AdmitInv
<1>2. ASSUME AdmitInv, UNCHANGED vars PROVE AdmitInv'
  <2>1. IInv'
    BY <1>2, StutterIInv DEF AdmitInv
  <2>2. Room' = Room /\ UpNodes' = UpNodes /\ LoadSum' = LoadSum /\ OvershootIsBounded'
    BY <1>2, Untouched DEF vars, AdmitInv
  <2>3. OnlyGets' /\ CapInv' /\ LowInv'
    BY <1>2, <2>2 DEF vars, AdmitInv, OnlyGets, CapInv, LowInv, Counting
  <2>4. ClaimInv'
    BY <1>2, <2>2, NoNewClaims DEF vars, AdmitInv, IInv, Claims
  <2> QED
    BY <1>2, <2>1, <2>2, <2>3, <2>4 DEF AdmitInv
<1> QED
  BY <1>1, <1>2

(* Threads that call get at the same time take a node over the bound of    *)
(* max_load_factor times the mean by at most one request for every other   *)
(* thread, however many there are and however their probes, scans and      *)
(* additions interleave, if the factor is at least 1: below 1 the least    *)
(* loaded node, which the fallback takes, may be over the bound already    *)
(* (bounded.rs 141-168, 208-225).                                          *)
THEOREM BoundedOvershoot ==
  ASSUME FactorDen <= FactorNum
  PROVE  AdmitSpec => []OvershootIsBounded
<1>1. AdmitInit => AdmitInv
  BY AdmitInitially, InitIInv DEF AdmitInit, AdmitInv
<1>2. AdmitInv => OvershootIsBounded
  BY DEF AdmitInv
<1> QED
  BY <1>1, <1>2, AdmitStep, PTL DEF AdmitSpec

-----------------------------------------------------------------------------
(***************************************************************************)
(* get_n and the disabled ring: what get_n comes back with, and by how     *)
(* much the counters are off.  For one thread, which node get settles on   *)
(* and that it is within the bound.                                        *)
(***************************************************************************)
Phases == {"none", "probes", "tail", "done", "failed"}

Call ==
  [phase : Phases, n : Nat, hash : Hashes, probe : Nat, result : Seq(Nodes),
   tail : Seq(Nodes), mine : SUBSET Requests, always : SUBSET Nodes]

GetNTypeOK ==
  /\ enabled \in BOOLEAN
  /\ call \in [Workers -> Call]
  /\ untold \subseteq Requests
  /\ owed \in [Nodes -> Nat]
  /\ stolen \in [Nodes -> Nat]

NoneStolen == \A n \in Nodes : stolen[n] = 0

(* The tail has looked at the nodes below c.probe. *)
TailFits(c) ==
  /\ c.probe <= NumNodes
  /\ IsInjective(c.tail)
  /\ \A n \in ToSet(c.tail) : n < c.probe /\ n \notin ToSet(c.result)
  /\ \A n \in c.always : n < c.probe => n \in ToSet(c.result) \cup ToSet(c.tail)

(* A call c of get_n; busy if the worker is inside get. *)
Fits(c, busy) ==
  /\ c.phase \in {"probes", "tail", "done"}
       => IsInjective(c.result) /\ Len(c.result) <= c.n
  /\ c.phase = "probes" => c.tail = <<>>
  /\ c.phase = "probes" /\ busy => Len(c.result) < c.n
  /\ c.phase = "tail" => TailFits(c)
  /\ c.phase = "done" => Len(c.result) = c.n \/ c.always \subseteq ToSet(c.result)

CallInv ==
  \A w \in Workers :
    /\ Fits(call[w], pc[w] # "idle")
    /\ InGetN(w) => call[w].always \subseteq up
    /\ call[w].phase = "failed" /\ NoneStolen => call[w].always = {}

GetNInv ==
  /\ TypeOK /\ HandsInv
  /\ GetNTypeOK /\ CallInv
  /\ CountersExplained
  /\ NoneStolen => IInv

-----------------------------------------------------------------------------
(* Sequences without repetition. *)
LEMMA ElementsOf ==
  ASSUME NEW S, NEW s \in Seq(S)
  PROVE  /\ ToSet(s) \in SUBSET S
         /\ \A k \in 1 .. Len(s) : s[k] \in ToSet(s)
         /\ \A e \in ToSet(s) : \E k \in 1 .. Len(s) : s[k] = e
  BY LenProperties DEF ToSet

LEMMA AppendNew ==
  ASSUME NEW S, NEW s \in Seq(S), NEW e \in S, IsInjective(s), e \notin ToSet(s)
  PROVE  /\ Append(s, e) \in Seq(S)
         /\ Len(Append(s, e)) = Len(s) + 1
         /\ IsInjective(Append(s, e))
         /\ ToSet(Append(s, e)) = ToSet(s) \cup {e}
<1> DEFINE t == Append(s, e)
<1>1. /\ t \in Seq(S) /\ Len(t) = Len(s) + 1 /\ Len(s) \in Nat
      /\ DOMAIN s = 1 .. Len(s) /\ DOMAIN t = 1 .. Len(s) + 1
      /\ t[Len(s) + 1] = e
      /\ \A k \in 1 .. Len(s) : t[k] = s[k]
  BY AppendProperties, LenProperties
<1> HIDE DEF t
<1>2. \A k \in 1 .. Len(s) : s[k] # e
  BY <1>1 DEF ToSet
<1>3. IsInjective(t)
  <2> SUFFICES ASSUME NEW a \in 1 .. Len(s) + 1, NEW b \in 1 .. Len(s) + 1, t[a] = t[b]
               PROVE  a = b
    BY <1>1 DEF IsInjective
  <2>1. a \in 1 .. Len(s) \/ a = Len(s) + 1
    BY <1>1
  <2>2. b \in 1 .. Len(s) \/ b = Len(s) + 1
    BY <1>1
  <2> QED
    BY <1>1, <1>2, <2>1, <2>2 DEF IsInjective
<1>4. ToSet(t) = ToSet(s) \cup {e}
  <2>1. \A k \in 1 .. Len(s) + 1 : k \in 1 .. Len(s) \/ k = Len(s) + 1
    BY <1>1
  <2>2. 1 .. Len(s) \subseteq 1 .. Len(s) + 1 /\ Len(s) + 1 \in 1 .. Len(s) + 1
    BY <1>1
  <2> QED
    BY <1>1, <2>1, <2>2 DEF ToSet
<1> QED
  BY <1>1, <1>3, <1>4 DEF t

(* The result, and a prefix of a tail that has none of its elements. *)
LEMMA JoinPrefix ==
  ASSUME NEW S, NEW s \in Seq(S), NEW t \in Seq(S), NEW m \in 0 .. Len(t),
         IsInjective(s), IsInjective(t), \A e \in ToSet(t) : e \notin ToSet(s)
  PROVE  /\ SubSeq(t, 1, m) \in Seq(S)
         /\ s \o SubSeq(t, 1, m) \in Seq(S)
         /\ Len(s \o SubSeq(t, 1, m)) = Len(s) + m
         /\ IsInjective(s \o SubSeq(t, 1, m))
         /\ m = Len(t) => ToSet(s) \cup ToSet(t) \subseteq ToSet(s \o SubSeq(t, 1, m))
<1> DEFINE p == SubSeq(t, 1, m)
           j == s \o p
<1>0. Len(s) \in Nat /\ Len(t) \in Nat /\ m \in Nat /\ m <= Len(t)
  BY LenProperties
<1>1. p \in Seq(S) /\ Len(p) = m /\ \A k \in 1 .. m : p[k] = t[k]
  <2>1. \A k \in 1 .. m : t[k] \in S
    BY <1>0, ElementOfSeq
  <2>2. m \in Int /\ 1 \in Int /\ m - 1 + 1 = m /\ (1 <= m \/ m = 0)
    BY <1>0
  <2>3. /\ p \in Seq(S)
        /\ Len(p) = IF 1 <= m THEN m - 1 + 1 ELSE 0
        /\ \A k \in 1 .. m - 1 + 1 : p[k] = t[1 + k - 1]
    BY <2>1, <2>2, SubSeqProperties
  <2>4. \A k \in 1 .. m : 1 + k - 1 = k
    BY <1>0
  <2> QED
    BY <2>2, <2>3, <2>4
<1> HIDE DEF p
<1>2. /\ j \in Seq(S) /\ Len(j) = Len(s) + m
      /\ \A k \in 1 .. Len(s) + m : j[k] = IF k <= Len(s) THEN s[k] ELSE p[k - Len(s)]
  BY <1>1, ConcatProperties
<1>3. DOMAIN j = 1 .. Len(s) + m /\ DOMAIN s = 1 .. Len(s) /\ DOMAIN t = 1 .. Len(t)
  BY <1>2, LenProperties
<1> HIDE DEF j
<1>4. \A k \in 1 .. Len(s) + m :
        \/ k \in 1 .. Len(s) /\ j[k] = s[k]
        \/ k - Len(s) \in 1 .. Len(t) /\ j[k] = t[k - Len(s)]
  <2> SUFFICES ASSUME NEW k \in 1 .. Len(s) + m
               PROVE  \/ k \in 1 .. Len(s) /\ j[k] = s[k]
                      \/ k - Len(s) \in 1 .. Len(t) /\ j[k] = t[k - Len(s)]
    OBVIOUS
  <2>1. CASE k <= Len(s)
    BY <1>0, <1>2, <2>1
  <2>2. CASE ~(k <= Len(s))
    <3>1. k - Len(s) \in 1 .. m /\ 1 .. m \subseteq 1 .. Len(t)
      BY <1>0, <2>2
    <3> QED
      BY <1>1, <1>2, <2>2, <3>1
  <2> QED
    BY <2>1, <2>2
<1>5. \A a \in 1 .. Len(s), b \in 1 .. Len(t) : s[a] # t[b]
  BY <1>3 DEF ToSet
<1>6. IsInjective(j)
  <2> SUFFICES ASSUME NEW a \in 1 .. Len(s) + m, NEW b \in 1 .. Len(s) + m, j[a] = j[b]
               PROVE  a = b
    BY <1>3 DEF IsInjective
  <2>1. CASE a \in 1 .. Len(s) /\ j[a] = s[a]
    <3>1. b \in 1 .. Len(s) /\ j[b] = s[b]
      BY <1>4, <1>5, <2>1
    <3> QED
      BY <1>3, <2>1, <3>1 DEF IsInjective
  <2>2. CASE a - Len(s) \in 1 .. Len(t) /\ j[a] = t[a - Len(s)]
    <3>1. b - Len(s) \in 1 .. Len(t) /\ j[b] = t[b - Len(s)]
      BY <1>4, <1>5, <2>2
    <3>2. a - Len(s) = b - Len(s)
      BY <1>3, <2>2, <3>1 DEF IsInjective
    <3> QED
      BY <1>0, <3>2
  <2> QED
    BY <1>4, <2>1, <2>2
<1>7. ASSUME m = Len(t) PROVE ToSet(s) \cup ToSet(t) \subseteq ToSet(j)
  <2>1. ASSUME NEW a \in 1 .. Len(s) PROVE s[a] \in ToSet(j)
    <3>1. a \in 1 .. Len(s) + m /\ a <= Len(s)
      BY <1>0
    <3>2. j[a] = s[a]
      BY <1>2, <3>1
    <3> QED
      BY <1>3, <3>1, <3>2 DEF ToSet
  <2>2. ASSUME NEW b \in 1 .. Len(t) PROVE t[b] \in ToSet(j)
    <3>1. /\ b + Len(s) \in 1 .. Len(s) + m /\ ~(b + Len(s) <= Len(s))
          /\ b + Len(s) - Len(s) = b
      BY <1>0, <1>7
    <3>2. j[b + Len(s)] = t[b]
      BY <1>1, <1>2, <1>7, <3>1
    <3> QED
      BY <1>3, <3>1, <3>2 DEF ToSet
  <2> QED
    BY <1>3, <2>1, <2>2 DEF ToSet
<1> QED
  BY <1>1, <1>2, <1>6, <1>7 DEF p, j

-----------------------------------------------------------------------------
(* The calls of get_n, step by step. *)
LEMMA NoCallFits == NoCall \in Call /\ \A busy \in BOOLEAN : Fits(NoCall, busy)
<1>1. 0 \in Hashes /\ <<>> \in Seq(Nodes)
  BY MaxHashAssumption DEF Hashes
<1> QED
  BY <1>1 DEF NoCall, Call, Phases, Fits

(* The worker w changes the record of its call to c, at most. *)
LEMMA CallMoves ==
  ASSUME GetNTypeOK, CallInv, NEW w \in Workers, NEW c \in Call,
         call' = [call EXCEPT ![w] = c],
         Fits(c, pc'[w] # "idle"),
         c.phase # "none" => c.always \subseteq up,
         c.phase = "failed" /\ NoneStolen => c.always = {},
         \A v \in Workers : v # w => pc'[v] = pc[v],
         up' = up, enabled' \in BOOLEAN, untold' \subseteq Requests,
         owed' \in [Nodes -> Nat], stolen' = stolen
  PROVE  GetNTypeOK' /\ CallInv'
<1>1. GetNTypeOK'
  BY DEF GetNTypeOK
<1>2. /\ call'[w] = c
      /\ \A v \in Workers : v # w => call'[v] = call[v] /\ pc'[v] = pc[v]
  BY DEF GetNTypeOK
<1>3. NoneStolen' <=> NoneStolen
  BY DEF NoneStolen
<1>4. ASSUME NEW v \in Workers
      PROVE  /\ Fits(call'[v], pc'[v] # "idle")
             /\ call'[v].phase # "none" => call'[v].always \subseteq up'
             /\ call'[v].phase = "failed" /\ NoneStolen' => call'[v].always = {}
  <2>1. CASE v = w
    BY <1>2, <1>3, <2>1
  <2>2. CASE v # w
    <3>1. call'[v] = call[v] /\ (pc'[v] # "idle") = (pc[v] # "idle")
      BY <1>2, <2>2
    <3> QED
      BY <1>3, <3>1 DEF CallInv, InGetN
  <2> QED
    BY <2>1, <2>2
<1> QED
  BY <1>1, <1>4 DEF CallInv, InGetN

(* No call changes; a worker that goes inside get is in none, or wants more. *)
LEMMA CallRests ==
  ASSUME GetNTypeOK, CallInv, call' = call, up' = up, enabled' = enabled,
         untold' = untold, owed' \in [Nodes -> Nat], stolen' \in [Nodes -> Nat],
         NoneStolen' => NoneStolen,
         \A v \in Workers : pc'[v] # "idle" /\ pc[v] = "idle" =>
           ~InGetN(v) \/ Len(call[v].result) < call[v].n
  PROVE  GetNTypeOK' /\ CallInv'
<1>1. GetNTypeOK'
  BY DEF GetNTypeOK
<1>2. ASSUME NEW v \in Workers
      PROVE  /\ Fits(call[v], pc'[v] # "idle")
             /\ InGetN(v) => call[v].always \subseteq up
             /\ call[v].phase = "failed" /\ NoneStolen' => call[v].always = {}
  <2>1. Fits(call[v], pc[v] # "idle") /\ (InGetN(v) => call[v].always \subseteq up)
    BY DEF CallInv
  <2>2. call[v].phase = "failed" /\ NoneStolen' => call[v].always = {}
    BY DEF CallInv
  <2>3. call[v].phase = "probes" /\ pc'[v] # "idle" => Len(call[v].result) < call[v].n
    BY <2>1 DEF Fits, InGetN
  <2> QED
    BY <2>1, <2>2, <2>3 DEF Fits
<1> QED
  BY <1>1, <1>2 DEF CallInv, InGetN

(* What a call of get leaves alone. *)
LEMMA InsideGet ==
  ASSUME NEW w \in Workers, Proceed(w), TypeOK
  PROVE  /\ up' = up /\ pc[w] # "idle"
         /\ \A v \in Workers : v # w => pc'[v] = pc[v]
  BY DEF Proceed, ProbeAccept, ProbeNext, FallBack, ScanBetter, ScanNext, ScanFound,
         ScanEmpty, AddLoad, AddTotal, DropTotal, Leave, shared, TypeOK

LEMMA StartGetNStep ==
  ASSUME GetNTypeOK, CallInv, NEW w \in Workers, NEW n \in Nat, NEW h \in Hashes,
         StartGetN(w, n, h)
  PROVE  GetNTypeOK' /\ CallInv'
<1> DEFINE c == [NoCall EXCEPT !.phase = "probes", !.n = n, !.hash = h,
                               !.always = up \cap Nodes]
<1>1. /\ call' = [call EXCEPT ![w] = c] /\ UNCHANGED <<vars, enabled, untold, owed, stolen>>
      /\ pc[w] = "idle"
  BY DEF StartGetN, Record
<1>2. /\ c \in Call /\ c.phase = "probes" /\ c.result = <<>> /\ c.n = n
      /\ c.always = up \cap Nodes /\ c.tail = <<>>
  BY NoCallFits DEF NoCall, Call, Phases
<1> HIDE DEF c
<1>3. Fits(c, FALSE)
  BY <1>2 DEF Fits, IsInjective
<1>4. pc' = pc /\ up' = up
  BY <1>1 DEF vars
<1>5. (pc'[w] # "idle") = FALSE
  BY <1>1, <1>4
<1>6. Fits(c, pc'[w] # "idle")
  BY <1>3, <1>5
<1> QED
  BY <1>1, <1>2, <1>4, <1>6, CallMoves DEF GetNTypeOK

LEMMA GetNCountedStep ==
  ASSUME TypeOK, HandsInv, GetNTypeOK, CallInv, NEW w \in Workers, GetNCounted(w)
  PROVE  GetNTypeOK' /\ CallInv'
<1> DEFINE old == call[w]
           repeated == pick[w] \in ToSet(old.result)
           more == IF repeated THEN old.result ELSE Append(old.result, pick[w])
           c == [old EXCEPT !.probe = old.probe + 1, !.result = more,
                            !.mine = old.mine \cup {job[w]}]
<1>1. /\ old.phase = "probes" /\ pc[w] = "counting" /\ AddTotal(w)
      /\ call' = [call EXCEPT ![w] = c] /\ enabled' = enabled
      /\ untold' = IF repeated THEN untold \cup {job[w]} ELSE untold
      /\ UNCHANGED <<owed, stolen>>
  BY DEF GetNCounted, Record
<1>2. old \in Call /\ job[w] \in Requests /\ pick[w] \in Nodes
  BY <1>1 DEF GetNTypeOK, HandsInv, Reading, Requests
<1>3. Fits(old, TRUE) /\ old.always \subseteq up
  <2>1. (pc[w] # "idle") = TRUE
    BY <1>1
  <2> QED
    BY <1>1, <2>1 DEF CallInv, InGetN
<1>4. IsInjective(old.result) /\ Len(old.result) < old.n /\ old.tail = <<>>
  BY <1>1, <1>3 DEF Fits
<1>5. old.result \in Seq(Nodes) /\ old.n \in Nat
  BY <1>2 DEF Call
<1>6. more \in Seq(Nodes) /\ IsInjective(more) /\ Len(more) <= old.n
  <2>1. CASE repeated
    <3>1. Len(old.result) \in Nat
      BY <1>5, LenProperties
    <3> QED
      BY <1>4, <1>5, <2>1, <3>1
  <2>2. CASE ~repeated
    <3>1. /\ Append(old.result, pick[w]) \in Seq(Nodes)
          /\ IsInjective(Append(old.result, pick[w]))
          /\ Len(Append(old.result, pick[w])) = Len(old.result) + 1
      BY <1>2, <1>4, <1>5, <2>2, AppendNew
    <3>2. Len(old.result) \in Nat
      BY <1>5, LenProperties
    <3> QED
      BY <1>4, <1>5, <2>2, <3>1, <3>2
  <2> QED
    BY <2>1, <2>2
<1>7. /\ c \in Call /\ c.phase = "probes" /\ c.result = more /\ c.n = old.n
      /\ c.always = old.always /\ c.tail = old.tail
  <2> HIDE DEF more, repeated
  <2>1. old.probe + 1 \in Nat /\ old.mine \cup {job[w]} \in SUBSET Requests
    BY <1>2 DEF Call
  <2> QED
    BY <1>1, <1>2, <1>6, <2>1 DEF Call
<1>8. /\ pc' = [pc EXCEPT ![w] = "idle"] /\ up' = up
  BY <1>1 DEF AddTotal, Leave
<1>9. (pc'[w] # "idle") = FALSE /\ \A v \in Workers : v # w => pc'[v] = pc[v]
  BY <1>8 DEF TypeOK
<1>10. untold' \subseteq Requests /\ enabled' \in BOOLEAN /\ owed' \in [Nodes -> Nat]
  BY <1>1, <1>2 DEF GetNTypeOK
<1> HIDE DEF c
<1>11. Fits(c, pc'[w] # "idle")
  BY <1>4, <1>6, <1>7, <1>9 DEF Fits
<1>12. c.phase # "failed" /\ c.always \subseteq up
  BY <1>3, <1>7
<1> QED
  BY <1>1, <1>7, <1>8, <1>9, <1>10, <1>11, <1>12, CallMoves

(* Where get finds nothing, no node is up. *)
LEMMA GetNFailsStep ==
  ASSUME TypeOK, GetNTypeOK, CallInv, NoneStolen => IInv,
         NEW w \in Workers, GetNFails(w)
  PROVE  GetNTypeOK' /\ CallInv'
<1> DEFINE c == [NoCall EXCEPT !.phase = "failed", !.result = <<>>,
                               !.n = call[w].n, !.always = call[w].always]
<1>1. /\ call[w].phase = "probes" /\ ScanEmpty(w)
      /\ call' = [call EXCEPT ![w] = c] /\ enabled' = enabled
      /\ untold' = untold \cup call[w].mine
      /\ UNCHANGED <<owed, stolen>>
  BY DEF GetNFails, Ends, Record
<1>2. call[w] \in Call /\ call[w].always \subseteq up
  BY <1>1 DEF GetNTypeOK, CallInv, InGetN
<1>3. call[w].n \in Nat /\ call[w].always \in SUBSET Nodes /\ call[w].mine \subseteq Requests
  BY <1>2 DEF Call
<1>4. c \in Call /\ c.phase = "failed" /\ c.always = call[w].always
  BY <1>3, NoCallFits DEF NoCall, Call, Phases
<1> HIDE DEF c
<1>5. NoneStolen => c.always = {}
  <2> SUFFICES ASSUME NoneStolen PROVE c.always = {}
    OBVIOUS
  <2>1. ScanInv /\ at[w] = NumNodes /\ pick[w] = None /\ pc[w] = "scanning"
    BY <1>1 DEF ScanEmpty, IInv
  <2>2. \A n \in Nodes : n < NumNodes /\ n \notin up
    BY <2>1, ConstantsTyped DEF ScanInv, Nodes
  <2> QED
    BY <1>2, <1>3, <1>4, <2>2
<1>6. Fits(c, pc'[w] # "idle")
  BY <1>4 DEF Fits
<1>7. up' = up /\ \A v \in Workers : v # w => pc'[v] = pc[v]
  BY <1>1, InsideGet DEF Proceed
<1>8. enabled' \in BOOLEAN /\ untold' \subseteq Requests /\ owed' \in [Nodes -> Nat]
  BY <1>1, <1>3 DEF GetNTypeOK
<1>9. c.always \subseteq up
  BY <1>2, <1>4
<1> QED
  BY <1>1, <1>4, <1>5, <1>6, <1>7, <1>8, <1>9, CallMoves

(* Steps outside get change nothing of the ring. *)
LEMMA OutsideGet ==
  ASSUME UNCHANGED vars, GetNTypeOK
  PROVE  /\ up' = up /\ pc' = pc
         /\ \A v \in Workers : (pc'[v] # "idle") = (pc[v] # "idle")
  BY DEF vars

LEMMA GetNFullStep ==
  ASSUME GetNTypeOK, CallInv, NEW w \in Workers, GetNFull(w)
  PROVE  GetNTypeOK' /\ CallInv'
<1> DEFINE old == call[w]
           c == [NoCall EXCEPT !.phase = "done", !.result = old.result,
                               !.n = old.n, !.always = old.always]
<1>1. /\ old.phase = "probes" /\ Len(old.result) = old.n
      /\ call' = [call EXCEPT ![w] = c]
      /\ UNCHANGED <<vars, enabled, untold, owed, stolen>>
  BY DEF GetNFull, Looping, Ends, Record
<1>2. old \in Call /\ Fits(old, pc[w] # "idle") /\ old.always \subseteq up
  BY <1>1 DEF GetNTypeOK, CallInv, InGetN
<1>3. old.n \in Nat /\ old.always \in SUBSET Nodes /\ old.result \in Seq(Nodes)
  BY <1>2 DEF Call
<1> HIDE DEF old
<1>4. /\ c \in Call /\ c.phase = "done" /\ c.result = old.result /\ c.n = old.n
      /\ c.always = old.always
  BY <1>3, NoCallFits DEF NoCall, Call, Phases
<1> HIDE DEF c
<1>5. IsInjective(old.result) /\ Len(old.result) <= old.n
  BY <1>1, <1>2 DEF Fits
<1>6. Fits(c, pc'[w] # "idle")
  BY <1>1, <1>4, <1>5 DEF Fits
<1> QED
  BY <1>1, <1>2, <1>4, <1>6, OutsideGet, CallMoves DEF GetNTypeOK

LEMMA GetNTailStep ==
  ASSUME GetNTypeOK, CallInv, NEW w \in Workers, GetNTail(w)
  PROVE  GetNTypeOK' /\ CallInv'
<1> DEFINE old == call[w]
           c == [old EXCEPT !.phase = "tail", !.probe = 0, !.hash = 0, !.mine = {}]
<1>1. /\ old.phase = "probes"
      /\ call' = [call EXCEPT ![w] = c]
      /\ UNCHANGED <<vars, enabled, untold, owed, stolen>>
  BY DEF GetNTail, Looping, Record
<1>2. old \in Call /\ Fits(old, pc[w] # "idle") /\ old.always \subseteq up
  BY <1>1 DEF GetNTypeOK, CallInv, InGetN
<1>3. IsInjective(old.result) /\ Len(old.result) <= old.n /\ old.tail = <<>>
  BY <1>1, <1>2 DEF Fits
<1>4. 0 \in Hashes
  BY MaxHashAssumption DEF Hashes
<1> HIDE DEF old
<1>5. /\ c \in Call /\ c.phase = "tail" /\ c.probe = 0 /\ c.result = old.result
      /\ c.n = old.n /\ c.always = old.always /\ c.tail = <<>>
  BY <1>2, <1>3, <1>4 DEF Call, Phases
<1>6. \A n \in c.always : ~(n < 0)
  <2>1. c.always \in SUBSET Nodes
    <3> HIDE DEF c
    <3> QED
      BY <1>5 DEF Call
  <2> QED
    BY <2>1, ConstantsTyped DEF Nodes
<1> HIDE DEF c
<1>7. Fits(c, pc'[w] # "idle")
  <2>1. IsInjective(<<>>) /\ ToSet(<<>>) = {}
    BY DEF IsInjective, ToSet
  <2>2. 0 <= NumNodes
    BY ConstantsTyped
  <2> QED
    BY <1>3, <1>5, <1>6, <2>1, <2>2 DEF Fits, TailFits
<1> QED
  BY <1>1, <1>2, <1>5, <1>7, OutsideGet, CallMoves DEF GetNTypeOK

LEMMA GetNFilterStep ==
  ASSUME GetNTypeOK, CallInv, NEW w \in Workers, GetNFilter(w)
  PROVE  GetNTypeOK' /\ CallInv'
<1> DEFINE old == call[w]
           k == old.probe
           more == IF Eligible(w, k) THEN Append(old.tail, k) ELSE old.tail
           c == [old EXCEPT !.probe = old.probe + 1, !.tail = more]
<1>1. /\ old.phase = "tail" /\ k < NumNodes
      /\ call' = [call EXCEPT ![w] = c]
      /\ UNCHANGED <<vars, enabled, untold, owed, stolen>>
  BY DEF GetNFilter, Record
<1>2. old \in Call /\ Fits(old, pc[w] # "idle") /\ old.always \subseteq up
  BY <1>1 DEF GetNTypeOK, CallInv, InGetN
<1>3. IsInjective(old.result) /\ Len(old.result) <= old.n /\ TailFits(old)
  BY <1>1, <1>2 DEF Fits
<1>4. /\ k \in Nat /\ k \in Nodes /\ k + 1 <= NumNodes
      /\ old.tail \in Seq(Nodes) /\ old.always \in SUBSET Nodes
  BY <1>1, <1>2, ConstantsTyped DEF Call, Nodes
<1>5. Eligible(w, k) <=> k \in up /\ k \notin ToSet(old.result)
  BY DEF Eligible
<1>6. k \notin ToSet(old.tail)
  BY <1>3, <1>4 DEF TailFits
<1>7. /\ more \in Seq(Nodes) /\ IsInjective(more)
      /\ ToSet(more) = IF Eligible(w, k) THEN ToSet(old.tail) \cup {k} ELSE ToSet(old.tail)
  <2>1. PICK t \in Seq(Nodes), e \in Nodes : t = old.tail /\ e = k
    BY <1>4
  <2>2. IsInjective(t) /\ e \notin ToSet(t)
    BY <1>3, <1>6, <2>1 DEF TailFits
  <2>3. /\ Append(t, e) \in Seq(Nodes) /\ IsInjective(Append(t, e))
        /\ ToSet(Append(t, e)) = ToSet(t) \cup {e}
    BY <2>2, AppendNew
  <2> HIDE DEF old, k
  <2> QED
    BY <2>1, <2>2, <2>3
<1> HIDE DEF more
<1>8. /\ c \in Call /\ c.phase = "tail" /\ c.probe = k + 1 /\ c.result = old.result
      /\ c.n = old.n /\ c.always = old.always /\ c.tail = more
  <2>1. old.probe + 1 \in Nat
    BY <1>4
  <2> HIDE DEF old
  <2> QED
    BY <1>1, <1>2, <1>7, <2>1 DEF Call
<1> HIDE DEF c
<1>9. TailFits(c)
  <2>1. \A n \in ToSet(more) : n < k + 1 /\ n \notin ToSet(old.result)
    <3>1. \A n \in ToSet(old.tail) : n \in Nat /\ n < k /\ n \notin ToSet(old.result)
      <4>1. PICK t \in Seq(Nodes) : t = old.tail
        BY <1>4
      <4>2. ToSet(t) \in SUBSET Nodes
        BY ElementsOf
      <4>3. \A n \in ToSet(old.tail) : n < k /\ n \notin ToSet(old.result)
        BY <1>3 DEF TailFits
      <4> QED
        BY <4>1, <4>2, <4>3, ConstantsTyped DEF Nodes
    <3> QED
      BY <1>4, <1>5, <1>7, <3>1
  <2>2. \A n \in old.always : n < k + 1 => n \in ToSet(old.result) \cup ToSet(more)
    <3> SUFFICES ASSUME NEW n \in old.always, n < k + 1
                 PROVE  n \in ToSet(old.result) \cup ToSet(more)
      OBVIOUS
    <3>1. n \in Nat /\ (n < k \/ n = k)
      BY <1>4 DEF Nodes
    <3>2. CASE n < k
      BY <1>3, <1>7, <3>2 DEF TailFits
    <3>3. CASE n = k
      BY <1>2, <1>5, <1>7, <3>3
    <3> QED
      BY <3>1, <3>2, <3>3
  <2> QED
    BY <1>4, <1>7, <1>8, <2>1, <2>2 DEF TailFits
<1>10. Fits(c, pc'[w] # "idle")
  BY <1>3, <1>8, <1>9 DEF Fits
<1> QED
  BY <1>1, <1>2, <1>8, <1>10, OutsideGet, CallMoves DEF GetNTypeOK

(* The least of two. *)
LEMMA MinOfTwo ==
  ASSUME NEW a \in Int, NEW b \in Int
  PROVE  Min({a, b}) = IF a <= b THEN a ELSE b
  BY DEF Min

LEMMA GetNAppendStep ==
  ASSUME GetNTypeOK, CallInv, NEW w \in Workers, GetNAppend(w)
  PROVE  GetNTypeOK' /\ CallInv'
<1> DEFINE old == call[w]
           joined == old.result \o Appended(w)
           c == [NoCall EXCEPT !.phase = "done", !.result = joined,
                               !.n = old.n, !.always = old.always]
<1>1. /\ old.phase = "tail" /\ old.probe = NumNodes
      /\ call' = [call EXCEPT ![w] = c]
      /\ owed' = [m \in Nodes |-> IF m \in ToSet(Appended(w)) THEN owed[m] + 1 ELSE owed[m]]
      /\ UNCHANGED <<vars, enabled, untold, stolen>>
  BY DEF GetNAppend, Ends, Record, Owe
<1>2. old \in Call /\ Fits(old, pc[w] # "idle") /\ old.always \subseteq up
  BY <1>1 DEF GetNTypeOK, CallInv, InGetN
<1>3. /\ IsInjective(old.result) /\ Len(old.result) <= old.n
      /\ IsInjective(old.tail)
      /\ \A e \in ToSet(old.tail) : e \notin ToSet(old.result)
      /\ old.always \subseteq ToSet(old.result) \cup ToSet(old.tail)
  <2>1. TailFits(old) /\ IsInjective(old.result) /\ Len(old.result) <= old.n
    BY <1>1, <1>2 DEF Fits
  <2>2. \A n \in old.always : n < old.probe
    BY <1>1, <1>2, ConstantsTyped DEF Call, Nodes
  <2> QED
    BY <2>1, <2>2 DEF TailFits
<1>4. /\ old.result \in Seq(Nodes) /\ old.tail \in Seq(Nodes) /\ old.n \in Nat
      /\ Len(old.result) \in Nat /\ Len(old.tail) \in Nat /\ old.always \in SUBSET Nodes
  BY <1>2, LenProperties DEF Call
<1> DEFINE room == old.n - Len(old.result)
           m == IF Len(old.tail) <= room THEN Len(old.tail) ELSE room
<1>5. Appended(w) = SubSeq(old.tail, 1, m)
  <2>1. Min({Len(old.tail), room}) = m
    <3>1. PICK a \in Int, b \in Int : a = Len(old.tail) /\ b = room
      BY <1>4
    <3>2. Min({a, b}) = IF a <= b THEN a ELSE b
      BY MinOfTwo
    <3> HIDE DEF old, room
    <3> QED
      BY <3>1, <3>2
  <2> QED
    BY <2>1 DEF Appended
<1>6. /\ m \in 0 .. Len(old.tail) /\ Len(old.result) + m <= old.n
      /\ m = Len(old.tail) \/ Len(old.result) + m = old.n
  BY <1>3, <1>4
<1> HIDE DEF m
<1>7. /\ joined \in Seq(Nodes) /\ Len(joined) = Len(old.result) + m /\ IsInjective(joined)
      /\ m = Len(old.tail) => ToSet(old.result) \cup ToSet(old.tail) \subseteq ToSet(joined)
  <2>1. PICK s \in Seq(Nodes), t \in Seq(Nodes) : s = old.result /\ t = old.tail
    BY <1>4
  <2>2. PICK k \in 0 .. Len(t) : k = m
    BY <1>6, <2>1
  <2>3. IsInjective(s) /\ IsInjective(t) /\ \A e \in ToSet(t) : e \notin ToSet(s)
    BY <1>3, <2>1
  <2>4. /\ s \o SubSeq(t, 1, k) \in Seq(Nodes)
        /\ Len(s \o SubSeq(t, 1, k)) = Len(s) + k
        /\ IsInjective(s \o SubSeq(t, 1, k))
        /\ k = Len(t) => ToSet(s) \cup ToSet(t) \subseteq ToSet(s \o SubSeq(t, 1, k))
    BY <2>3, JoinPrefix
  <2>5. joined = s \o SubSeq(t, 1, k)
    BY <1>5, <2>1, <2>2
  <2> HIDE DEF old, joined
  <2> QED
    BY <2>1, <2>2, <2>4, <2>5
<1> HIDE DEF joined
<1>8. /\ c \in Call /\ c.phase = "done" /\ c.result = joined /\ c.n = old.n
      /\ c.always = old.always
  <2> HIDE DEF old
  <2> QED
    BY <1>4, <1>7, NoCallFits DEF NoCall, Call, Phases
<1> HIDE DEF c
<1>9. Fits(c, pc'[w] # "idle")
  BY <1>3, <1>6, <1>7, <1>8 DEF Fits
<1>10. owed' \in [Nodes -> Nat]
  BY <1>1 DEF GetNTypeOK
<1> QED
  BY <1>1, <1>2, <1>8, <1>9, <1>10, OutsideGet, CallMoves DEF GetNTypeOK

LEMMA GetNReturnStep ==
  ASSUME GetNTypeOK, CallInv, NEW w \in Workers, GetNReturn(w)
  PROVE  GetNTypeOK' /\ CallInv'
<1>1. /\ call' = [call EXCEPT ![w] = NoCall]
      /\ UNCHANGED <<vars, enabled, untold, owed, stolen>>
  BY DEF GetNReturn, Record
<1>2. NoCall.phase = "none" /\ NoCall.always = {}
  BY DEF NoCall
<1> QED
  BY <1>1, <1>2, NoCallFits, OutsideGet, CallMoves DEF GetNTypeOK

(* A node given out is owed, and no call changes. *)
LEMMA OweStep ==
  ASSUME GetNTypeOK, CallInv, NEW given, Owe(given),
         UNCHANGED <<vars, enabled, call, untold, stolen>>
  PROVE  GetNTypeOK' /\ CallInv'
<1>1. owed' \in [Nodes -> Nat]
  BY DEF Owe, GetNTypeOK
<1>2. stolen' \in [Nodes -> Nat] /\ (NoneStolen' => NoneStolen)
  BY DEF GetNTypeOK, NoneStolen
<1> QED
  BY <1>1, <1>2, OutsideGet, CallRests

LEMMA GetNStepKeeps ==
  ASSUME TypeOK, HandsInv, GetNTypeOK, CallInv, NoneStolen => IInv,
         NEW w \in Workers, GetNStep(w)
  PROVE  GetNTypeOK' /\ CallInv'
<1>1. ASSUME NEW n \in Counts, NEW h \in Hashes, StartGetN(w, n, h)
      PROVE  GetNTypeOK' /\ CallInv'
  <2>1. n \in Nat
    BY CountsAssumption
  <2> QED
    BY <1>1, <2>1, StartGetNStep
<1>2. ASSUME NEW r \in Routed, GetNProbe(w, r)
      PROVE  GetNTypeOK' /\ CallInv'
  <2>1. /\ call' = call /\ enabled' = enabled /\ untold' = untold
        /\ owed' = owed /\ stolen' = stolen
        /\ up' = up /\ pc' = [pc EXCEPT ![w] = "probing"]
        /\ Len(call[w].result) < call[w].n
    BY <1>2 DEF GetNProbe, LoopsOn, Get, getNVars, shared
  <2>2. \A v \in Workers : pc'[v] # "idle" /\ pc[v] = "idle" => v = w
    BY <2>1 DEF TypeOK
  <2>3. NoneStolen' => NoneStolen
    BY <2>1 DEF NoneStolen
  <2>4. owed' \in [Nodes -> Nat] /\ stolen' \in [Nodes -> Nat]
    BY <2>1 DEF GetNTypeOK
  <2> QED
    BY <2>1, <2>2, <2>3, <2>4, CallRests
<1>3. ASSUME NEW n \in Counts, NEW h \in Hashes, DisabledGetN(w, n, h)
      PROVE  GetNTypeOK' /\ CallInv'
  BY <1>3, OweStep DEF DisabledGetN
<1>4. ASSUME NEW h \in Hashes, DisabledGet(w, h)
      PROVE  GetNTypeOK' /\ CallInv'
  BY <1>4, OweStep DEF DisabledGet
<1> QED
  BY <1>1, <1>2, <1>3, <1>4, GetNCountedStep, GetNFailsStep, GetNFullStep,
     GetNTailStep, GetNFilterStep, GetNAppendStep, GetNReturnStep DEF GetNStep

(* Operations outside get_n, of a worker that is in no call of it or goes  *)
(* on with what it was doing.                                              *)
LEMMA OtherSteps ==
  ASSUME TypeOK, GetNTypeOK, CallInv, NEW w \in Workers, call' = call, up' = up,
         enabled' = enabled, untold' = untold, owed' \in [Nodes -> Nat],
         stolen' \in [Nodes -> Nat], NoneStolen' => NoneStolen,
         pc[w] # "idle" \/ ~InGetN(w),
         \A v \in Workers : v # w => pc'[v] = pc[v]
  PROVE  GetNTypeOK' /\ CallInv'
<1>1. \A v \in Workers : pc'[v] # "idle" /\ pc[v] = "idle" => v = w
  OBVIOUS
<1> QED
  BY <1>1, CallRests

LEMMA ReleaseOwedStep ==
  ASSUME TypeOK, GetNTypeOK, CallInv, NEW w \in Workers, NEW n \in Nodes,
         ReleaseOwed(w, n)
  PROVE  GetNTypeOK' /\ CallInv' /\ ~NoneStolen'
<1>1. /\ ~InGetN(w) /\ owed[n] > 0
      /\ owed' = [owed EXCEPT ![n] = owed[n] - 1]
      /\ stolen' = [stolen EXCEPT ![n] = stolen[n] + 1]
      /\ UNCHANGED <<up, enabled, call, untold>>
      /\ pc' = [pc EXCEPT ![w] = "dropping"]
  BY DEF ReleaseOwed, Lower
<1>2. owed[n] - 1 \in Nat /\ stolen[n] + 1 \in Nat
  BY <1>1 DEF GetNTypeOK
<1>3. owed' \in [Nodes -> Nat] /\ stolen' \in [Nodes -> Nat] /\ stolen'[n] = stolen[n] + 1
  BY <1>1, <1>2 DEF GetNTypeOK
<1>4. ~NoneStolen'
  BY <1>3 DEF NoneStolen, GetNTypeOK
<1>5. \A v \in Workers : v # w => pc'[v] = pc[v]
  BY <1>1 DEF TypeOK
<1> QED
  BY <1>1, <1>3, <1>4, <1>5, OtherSteps

LEMMA SetHealthyStep ==
  ASSUME TypeOK, GetNTypeOK, CallInv,
         NEW id \in Nodes \cup Strangers, NEW healthy \in BOOLEAN,
         SetHealthyAnyTime(id, healthy)
  PROVE  GetNTypeOK' /\ CallInv'
<1>1. /\ call' = [v \in Workers |->
                    IF InGetN(v) THEN [call[v] EXCEPT !.always = call[v].always \cap up']
                                 ELSE NoCall]
      /\ UNCHANGED <<enabled, untold, owed, stolen, pc>>
  BY DEF SetHealthyAnyTime, SetHealthy
<1>2. ASSUME NEW v \in Workers
      PROVE  /\ call'[v] \in Call
             /\ Fits(call'[v], pc'[v] # "idle")
             /\ call'[v].phase # "none" => call'[v].always \subseteq up'
             /\ call'[v].phase = "failed" /\ NoneStolen' => call'[v].always = {}
  <2>1. CASE ~InGetN(v)
    <3>1. call'[v] = NoCall
      BY <1>1, <2>1
    <3>2. NoCall.phase = "none"
      BY DEF NoCall
    <3> QED
      BY <3>1, <3>2, NoCallFits
  <2>2. CASE InGetN(v)
    <3> DEFINE old == call[v]
    <3>0. PICK A \in SUBSET Nodes : A = old.always \cap up'
      BY DEF GetNTypeOK, Call
    <3> DEFINE c == [old EXCEPT !.always = A]
    <3>1. call'[v] = c
      BY <1>1, <2>2, <3>0
    <3>2. old \in Call /\ Fits(old, pc[v] # "idle")
      BY DEF GetNTypeOK, CallInv
    <3>3. old.phase = "failed" /\ NoneStolen => old.always = {}
      BY DEF CallInv
    <3>4. A \subseteq old.always /\ A \subseteq up'
      BY <3>0
    <3> HIDE DEF old
    <3>5. /\ c \in Call /\ c.phase = old.phase /\ c.n = old.n /\ c.probe = old.probe
          /\ c.result = old.result /\ c.tail = old.tail /\ c.always = A
      BY <3>2 DEF Call
    <3> HIDE DEF c
    <3>6. NoneStolen' <=> NoneStolen
      BY <1>1 DEF NoneStolen
    <3>7. TailFits(old) => TailFits(c)
      BY <3>4, <3>5 DEF TailFits
    <3>8. (pc'[v] # "idle") = (pc[v] # "idle")
      BY <1>1
    <3>9. Fits(c, pc[v] # "idle")
      BY <3>2, <3>4, <3>5, <3>7 DEF Fits
    <3> QED
      BY <3>1, <3>3, <3>4, <3>5, <3>6, <3>8, <3>9
  <2> QED
    BY <2>1, <2>2
<1>3. GetNTypeOK'
  <2>1. \A v \in Workers : call'[v] \in Call
    BY <1>2
  <2>2. DOMAIN call' = Workers /\ call' = [v \in Workers |-> call'[v]]
    BY <1>1
  <2>3. call' \in [Workers -> Call]
    BY <2>1, <2>2
  <2> QED
    BY <1>1, <2>3 DEF GetNTypeOK
<1> QED
  BY <1>2, <1>3 DEF CallInv, InGetN

LEMMA CallStep ==
  TypeOK /\ HandsInv /\ GetNTypeOK /\ CallInv /\ (NoneStolen => IInv) /\ GetNNext
    => GetNTypeOK' /\ CallInv'
<1> SUFFICES ASSUME TypeOK, HandsInv, GetNTypeOK, CallInv, NoneStolen => IInv, GetNNext
             PROVE  GetNTypeOK' /\ CallInv'
  OBVIOUS
<1>0. UNCHANGED getNVars =>
        /\ UNCHANGED <<enabled, call, untold, owed, stolen>>
        /\ owed' \in [Nodes -> Nat] /\ stolen' \in [Nodes -> Nat]
        /\ NoneStolen' => NoneStolen
  BY DEF getNVars, GetNTypeOK, NoneStolen
<1>1. ASSUME NEW w \in Workers, GetAlone(w) PROVE GetNTypeOK' /\ CallInv'
  <2>1. ~InGetN(w) /\ UNCHANGED getNVars /\ up' = up /\ pc' = [pc EXCEPT ![w] = "probing"]
    BY <1>1 DEF GetAlone, GetSome, Get, shared
  <2>2. \A v \in Workers : v # w => pc'[v] = pc[v]
    BY <2>1 DEF TypeOK
  <2> QED
    BY <1>0, <2>1, <2>2, OtherSteps
<1>2. ASSUME NEW w \in Workers, ProceedQuietly(w) PROVE GetNTypeOK' /\ CallInv'
  <2>1. Proceed(w) /\ UNCHANGED getNVars
    BY <1>2 DEF ProceedQuietly, Proceed
  <2>2. pc[w] # "idle" /\ up' = up /\ \A v \in Workers : v # w => pc'[v] = pc[v]
    BY <2>1, InsideGet
  <2> QED
    BY <1>0, <2>1, <2>2, OtherSteps
<1>3. ASSUME NEW w \in Workers, NEW r \in Manual, NEW n \in Nodes, AcquireAlone(w, r, n)
      PROVE  GetNTypeOK' /\ CallInv'
  <2>1. /\ ~InGetN(w) /\ UNCHANGED getNVars /\ up' = up
        /\ pc' = [pc EXCEPT ![w] = "acquiring"]
    BY <1>3 DEF AcquireAlone, Acquire
  <2>2. \A v \in Workers : v # w => pc'[v] = pc[v]
    BY <2>1 DEF TypeOK
  <2> QED
    BY <1>0, <2>1, <2>2, OtherSteps
<1>4. ASSUME NEW w \in Workers, NEW r \in Requests, ReleaseKnown(w, r)
      PROVE  GetNTypeOK' /\ CallInv'
  <2>1. /\ ~InGetN(w) /\ UNCHANGED getNVars /\ up' = up
        /\ pc' = [pc EXCEPT ![w] = "dropping"]
    BY <1>4 DEF ReleaseKnown, Release
  <2>2. \A v \in Workers : v # w => pc'[v] = pc[v]
    BY <2>1 DEF TypeOK
  <2> QED
    BY <1>0, <2>1, <2>2, OtherSteps
<1> QED
  BY <1>1, <1>2, <1>3, <1>4, GetNStepKeeps, ReleaseOwedStep, SetHealthyStep DEF GetNNext

-----------------------------------------------------------------------------
(* Each step of get_n is a step of BoundedRing or none, but for a release  *)
(* of a node that was not counted.                                         *)
LEMMA RingSteps ==
  ASSUME GetNTypeOK, GetNNext
  PROVE  \/ stolen' = stolen /\ (Next \/ UNCHANGED vars)
         \/ \E w \in Workers, n \in Nodes : ReleaseOwed(w, n)
<1>1. ASSUME NEW w \in Workers, GetNStep(w)
      PROVE  stolen' = stolen /\ (Next \/ UNCHANGED vars)
  <2>1. ASSUME NEW r \in Routed, GetNProbe(w, r) PROVE stolen' = stolen /\ Next
    <3>1. call[w].hash \in Hashes
      BY DEF GetNTypeOK, Call
    <3> QED
      BY <2>1, <3>1 DEF GetNProbe, Next, GetSome, getNVars
  <2>2. CASE GetNCounted(w)
    BY <2>2 DEF GetNCounted, Next, Proceed
  <2>3. CASE GetNFails(w)
    BY <2>3 DEF GetNFails, Next, Proceed
  <2> QED
    BY <1>1, <2>1, <2>2, <2>3
       DEF GetNStep, StartGetN, GetNFull, GetNTail, GetNFilter, GetNAppend, GetNReturn,
           DisabledGetN, DisabledGet
<1>2. ASSUME NEW w \in Workers, GetAlone(w) \/ ProceedQuietly(w)
      PROVE  stolen' = stolen /\ Next
  BY <1>2 DEF GetAlone, ProceedQuietly, Proceed, Next, getNVars
<1>3. ASSUME NEW w \in Workers, NEW r \in Manual, NEW n \in Nodes, AcquireAlone(w, r, n)
      PROVE  stolen' = stolen /\ Next
  BY <1>3 DEF AcquireAlone, Next, getNVars
<1>4. ASSUME NEW w \in Workers, NEW r \in Requests, ReleaseKnown(w, r)
      PROVE  stolen' = stolen /\ Next
  BY <1>4 DEF ReleaseKnown, Next, getNVars
<1>5. ASSUME NEW id \in Nodes \cup Strangers, NEW healthy \in BOOLEAN,
             SetHealthyAnyTime(id, healthy)
      PROVE  stolen' = stolen /\ Next
  BY <1>5 DEF SetHealthyAnyTime, Next
<1> QED
  BY <1>1, <1>2, <1>3, <1>4, <1>5 DEF GetNNext

-----------------------------------------------------------------------------
(* Counters that wrap add up. *)
LEMMA WrapsAddUp ==
  ASSUME NEW m \in Nat \ {0}, NEW x \in Int, NEW d \in Int
  PROVE  ((x % m) + d) % m = (x + d) % m
<1>1. PICK q \in Int, r \in 0 .. m - 1 : r = x % m /\ x = m * q + r
  OBVIOUS
<1>2. PICK p \in Int, s \in 0 .. m - 1 : s = (r + d) % m /\ r + d = m * p + s
  OBVIOUS
<1>3. PICK u \in Int, t \in 0 .. m - 1 : t = (x + d) % m /\ x + d = m * u + t
  OBVIOUS
<1>4. t - s = m * (q + p - u)
  <2>1. m * (q + p - u) = m * q + m * p - m * u
    OBVIOUS
  <2>2. PICK a \in Int, b \in Int, c \in Int : a = m * q /\ b = m * p /\ c = m * u
    OBVIOUS
  <2>3. x = a + r /\ r + d = b + s /\ x + d = c + t
    BY <1>1, <1>2, <1>3, <2>2, Zenon
  <2>4. t - s = a + b - c
    BY <2>3
  <2> QED
    BY <2>1, <2>2, <2>4, Zenon
<1>5. PICK e \in Int : e = q + p - u
  OBVIOUS
<1>6. t - s = m * e
  BY <1>4, <1>5
<1>7. e >= 1 => m * e >= m
  OBVIOUS
<1>8. e <= -1 => m * e <= -m
  OBVIOUS
<1>9. -m < t - s /\ t - s < m
  OBVIOUS
<1>10. e = 0
  BY <1>6, <1>7, <1>8, <1>9
<1>11. t = s
  BY <1>6, <1>10
<1> QED
  BY <1>1, <1>2, <1>3, <1>11

Taken == SumOver(stolen, Nodes)

(* CountersExplained in the terms of the proof. *)
Explained ==
  /\ \A n \in Nodes : load[n] = (Cardinality(CountedOn(n)) - stolen[n]) % LoadRange
  /\ total = (Cardinality(CountedInTotal) - Taken + Cardinality(Uncounted)) % LoadRange

LEMMA ExplainedIs ==
  /\ CountersExplained <=> Explained
  /\ CountersExplained' <=> Explained'
<1>1. CountersExplained <=> Explained
  BY DEF CountersExplained, Explained, Taken, SumOver, Uncounted
<1>2. CountersExplained' <=> Explained'
  BY DEF CountersExplained, Explained, Taken, SumOver, Uncounted, MapThenSumSet,
         MapThenFoldSet
<1> QED
  BY <1>1, <1>2

LEMMA TakenChanges ==
  ASSUME GetNTypeOK
  PROVE  /\ Taken \in Int
         /\ stolen' = stolen => Taken' = Taken
         /\ \A n \in Nodes : stolen' = [stolen EXCEPT ![n] = stolen[n] + 1]
                               => Taken' = Taken + 1
<1>1. IsFiniteSet(Nodes)
  BY NodesFinite
<1>2. PICK f : f = stolen /\ \A m \in Nodes : f[m] \in Int
  BY DEF GetNTypeOK
<1>3. SumOver(f, Nodes) \in Int
  <2>1. PICK n \in Nodes, d \in Int : f[n] = f[n] + d
    <3>1. 0 \in Nodes /\ f[0] \in Int
      BY <1>2, ConstantsTyped DEF Nodes
    <3> QED
      BY <3>1
  <2> QED
    BY <1>1, <1>2, <2>1, SumChanges
<1>4. Taken = SumOver(f, Nodes)
  BY <1>2 DEF Taken
<1>5. stolen' = stolen => Taken' = Taken
  BY DEF Taken, SumOver, MapThenSumSet, MapThenFoldSet
<1>6. ASSUME NEW n \in Nodes, stolen' = [stolen EXCEPT ![n] = stolen[n] + 1]
      PROVE  Taken' = Taken + 1
  <2>1. PICK h : h = stolen'
    OBVIOUS
  <2> DEFINE d == 1
  <2>2. /\ h[n] = f[n] + d /\ d \in Int
        /\ \A m \in Nodes : m # n => h[m] = f[m]
    BY <1>2, <1>6, <2>1 DEF GetNTypeOK
  <2> HIDE DEF d
  <2>3. SumOver(h, Nodes) = SumOver(f, Nodes) + d
    BY <1>1, <1>2, <2>2, SumChanges
  <2>4. SumOver(h, Nodes) = SumOver(f, Nodes) + 1
    BY <2>3 DEF d
  <2>5. Taken' = SumOver(h, Nodes)
    BY <2>1 DEF Taken, SumOver, MapThenSumSet, MapThenFoldSet
  <2> QED
    BY <1>4, <2>4, <2>5
<1> QED
  BY <1>3, <1>4, <1>5, <1>6

LEMMA SetsCounted ==
  ASSUME TypeOK
  PROVE  /\ \A n \in Nodes : Cardinality(CountedOn(n)) \in Nat
         /\ Cardinality(CountedInTotal) \in Nat
         /\ Cardinality(Uncounted) \in Nat
<1>1. /\ \A n \in Nodes : CountedOn(n) \in SUBSET Requests
      /\ CountedInTotal \in SUBSET Requests
      /\ Uncounted \in SUBSET Workers
  BY DEF CountedOn, CountedInTotal, Uncounted
<1> QED
  BY <1>1, RequestSets, WorkersFinite

(* In a step of BoundedRing the counters follow the sets they count. *)
LEMMA ExplainedFollows ==
  ASSUME TypeOK, TypeOK', HandsInv, GetNTypeOK, Explained, Next, stolen' = stolen
  PROVE  Explained'
<1>0. LoadRange \in Nat \ {0}
  BY ConstantsTyped
<1>1. CountersFollow
  BY CountersStep
<1>2. ASSUME NEW n \in Nodes
      PROVE  load'[n] = (Cardinality(CountedOn(n)') - stolen'[n]) % LoadRange
  <2>1. PICK a \in Nat, b \in Nat, s \in Nat :
          a = Cardinality(CountedOn(n)) /\ b = Cardinality(CountedOn(n)') /\ s = stolen[n]
    <3>1. Cardinality(CountedOn(n)') \in Nat
      <4>1. CountedOn(n)' \in SUBSET Requests
        BY DEF CountedOn
      <4> QED
        BY <4>1, RequestSets
    <3> QED
      BY <3>1, SetsCounted DEF GetNTypeOK
  <2>2. load'[n] = (((a - s) % LoadRange) + (b - a)) % LoadRange
    BY <1>1, <2>1 DEF CountersFollow, Explained
  <2>3. PICK x \in Int, d \in Int : x = a - s /\ d = b - a
    BY <2>1
  <2>4. ((x % LoadRange) + d) % LoadRange = (x + d) % LoadRange
    BY <1>0, WrapsAddUp
  <2>5. x + d = b - s
    BY <2>1, <2>3
  <2> QED
    BY <2>1, <2>2, <2>3, <2>4, <2>5
<1>3. total' = (Cardinality(CountedInTotal') - Taken' + Cardinality(Uncounted')) % LoadRange
  <2>1. PICK a \in Nat, b \in Nat, t \in Int, i \in Nat, j \in Nat :
          /\ a = Cardinality(CountedInTotal) /\ b = Cardinality(CountedInTotal')
          /\ t = Taken
          /\ i = Cardinality(Uncounted) /\ j = Cardinality(Uncounted')
    <3>1. Cardinality(CountedInTotal') \in Nat /\ Cardinality(Uncounted') \in Nat
      <4>1. CountedInTotal' \in SUBSET Requests /\ Uncounted' \in SUBSET Workers
        BY DEF CountedInTotal, Uncounted
      <4> QED
        BY <4>1, RequestSets, WorkersFinite
    <3> QED
      BY <3>1, SetsCounted, TakenChanges
  <2>2. Taken' = t
    BY <2>1, TakenChanges
  <2>3. PICK x \in Int, d \in Int : x = a - t + i /\ d = (b - a) + (j - i)
    BY <2>1
  <2>4. total = x % LoadRange
    BY <2>1, <2>3 DEF Explained
  <2>5. total' = (total + (b - a) + (j - i)) % LoadRange
    BY <1>1, <2>1 DEF CountersFollow
  <2>6. total + (b - a) + (j - i) = total + d
    BY SMTT(30), <2>1, <2>3 DEF TypeOK
  <2>7. total' = ((x % LoadRange) + d) % LoadRange
    BY <2>4, <2>5, <2>6
  <2>8. ((x % LoadRange) + d) % LoadRange = (x + d) % LoadRange
    BY <1>0, WrapsAddUp
  <2>9. x + d = b - t + j
    BY <2>1, <2>3
  <2>10. total' = (b - t + j) % LoadRange
    BY <2>7, <2>8, <2>9, Zenon
  <2> QED
    BY <2>1, <2>2, <2>10
<1> QED
  BY <1>2, <1>3 DEF Explained

(* A release of a node that was not counted. *)
LEMMA OwedReleased ==
  ASSUME TypeOK, HandsInv, GetNTypeOK, Explained, NEW w \in Workers, NEW n \in Nodes,
         ReleaseOwed(w, n)
  PROVE  TypeOK' /\ HandsInv' /\ Explained'
<1>0. LoadRange \in Nat \ {0} /\ None \notin Requests /\ None \notin Nodes
  BY ConstantsTyped
<1>1. /\ pc[w] = "idle" /\ job[w] = None
      /\ load' = [load EXCEPT ![n] = (load[n] - 1) % LoadRange]
      /\ pc' = [pc EXCEPT ![w] = "dropping"]
      /\ UNCHANGED <<total, up, held, job, start, at, cap, pick, low>>
      /\ stolen' = [stolen EXCEPT ![n] = stolen[n] + 1]
  BY DEF ReleaseOwed, Lower, HandsInv
<1>2. TypeOK'
  <2>1. (load[n] - 1) % LoadRange \in 0 .. LoadRange - 1
    BY WrapTyped DEF TypeOK
  <2> QED
    BY <1>1, <2>1 DEF TypeOK
<1>3. /\ pc'[w] = "dropping"
      /\ \A v \in Workers : v # w => pc'[v] = pc[v]
  BY <1>1 DEF TypeOK
<1>4. HandsInv'
  BY <1>1, <1>3 DEF HandsInv, Reading
<1>5. \A m \in Nodes : CountedOn(m)' = CountedOn(m)
  BY <1>0, <1>1, <1>3 DEF CountedOn
<1>6. CountedInTotal' = CountedInTotal
  BY <1>0, <1>1, <1>3 DEF CountedInTotal
<1>7. Cardinality(Uncounted') = Cardinality(Uncounted) + 1
  <2>1. Uncounted' = Uncounted \cup {w} /\ w \notin Uncounted
    BY <1>1, <1>3 DEF Uncounted
  <2>2. PICK U \in SUBSET Workers : U = Uncounted
    BY DEF Uncounted
  <2>3. IsFiniteSet(U)
    BY WorkersFinite
  <2>4. w \notin U => Cardinality(U \cup {w}) = Cardinality(U) + 1
    BY <2>3, FS_AddElement
  <2> QED
    BY <2>1, <2>2, <2>4
<1>8. ASSUME NEW m \in Nodes
      PROVE  load'[m] = (Cardinality(CountedOn(m)') - stolen'[m]) % LoadRange
  <2>1. PICK a \in Nat, s \in Nat : a = Cardinality(CountedOn(m)) /\ s = stolen[m]
    BY SetsCounted DEF GetNTypeOK
  <2>2. Cardinality(CountedOn(m)') = a
    BY <1>5, <2>1
  <2>3. load[m] = (a - s) % LoadRange
    BY <2>1 DEF Explained
  <2>4. CASE m = n
    <3>1. load'[m] = (load[m] - 1) % LoadRange /\ stolen'[m] = s + 1
      BY <1>1, <2>1, <2>4 DEF TypeOK, GetNTypeOK
    <3>2. PICK x \in Int, d \in Int : x = a - s /\ d = -1
      OBVIOUS
    <3>3. load[m] - 1 = load[m] + d
      BY <3>2 DEF TypeOK
    <3>4. load'[m] = ((x % LoadRange) + d) % LoadRange
      BY <2>3, <3>1, <3>2, <3>3, Zenon
    <3>5. ((x % LoadRange) + d) % LoadRange = (x + d) % LoadRange
      BY <1>0, WrapsAddUp
    <3>6. x + d = a - (s + 1)
      BY <3>2
    <3> QED
      BY <2>2, <3>1, <3>4, <3>5, <3>6, Zenon
  <2>5. CASE m # n
    <3>1. load'[m] = load[m] /\ stolen'[m] = s
      BY <1>1, <2>1, <2>5 DEF TypeOK, GetNTypeOK
    <3> QED
      BY <2>2, <2>3, <3>1, Zenon
  <2> QED
    BY <2>4, <2>5
<1>9. total' = (Cardinality(CountedInTotal') - Taken' + Cardinality(Uncounted')) % LoadRange
  <2>1. PICK a \in Nat, t \in Int, i \in Nat :
          a = Cardinality(CountedInTotal) /\ t = Taken /\ i = Cardinality(Uncounted)
    BY SetsCounted, TakenChanges
  <2>2. total' = (a - t + i) % LoadRange
    BY <1>1, <2>1 DEF Explained
  <2>3. /\ Cardinality(CountedInTotal') = a /\ Taken' = t + 1
        /\ Cardinality(Uncounted') = i + 1
    BY <1>1, <1>6, <1>7, <2>1, TakenChanges
  <2>4. a - (t + 1) + (i + 1) = a - t + i
    BY <2>1
  <2> QED
    BY <2>2, <2>3, <2>4, Zenon
<1> QED
  BY <1>2, <1>4, <1>8, <1>9 DEF Explained

LEMMA StutterTyped ==
  TypeOK /\ HandsInv /\ UNCHANGED vars => TypeOK' /\ HandsInv'
  BY DEF TypeOK, HandsInv, vars

LEMMA StutterExplained ==
  ASSUME Explained, UNCHANGED vars, stolen' = stolen
  PROVE  Explained'
<1>1. Taken' = Taken
  BY DEF Taken, SumOver, MapThenSumSet, MapThenFoldSet
<1>2. /\ \A n \in Nodes : CountedOn(n)' = CountedOn(n)
      /\ CountedInTotal' = CountedInTotal /\ Uncounted' = Uncounted
      /\ load' = load /\ total' = total
  BY DEF vars, CountedOn, CountedInTotal, Uncounted
<1> QED
  BY <1>1, <1>2 DEF Explained

LEMMA IInvStep == IInv /\ Next => IInv'
  BY TypeStep, JobStep, PickStep, AccountingStep DEF IInv

-----------------------------------------------------------------------------
LEMMA GetNInitially == GetNInit => GetNInv
<1> SUFFICES ASSUME GetNInit PROVE GetNInv
  OBVIOUS
<1>1. IInv
  BY InitIInv DEF GetNInit, Init
<1>2. TypeOK /\ HandsInv
  BY <1>1 DEF IInv, JobInv
<1>3. GetNTypeOK /\ NoneStolen
  BY NoCallFits DEF GetNInit, GetNTypeOK, NoneStolen
<1>4. CallInv
  <2>1. \A w \in Workers : call[w] = NoCall
    BY DEF GetNInit
  <2>2. NoCall.phase = "none"
    BY DEF NoCall
  <2> QED
    BY <2>1, <2>2, NoCallFits DEF CallInv, InGetN
<1>5. Explained
  <2>0. LoadRange \in Nat \ {0}
    BY ConstantsTyped
  <2>1. Taken = 0
    <3>1. PICK f : f = stolen /\ \A m \in Nodes : f[m] = 0
      BY <1>3 DEF NoneStolen
    <3> QED
      BY <3>1, NodesFinite, SumOfZeros DEF Taken
  <2>2. Cardinality(Uncounted) = 0
    <3>1. Uncounted = {}
      BY DEF GetNInit, Init, InitWith, Uncounted
    <3> QED
      BY <3>1, FS_EmptySet
  <2>3. \A x \in 0 .. LoadRange - 1 : x = (x - 0) % LoadRange /\ x = (x - 0 + 0) % LoadRange
    BY <2>0
  <2>4. /\ \A n \in Nodes : load[n] = Cardinality(CountedOn(n)) /\ stolen[n] = 0
        /\ total = Cardinality(CountedInTotal)
        /\ \A n \in Nodes : load[n] \in 0 .. LoadRange - 1
        /\ total \in 0 .. LoadRange - 1
    BY <1>1, <1>2, <1>3 DEF IInv, Accounting, NoneStolen, TypeOK
  <2>5. ASSUME NEW n \in Nodes
        PROVE  load[n] = (Cardinality(CountedOn(n)) - stolen[n]) % LoadRange
    BY <2>3, <2>4
  <2>6. total = (Cardinality(CountedInTotal) - Taken + Cardinality(Uncounted)) % LoadRange
    BY <2>1, <2>2, <2>3, <2>4
  <2> QED
    BY <2>5, <2>6 DEF Explained
<1> QED
  BY <1>1, <1>2, <1>3, <1>4, <1>5, ExplainedIs DEF GetNInv

LEMMA GetNInvStep == GetNInv /\ [GetNNext]_allVars => GetNInv'
<1> SUFFICES ASSUME GetNInv, [GetNNext]_allVars PROVE GetNInv'
  OBVIOUS
<1>0. /\ TypeOK /\ HandsInv /\ GetNTypeOK /\ CallInv /\ Explained
      /\ NoneStolen => IInv
  BY ExplainedIs DEF GetNInv
<1>1. CASE UNCHANGED allVars
  <2>1. UNCHANGED vars /\ UNCHANGED <<enabled, call, untold, owed, stolen>>
    BY <1>1 DEF allVars, getNVars
  <2>2. TypeOK' /\ HandsInv' /\ Explained'
    BY <1>0, <2>1, StutterTyped, StutterExplained
  <2>3. GetNTypeOK' /\ CallInv'
    BY <1>0, <2>1 DEF vars, GetNTypeOK, CallInv, InGetN, NoneStolen
  <2>4. NoneStolen' => IInv'
    BY <1>0, <2>1, StutterIInv DEF NoneStolen
  <2> QED
    BY <2>2, <2>3, <2>4, ExplainedIs DEF GetNInv
<1>2. CASE GetNNext
  <2>1. GetNTypeOK' /\ CallInv'
    BY <1>0, <1>2, CallStep
  <2>2. CASE stolen' = stolen /\ Next
    <3>1. TypeOK' /\ HandsInv'
      BY <1>0, <2>2, TypeStep, HandsStep
    <3>2. Explained'
      BY <1>0, <2>2, <3>1, ExplainedFollows
    <3>3. NoneStolen' => IInv'
      BY <1>0, <2>2, IInvStep DEF NoneStolen
    <3> QED
      BY <2>1, <3>1, <3>2, <3>3, ExplainedIs DEF GetNInv
  <2>3. CASE stolen' = stolen /\ UNCHANGED vars
    <3>1. TypeOK' /\ HandsInv' /\ Explained'
      BY <1>0, <2>3, StutterTyped, StutterExplained
    <3>2. NoneStolen' => IInv'
      BY <1>0, <2>3, StutterIInv DEF NoneStolen
    <3> QED
      BY <2>1, <3>1, <3>2, ExplainedIs DEF GetNInv
  <2>4. CASE \E w \in Workers, n \in Nodes : ReleaseOwed(w, n)
    <3>1. TypeOK' /\ HandsInv' /\ Explained' /\ ~NoneStolen'
      BY <1>0, <2>4, OwedReleased, ReleaseOwedStep
    <3> QED
      BY <2>1, <3>1, ExplainedIs DEF GetNInv
  <2> QED
    BY <1>0, <1>2, <2>2, <2>3, <2>4, RingSteps
<1> QED
  BY <1>1, <1>2

(* The invariant of get_n and the disabled ring holds in every state they  *)
(* reach.                                                                  *)
THEOREM GetNInvariant == GetNSpec => []GetNInv
<1> QED
  BY GetNInitially, GetNInvStep, PTL DEF GetNSpec

(* get_n comes back with n different nodes or with every node that was up  *)
(* throughout, whatever other threads do meanwhile (bounded.rs 176-205).   *)
THEOREM GetNIsComplete == GetNSpec => []GetNComplete
<1>1. GetNInv => GetNComplete
  BY DEF GetNInv, CallInv, Fits, GetNComplete, NoneStolen
<1> QED
  BY <1>1, GetNInvariant, PTL

(* The counters are off by the releases of nodes that were never counted   *)
(* and by nothing else, however often they wrap (bounded.rs 59-71).        *)
THEOREM CountersAreExplained == GetNSpec => []CountersExplained
<1>1. GetNInv => CountersExplained
  BY DEF GetNInv
<1> QED
  BY <1>1, GetNInvariant, PTL

-----------------------------------------------------------------------------
(* One thread.  Nothing changes while it looks for a node, so what it has  *)
(* seen of the nodes so far still holds.                                   *)
Alone == \A v, w \in Workers : v = w

(* The probes that find a healthy node within the cap. *)
Rooms(w) == {k \in 0 .. MaxProbes - 1 : Probed(w, k) \in up \ Overloaded}

(* The fallback has looked at the nodes below at[w].  A load that wrapped  *)
(* to the top of its range is none it finds.                               *)
LeastSoFar(w) ==
  /\ at[w] <= NumNodes
  /\ IF pick[w] = None
     THEN /\ low[w] = LoadRange - 1
          /\ \A n \in UpNodes : n < at[w] => load[n] = LoadRange - 1
     ELSE /\ pick[w] \in UpNodes /\ low[w] = load[pick[w]] /\ pick[w] < at[w]
          /\ \A n \in UpNodes : n < at[w] =>
               load[pick[w]] < load[n] \/ (load[pick[w]] = load[n] /\ pick[w] <= n)

Settled(w) ==
  IF Rooms(w) # {} THEN pick[w] = Probed(w, Min(Rooms(w)))
  ELSE \A n \in UpNodes :
         load[pick[w]] < load[n] \/ (load[pick[w]] = load[n] /\ pick[w] <= n)

AloneInv ==
  \A w \in Workers :
    /\ pc[w] = "probing" =>
         /\ cap[w] = MaxLoad /\ at[w] <= MaxProbes
         /\ \A k \in Rooms(w) : at[w] <= k
    /\ pc[w] = "scanning" => Rooms(w) = {} /\ LeastSoFar(w)
    /\ pc[w] = "adding" => Settled(w)

(* The steps of a worker that is looking for a node. *)
LEMMA RoomsStay ==
  ASSUME UNCHANGED <<load, total, up>>
  PROVE  /\ MaxLoad' = MaxLoad /\ Overloaded' = Overloaded /\ UpNodes' = UpNodes
         /\ \A w \in Workers : start'[w] = start[w] => Rooms(w)' = Rooms(w)
<1>1. MaxLoad' = MaxLoad /\ UpNodes' = UpNodes
  BY DEF MaxLoad, UpNodes
<1>2. Overloaded' = Overloaded
  BY <1>1 DEF Overloaded
<1>3. ASSUME NEW w \in Workers, start'[w] = start[w] PROVE Rooms(w)' = Rooms(w)
  <2>1. \A k \in 0 .. MaxProbes - 1 : Probed(w, k)' = Probed(w, k)
    BY <1>3 DEF Probed
  <2> QED
    BY <1>2, <2>1 DEF Rooms
<1> QED
  BY <1>1, <1>2, <1>3

LEMMA RoomIffAccepted ==
  ASSUME TypeOK, NEW w \in Workers, cap[w] = MaxLoad, NEW k \in 0 .. MaxProbes - 1
  PROVE  k \in Rooms(w) <=> Accepts(w, Probed(w, k))
<1>1. PICK n \in Nodes : n = Probed(w, k)
  <2>1. start[w] \in 0 .. Len(Points) - 1 /\ k \in Nat
    BY DEF TypeOK
  <2> QED
    BY <2>1, ProbedIsNode DEF Probed
<1>2. load[n] \in Nat /\ MaxLoad \in Nat
  BY MaxLoadIsNat, ConstantsTyped DEF TypeOK
<1>3. n \in up \ Overloaded <=> n \in up /\ load[n] <= cap[w]
  BY <1>2 DEF Overloaded
<1> QED
  BY <1>1, <1>3 DEF Rooms, Accepts

LEMMA ScanStep ==
  ASSUME TypeOK, NEW w \in Workers, pc[w] = "scanning", at[w] < NumNodes, LeastSoFar(w),
         UNCHANGED <<load, up>>, at'[w] = at[w] + 1,
         IF Better(w, at[w])
         THEN pick'[w] = at[w] /\ low'[w] = load[at[w]]
         ELSE pick'[w] = pick[w] /\ low'[w] = low[w]
  PROVE  LeastSoFar(w)'
<1>1. PICK a \in Nodes : a = at[w]
  BY ConstantsTyped DEF TypeOK, Nodes
<1>2. /\ \A n \in Nodes : n \in Nat /\ load[n] \in Nat /\ load[n] <= LoadRange - 1
      /\ None \notin Nodes /\ low[w] \in Nat /\ LoadRange \in Nat /\ NumNodes \in Nat
  BY ConstantsTyped DEF TypeOK, Nodes
<1>3. UpNodes' = UpNodes /\ UpNodes \in SUBSET Nodes
  BY DEF UpNodes
<1>4. at'[w] <= NumNodes /\ \A n \in Nodes : n < at'[w] <=> n < a \/ n = a
  BY <1>1, <1>2
<1>5. Better(w, at[w]) <=> a \in UpNodes /\ load[a] < low[w]
  BY <1>1 DEF Better, UpNodes
<1>6. CASE Better(w, at[w])
  <2>1. pick'[w] = a /\ low'[w] = load[a] /\ a \in UpNodes /\ load[a] < low[w] /\ a < at'[w]
    BY <1>1, <1>4, <1>5, <1>6
  <2>2. \A n \in UpNodes : n < a => load[a] < load[n]
    <3>1. CASE pick[w] = None
      BY <1>1, <1>2, <1>3, <2>1, <3>1 DEF LeastSoFar
    <3>2. CASE pick[w] # None
      <4>1. PICK p \in Nodes : p = pick[w]
        BY <1>3, <3>2 DEF LeastSoFar
      <4>2. \A n \in UpNodes : n < a => load[p] <= load[n]
        BY <1>1, <1>2, <1>3, <3>2, <4>1 DEF LeastSoFar
      <4>3. load[a] < load[p]
        BY <2>1, <3>2, <4>1 DEF LeastSoFar
      <4> QED
        BY <1>2, <1>3, <4>2, <4>3
    <3> QED
      BY <3>1, <3>2
  <2>3. \A n \in UpNodes : n < at'[w] => load[a] < load[n] \/ (load[a] = load[n] /\ a <= n)
    BY <1>2, <1>3, <1>4, <2>2
  <2>4. pick'[w] # None
    BY <1>2, <2>1
  <2> QED
    BY <1>3, <1>4, <2>1, <2>3, <2>4 DEF LeastSoFar
<1>7. CASE ~Better(w, at[w])
  <2>1. pick'[w] = pick[w] /\ low'[w] = low[w] /\ (a \in UpNodes => load[a] >= low[w])
    BY <1>2, <1>5, <1>7
  <2>2. CASE pick[w] = None
    <3>1. low[w] = LoadRange - 1 /\ \A n \in UpNodes : n < a => load[n] = LoadRange - 1
      BY <1>1, <2>2 DEF LeastSoFar
    <3>2. \A n \in UpNodes : n < at'[w] => load[n] = LoadRange - 1
      BY <1>2, <1>3, <1>4, <2>1, <3>1
    <3> QED
      BY <1>3, <1>4, <2>1, <2>2, <3>1, <3>2 DEF LeastSoFar
  <2>3. CASE pick[w] # None
    <3>1. PICK p \in Nodes : p = pick[w] /\ p \in UpNodes /\ low[w] = load[p] /\ p < a
      BY <1>1, <1>3, <2>3 DEF LeastSoFar
    <3>2. \A n \in UpNodes : n < a =>
            load[p] < load[n] \/ (load[p] = load[n] /\ p <= n)
      BY <1>1, <2>3, <3>1 DEF LeastSoFar
    <3>3. \A n \in UpNodes : n < at'[w] =>
            load[p] < load[n] \/ (load[p] = load[n] /\ p <= n)
      BY <1>2, <1>3, <1>4, <2>1, <3>1, <3>2
    <3>4. p < at'[w]
      BY <1>4, <3>1
    <3> QED
      BY <1>3, <1>4, <2>1, <2>3, <3>1, <3>3, <3>4 DEF LeastSoFar
  <2> QED
    BY <2>2, <2>3
<1> QED
  BY <1>6, <1>7

(* One worker at a time inside get: no other step comes between. *)
LEMMA AloneStep ==
  ASSUME Alone, TypeOK, AloneInv, Next
  PROVE  AloneInv'
<1> USE DEF shared
<1> SUFFICES ASSUME NEW w \in Workers
             PROVE  /\ pc'[w] = "probing" =>
                         /\ cap'[w] = MaxLoad' /\ at'[w] <= MaxProbes
                         /\ \A k \in Rooms(w)' : at'[w] <= k
                    /\ pc'[w] = "scanning" => Rooms(w)' = {} /\ LeastSoFar(w)'
                    /\ pc'[w] = "adding" => Settled(w)'
  BY DEF AloneInv
<1>0. /\ \A v \in Workers : v = w
      /\ \A k \in Rooms(w) : k \in Nat /\ k < MaxProbes
      /\ at[w] \in Nat /\ MaxProbes \in Nat /\ NumNodes \in Nat
  BY ConstantsTyped DEF Alone, Rooms, TypeOK
<1>1. ASSUME NEW r \in Routed, NEW h \in Hashes, Get(w, r, h)
      PROVE  /\ pc'[w] = "probing" /\ cap'[w] = MaxLoad' /\ at'[w] <= MaxProbes
             /\ \A k \in Rooms(w)' : at'[w] <= k
  <2>1. /\ pc'[w] = "probing" /\ cap'[w] = MaxLoad /\ at'[w] = 0
        /\ UNCHANGED <<load, total, up>>
    BY <1>1 DEF Get, TypeOK
  <2>2. \A k \in Rooms(w)' : k \in Nat
    BY <1>0 DEF Rooms
  <2> QED
    BY <1>0, <2>1, <2>2, RoomsStay
<1>2. ASSUME ProbeAccept(w) PROVE pc'[w] = "adding" /\ Settled(w)'
  <2>1. /\ pc[w] = "probing" /\ pc'[w] = "adding" /\ at[w] < MaxProbes
        /\ Accepts(w, Probed(w, at[w])) /\ pick'[w] = Probed(w, at[w])
        /\ UNCHANGED <<load, total, up, start>>
    BY <1>2 DEF ProbeAccept, TypeOK
  <2>2. Rooms(w)' = Rooms(w) /\ cap[w] = MaxLoad /\ \A k \in Rooms(w) : at[w] <= k
    BY <2>1, RoomsStay DEF AloneInv
  <2>3. at[w] \in Rooms(w)
    BY <1>0, <2>1, <2>2, RoomIffAccepted
  <2>4. Min(Rooms(w)) = at[w]
    <3>1. PICK a \in Nat, R \in SUBSET Nat : a = at[w] /\ R = Rooms(w)
      BY <1>0
    <3>2. a \in R /\ \A k \in R : a <= k
      BY <2>2, <2>3, <3>1
    <3>3. Min(R) \in R /\ \A k \in R : Min(R) <= k
      BY <3>2, Zenon DEF Min
    <3>4. Min(R) = a
      <4>1. PICK m \in Nat : m = Min(R)
        BY <3>3
      <4>2. m <= a /\ a <= m
        BY <3>2, <3>3, <4>1
      <4> QED
        BY <4>1, <4>2
    <3> QED
      BY <3>1, <3>4
  <2>5. Probed(w, at[w])' = PointAt(Points, (start[w] + at'[w]) % Len(Points)).node
    BY <2>1 DEF Probed
  <2>6. Min(Rooms(w)') = at[w] /\ at'[w] = at[w]
    BY <1>2, <2>2, <2>4 DEF ProbeAccept
  <2>7. pick'[w] = Probed(w, Min(Rooms(w)))'
    BY <2>1, <2>6 DEF Probed, Min
  <2> QED
    BY <2>1, <2>2, <2>3, <2>7 DEF Settled
<1>3. ASSUME ProbeNext(w)
      PROVE  /\ pc'[w] = "probing" /\ cap'[w] = MaxLoad' /\ at'[w] <= MaxProbes
             /\ \A k \in Rooms(w)' : at'[w] <= k
  <2>1. /\ pc[w] = "probing" /\ pc'[w] = "probing" /\ at[w] < MaxProbes
        /\ ~Accepts(w, Probed(w, at[w])) /\ at'[w] = at[w] + 1 /\ cap'[w] = cap[w]
        /\ UNCHANGED <<load, total, up, start>>
    BY <1>3 DEF ProbeNext, TypeOK
  <2>2. Rooms(w)' = Rooms(w) /\ cap[w] = MaxLoad /\ \A k \in Rooms(w) : at[w] <= k
    BY <2>1, RoomsStay DEF AloneInv
  <2>3. at[w] \notin Rooms(w)
    BY <1>0, <2>1, <2>2, RoomIffAccepted
  <2> QED
    BY <1>0, <2>1, <2>2, <2>3, RoomsStay
<1>4. ASSUME FallBack(w) PROVE pc'[w] = "scanning" /\ Rooms(w)' = {} /\ LeastSoFar(w)'
  <2>1. /\ pc[w] = "probing" /\ pc'[w] = "scanning" /\ at[w] = MaxProbes
        /\ at'[w] = 0 /\ pick'[w] = None /\ low'[w] = LoadRange - 1
        /\ UNCHANGED <<load, total, up, start>>
    BY <1>4 DEF FallBack, TypeOK
  <2>2. Rooms(w)' = Rooms(w) /\ \A k \in Rooms(w) : at[w] <= k
    BY <2>1, RoomsStay DEF AloneInv
  <2>3. Rooms(w) = {}
    BY <1>0, <2>1, <2>2
  <2>4. UpNodes' \in SUBSET Nat
    BY ConstantsTyped DEF UpNodes, Nodes
  <2> QED
    BY <1>0, <2>1, <2>2, <2>3, <2>4 DEF LeastSoFar
<1>5. ASSUME ScanBetter(w) \/ ScanNext(w)
      PROVE  pc'[w] = "scanning" /\ Rooms(w)' = {} /\ LeastSoFar(w)'
  <2>1. /\ pc[w] = "scanning" /\ pc'[w] = "scanning" /\ at[w] < NumNodes
        /\ at'[w] = at[w] + 1 /\ UNCHANGED <<load, total, up, start>>
    BY <1>5 DEF ScanBetter, ScanNext, TypeOK
  <2>2. IF Better(w, at[w]) THEN pick'[w] = at[w] /\ low'[w] = load[at[w]]
                            ELSE pick'[w] = pick[w] /\ low'[w] = low[w]
    BY <1>5 DEF ScanBetter, ScanNext, TypeOK
  <2>3. Rooms(w)' = Rooms(w) /\ Rooms(w) = {} /\ LeastSoFar(w)
    BY <2>1, RoomsStay DEF AloneInv
  <2> QED
    BY <2>1, <2>2, <2>3, ScanStep
<1>6. ASSUME ScanFound(w) PROVE pc'[w] = "adding" /\ Settled(w)'
  <2>1. /\ pc[w] = "scanning" /\ pc'[w] = "adding" /\ at[w] = NumNodes /\ pick[w] # None
        /\ pick' = pick /\ UNCHANGED <<load, total, up, start>>
    BY <1>6 DEF ScanFound, TypeOK
  <2>2. /\ Rooms(w)' = Rooms(w) /\ UpNodes' = UpNodes
        /\ Rooms(w) = {} /\ LeastSoFar(w)
    BY <2>1, RoomsStay DEF AloneInv
  <2>3. \A n \in UpNodes : n < at[w]
    BY <1>0, <2>1 DEF UpNodes, Nodes
  <2> QED
    BY <2>1, <2>2, <2>3 DEF LeastSoFar, Settled
<1>7. ASSUME \/ ScanEmpty(w) \/ AddLoad(w) \/ AddTotal(w) \/ DropTotal(w)
             \/ \E r \in Manual, n \in Nodes : Acquire(w, r, n)
             \/ \E r \in Requests : Release(w, r)
      PROVE  pc'[w] \notin {"probing", "scanning", "adding"}
  BY <1>7 DEF ScanEmpty, AddLoad, AddTotal, DropTotal, Leave, Acquire, Release, TypeOK
<1>8. ASSUME NEW id \in Nodes \cup Strangers, NEW healthy \in BOOLEAN, SetHealthy(id, healthy)
      PROVE  pc'[w] \notin {"probing", "scanning", "adding"}
  BY <1>8 DEF SetHealthy, WriterBlocked, Readers
<1>9. \/ GetSome(w) \/ Proceed(w)
      \/ \E r \in Manual, n \in Nodes : Acquire(w, r, n)
      \/ \E r \in Requests : Release(w, r)
      \/ \E id \in Nodes \cup Strangers, healthy \in BOOLEAN : SetHealthy(id, healthy)
  BY <1>0 DEF Next
<1> QED
  BY <1>1, <1>2, <1>3, <1>4, <1>5, <1>6, <1>7, <1>8, <1>9 DEF GetSome, Proceed

LEMMA AloneStutter ==
  ASSUME UNCHANGED vars, AloneInv
  PROVE  AloneInv'
<1>1. UNCHANGED <<load, total, up, pc, start, at, cap, pick, low>>
  BY DEF vars
<1>2. MaxLoad' = MaxLoad /\ UpNodes' = UpNodes /\ \A w \in Workers : Rooms(w)' = Rooms(w)
  BY <1>1, RoomsStay
<1>3. ASSUME NEW w \in Workers
      PROVE  (LeastSoFar(w) => LeastSoFar(w)') /\ (Settled(w) => Settled(w)')
  <2>1. LeastSoFar(w) => LeastSoFar(w)'
    BY <1>1, <1>2 DEF LeastSoFar
  <2>2. \A k : Probed(w, k)' = Probed(w, k)
    BY <1>1 DEF Probed
  <2>3. Settled(w) => Settled(w)'
    BY <1>1, <1>2, <2>2 DEF Settled, Probed
  <2> QED
    BY <2>1, <2>3
<1> QED
  BY <1>1, <1>2, <1>3 DEF AloneInv

LEMMA AloneGetNStep ==
  ASSUME Alone, GetNInv, AloneInv, [GetNNext]_allVars
  PROVE  AloneInv'
<1>0. TypeOK /\ GetNTypeOK
  BY DEF GetNInv
<1>1. CASE UNCHANGED allVars
  BY <1>1, AloneStutter DEF allVars
<1>2. CASE \E w \in Workers, n \in Nodes : ReleaseOwed(w, n)
  <2>1. PICK w \in Workers : pc'[w] = "dropping"
    BY <1>0, <1>2 DEF ReleaseOwed, Lower, TypeOK
  <2> QED
    BY <2>1 DEF Alone, AloneInv
<1> QED
  BY <1>0, <1>1, <1>2, RingSteps, AloneStep, AloneStutter

(* A thread that has the ring to itself gets the first probed node that is *)
(* healthy and has room, and otherwise the least loaded, the first of      *)
(* several in the node list (bounded.rs 145-168, 208-225).                 *)
THEOREM PicksFirstWithRoom ==
  ASSUME \A v, w \in Workers : v = w
  PROVE  GetNSpec => []PickIsFirstWithRoom
<1>0. Alone
  BY DEF Alone
<1>1. GetNInit => AloneInv
  BY DEF GetNInit, Init, InitWith, AloneInv
<1>2. AloneInv => PickIsFirstWithRoom
  BY DEF AloneInv, Settled, Rooms, PickIsFirstWithRoom, UpNodes
<1>3. GetNInv /\ AloneInv /\ [GetNNext]_allVars => AloneInv'
  BY <1>0, AloneGetNStep
<1> QED
  BY <1>1, <1>2, <1>3, GetNInvariant, PTL DEF GetNSpec

-----------------------------------------------------------------------------
(* The bound, for one thread.  The sum of the loads is ahead of the total  *)
(* between the two additions of a call, and behind it in a release.        *)
Lead(w) ==
  IF pc[w] \in {"counting", "acquiring"} THEN 1
  ELSE IF pc[w] = "dropping" THEN -1 ELSE 0

SumInv == \A w \in Workers : LoadSum = total + Lead(w)

WithinInv ==
  \A w \in Workers :
    /\ pc[w] = "adding" => load[pick[w]] <= Room
    /\ pc[w] = "counting" => load[pick[w]] <= BoundOn(LoadSum)

(* A request that is counted keeps its counter above zero. *)
LEMMA CountedIsPositive ==
  ASSUME IInv
  PROVE  /\ \A r \in Requests : held[r] # None =>
              /\ held[r] \in Nodes
              /\ (load[held[r]] - 1) % LoadRange = load[held[r]] - 1
         /\ CountedInTotal # {} => (total - 1) % LoadRange = total - 1
<1>0. TypeOK /\ Accounting
  BY DEF IInv
<1>1. ASSUME NEW r \in Requests, held[r] # None
      PROVE  /\ held[r] \in Nodes
             /\ (load[held[r]] - 1) % LoadRange = load[held[r]] - 1
  <2>1. PICK n \in Nodes : n = held[r]
    BY <1>0, <1>1 DEF TypeOK
  <2>2. r \in CountedOn(n) /\ CountedOn(n) \in SUBSET Requests
    BY <2>1 DEF CountedOn
  <2>3. Cardinality(CountedOn(n)) - 1 \in Nat
    <3>1. CountedOn(n) \ {r} \in SUBSET Requests
      BY <2>2
    <3>2. Cardinality(CountedOn(n) \ {r}) \in Nat
      BY <3>1, RequestSets
    <3>3. Cardinality(CountedOn(n) \ {r}) = Cardinality(CountedOn(n)) - 1
      BY <2>2, RequestSets
    <3> QED
      BY <3>2, <3>3
  <2>4. load[n] > 0
    <3>1. load[n] - 1 \in Nat /\ load[n] \in Int
      BY <1>0, <2>3, ConstantsTyped DEF Accounting, TypeOK
    <3> QED
      BY <3>1
  <2> QED
    BY <2>1, <2>4, NoWrap
<1>2. ASSUME NEW r \in CountedInTotal PROVE (total - 1) % LoadRange = total - 1
  <2>1. CountedInTotal \in SUBSET Requests
    BY DEF CountedInTotal
  <2>2. CountedInTotal \ {r} \in SUBSET Requests
    BY <2>1
  <2>3. Cardinality(CountedInTotal \ {r}) \in Nat
    BY <2>2, RequestSets
  <2>4. Cardinality(CountedInTotal \ {r}) = Cardinality(CountedInTotal) - 1
    BY <2>1, RequestSets
  <2>5. total - 1 \in Nat /\ total \in 0 .. LoadRange - 1
    BY <1>0, <2>3, <2>4 DEF Accounting, TypeOK
  <2>6. total - 1 \in 0 .. LoadRange - 1
    BY <2>5, ConstantsTyped
  <2> QED
    BY <2>6, ConstantsTyped
<1> QED
  BY <1>1, <1>2

LEMMA SumStep ==
  ASSUME Alone, IInv, SumInv, Next
  PROVE  SumInv'
<1> USE DEF shared
<1>0. TypeOK /\ JobInv /\ PickIsUp
  BY DEF IInv
<1> SUFFICES ASSUME NEW w \in Workers PROVE LoadSum' = total' + Lead(w)'
  BY DEF SumInv
<1>1. /\ \A v \in Workers : v = w
      /\ LoadSum = total + Lead(w) /\ total \in Nat /\ LoadSum \in Nat
  BY <1>0, LoadSumIsNat, ConstantsTyped DEF Alone, SumInv, TypeOK
<1>2. CASE \/ GetSome(w) \/ ProbeAccept(w) \/ ProbeNext(w) \/ FallBack(w)
           \/ ScanBetter(w) \/ ScanNext(w) \/ ScanFound(w) \/ ScanEmpty(w)
           \/ \E id \in Nodes \cup Strangers, healthy \in BOOLEAN : SetHealthy(id, healthy)
  <2>1. UNCHANGED <<load, total>> /\ Lead(w)' = Lead(w)
    BY <1>0, <1>2 DEF GetSome, Get, ProbeAccept, ProbeNext, FallBack, ScanBetter, ScanNext,
                      ScanFound, ScanEmpty, SetHealthy, Leave, Lead, TypeOK
  <2>2. LoadSum' = LoadSum
    BY <2>1 DEF LoadSum, SumOver, MapThenSumSet, MapThenFoldSet
  <2> QED
    BY <1>1, <2>1, <2>2
<1>3. CASE AddLoad(w) \/ \E r \in Manual, n \in Nodes : Acquire(w, r, n)
  <2>1. PICK n \in Nodes : load' = [load EXCEPT ![n] = (load[n] + 1) % LoadRange]
    BY <1>0, <1>3 DEF AddLoad, Acquire, PickIsUp
  <2>2. load' = [load EXCEPT ![n] = load[n] + 1]
    BY <2>1, NoWrap
  <2>3. LoadSum' = LoadSum + 1
    BY <1>0, <2>2, LoadSumMoves
  <2>4. Lead(w) = 0 /\ Lead(w)' = 1 /\ total' = total
    BY <1>0, <1>3 DEF AddLoad, Acquire, Lead, TypeOK
  <2> QED
    BY <1>1, <2>3, <2>4
<1>4. CASE AddTotal(w)
  <2>1. total' = total + 1 /\ UNCHANGED load /\ Lead(w) = 1 /\ Lead(w)' = 0
    BY <1>0, <1>4, TotalBelowRange DEF AddTotal, Leave, Lead, TypeOK
  <2>2. LoadSum' = LoadSum
    BY <2>1 DEF LoadSum, SumOver, MapThenSumSet, MapThenFoldSet
  <2> QED
    BY <1>1, <2>1, <2>2
<1>5. CASE \E r \in Requests : Release(w, r)
  <2>1. PICK r \in Requests : Release(w, r)
    BY <1>5
  <2>2. PICK n \in Nodes : /\ n = held[r]
                           /\ (load[n] - 1) % LoadRange = load[n] - 1
    BY <2>1, CountedIsPositive DEF Release
  <2>3. load' = [load EXCEPT ![n] = load[n] - 1]
    BY <2>1, <2>2 DEF Release
  <2>4. LoadSum' = LoadSum - 1
    BY <1>0, <2>3, LoadSumMoves
  <2>5. Lead(w) = 0 /\ Lead(w)' = -1 /\ total' = total
    BY <1>0, <2>1 DEF Release, Lead, TypeOK
  <2> QED
    BY <1>1, <2>4, <2>5
<1>6. CASE DropTotal(w)
  <2>1. job[w] \in CountedInTotal
    BY <1>0, <1>6 DEF DropTotal, JobInv, CountedInTotal, TypeOK
  <2>2. total' = total - 1 /\ UNCHANGED load /\ Lead(w) = -1 /\ Lead(w)' = 0
    BY <1>0, <1>6, <2>1, CountedIsPositive DEF DropTotal, Leave, Lead, TypeOK
  <2>3. LoadSum' = LoadSum
    BY <2>2 DEF LoadSum, SumOver, MapThenSumSet, MapThenFoldSet
  <2> QED
    BY <1>1, <2>2, <2>3
<1> QED
  BY <1>1, <1>2, <1>3, <1>4, <1>5, <1>6 DEF Next, Proceed

LEMMA WithinStep ==
  ASSUME Alone, FactorDen <= FactorNum, IInv, SumInv, AloneInv, WithinInv, Next
  PROVE  WithinInv'
<1> USE DEF shared
<1>0. TypeOK /\ PickIsUp
  BY DEF IInv
<1> SUFFICES ASSUME NEW w \in Workers
             PROVE  /\ pc'[w] = "adding" => load'[pick'[w]] <= Room'
                    /\ pc'[w] = "counting" => load'[pick'[w]] <= BoundOn(LoadSum)'
  BY DEF WithinInv
<1>1. /\ \A v \in Workers : v = w
      /\ LoadSum = total + Lead(w) /\ total \in Nat /\ LoadSum \in Nat
  BY <1>0, LoadSumIsNat, ConstantsTyped DEF Alone, SumInv, TypeOK
<1>2. ASSUME ProbeAccept(w) PROVE pc'[w] = "adding" /\ load'[pick'[w]] <= Room'
  <2>1. /\ pc[w] = "probing" /\ pc'[w] = "adding"
        /\ Accepts(w, Probed(w, at[w])) /\ pick'[w] = Probed(w, at[w])
        /\ UNCHANGED <<load, up>>
    BY <1>0, <1>2 DEF ProbeAccept, TypeOK
  <2>2. start[w] \in 0 .. Len(Points) - 1 /\ at[w] \in Nat
    BY <1>0 DEF TypeOK
  <2>3. PICK n \in Nodes : n = Probed(w, at[w])
    BY <2>2, ProbedIsNode DEF Probed
  <2>4. n \in UpNodes /\ load[n] <= MaxLoad
    BY <2>1, <2>3 DEF Accepts, UpNodes, AloneInv
  <2>5. total <= LoadSum
    BY <1>1, <2>1 DEF Lead
  <2>6. MaxLoad <= Room
    BY <1>0, <2>4, <2>5, CapIsRoom
  <2>7. load[n] \in Nat /\ MaxLoad \in Nat /\ Room \in Nat
    BY SMTT(30), <1>0, <2>4, MaxLoadIsNat, RoomIsNat, ConstantsTyped DEF TypeOK
  <2>8. load[n] <= Room
    BY <2>4, <2>6, <2>7
  <2>9. Room' = Room
    BY <2>1, Untouched
  <2> QED
    BY <2>1, <2>3, <2>8, <2>9
<1>3. ASSUME ScanFound(w) PROVE pc'[w] = "adding" /\ load'[pick'[w]] <= Room'
  <2>1. /\ pc[w] = "scanning" /\ pc'[w] = "adding" /\ at[w] = NumNodes
        /\ pick[w] # None /\ UNCHANGED <<load, up, pick>>
    BY <1>0, <1>3 DEF ScanFound, TypeOK
  <2>2. LeastSoFar(w)
    BY <2>1 DEF AloneInv
  <2>3. PICK p \in Nodes : p = pick[w] /\ p \in UpNodes /\ low[w] = load[p]
    BY <2>1, <2>2 DEF LeastSoFar, UpNodes
  <2>4. \A n \in UpNodes : low[w] <= load[n]
    <3>1. \A n \in UpNodes : n < at[w] /\ load[n] \in Nat
      BY <1>0, <2>1, ConstantsTyped DEF UpNodes, Nodes, TypeOK
    <3>2. load[p] \in Nat
      BY <1>0, ConstantsTyped DEF TypeOK
    <3> QED
      BY <2>1, <2>2, <2>3, <3>1, <3>2 DEF LeastSoFar
  <2>5. low[w] <= Room
    BY <1>0, <2>3, <2>4, LowIsRoom
  <2>6. Room' = Room
    BY <2>1, Untouched
  <2> QED
    BY <2>1, <2>3, <2>5, <2>6
<1>4. ASSUME AddLoad(w) PROVE pc'[w] = "counting" /\ load'[pick'[w]] <= BoundOn(LoadSum)'
  <2>1. /\ pc[w] = "adding" /\ pc'[w] = "counting" /\ UNCHANGED <<up, pick>>
        /\ load' = [load EXCEPT ![pick[w]] = (load[pick[w]] + 1) % LoadRange]
    BY <1>0, <1>4 DEF AddLoad, TypeOK
  <2>2. PICK p \in Nodes : p = pick[w] /\ p \in UpNodes
    BY <1>0, <2>1 DEF PickIsUp, UpNodes
  <2>3. load' = [load EXCEPT ![p] = load[p] + 1]
    BY <2>1, <2>2, NoWrap
  <2>4. LoadSum' = LoadSum + 1
    BY <1>0, <2>3, LoadSumMoves
  <2>5. FactorNum # 0 /\ UpNodes # {}
    BY <2>2, ConstantsTyped
  <2>6. Room + 1 <= BoundOn(LoadSum)' /\ Room \in Nat /\ BoundOn(LoadSum)' \in Nat
    BY <1>0, <2>1, <2>4, <2>5, RoomAfterAdd
  <2>7. load[p] <= Room /\ load[p] \in Nat
    BY <1>0, <2>1, <2>2, ConstantsTyped DEF WithinInv, TypeOK
  <2>8. load'[p] = load[p] + 1
    BY <1>0, <2>3 DEF TypeOK
  <2>9. load'[p] <= BoundOn(LoadSum)'
    BY <2>6, <2>7, <2>8
  <2> QED
    BY <2>1, <2>2, <2>9
<1>5. ASSUME \/ GetSome(w) \/ ProbeNext(w) \/ FallBack(w) \/ ScanBetter(w) \/ ScanNext(w)
             \/ ScanEmpty(w) \/ AddTotal(w) \/ DropTotal(w)
             \/ \E r \in Manual, n \in Nodes : Acquire(w, r, n)
             \/ \E r \in Requests : Release(w, r)
             \/ \E id \in Nodes \cup Strangers, healthy \in BOOLEAN : SetHealthy(id, healthy)
      PROVE  pc'[w] \notin {"adding", "counting"}
  BY <1>0, <1>5 DEF GetSome, Get, ProbeNext, FallBack, ScanBetter, ScanNext, ScanEmpty,
                    AddTotal, DropTotal, Leave, Acquire, Release, SetHealthy,
                    WriterBlocked, Readers, TypeOK
<1>6. \/ GetSome(w) \/ Proceed(w)
      \/ \E r \in Manual, n \in Nodes : Acquire(w, r, n)
      \/ \E r \in Requests : Release(w, r)
      \/ \E id \in Nodes \cup Strangers, healthy \in BOOLEAN : SetHealthy(id, healthy)
  BY <1>1 DEF Next
<1> QED
  BY <1>2, <1>3, <1>4, <1>5, <1>6 DEF Proceed

WithinBound ==
  NoneStolen => \A w \in Workers :
    pc[w] = "counting" /\ pc'[w] = "idle" => load'[pick[w]] <= BoundOn(total')

(* The call that returns has its node within the bound. *)
LEMMA ReturnsWithin ==
  ASSUME Alone, IInv, SumInv, WithinInv, Next
  PROVE  WithinBound
<1> SUFFICES ASSUME NEW w \in Workers, pc[w] = "counting", pc'[w] = "idle"
             PROVE  load'[pick[w]] <= BoundOn(total')
  BY DEF WithinBound
<1>0. TypeOK /\ PickIsUp /\ \A v \in Workers : v = w
  BY DEF IInv, Alone
<1>1. AddTotal(w)
  <2>1. ~GetSome(w) /\ ~\E r \in Manual, n \in Nodes : Acquire(w, r, n)
    BY DEF GetSome, Get, Acquire
  <2>2. ~\E r \in Requests : Release(w, r)
    BY DEF Release
  <2>3. ~\E id \in Nodes \cup Strangers, healthy \in BOOLEAN : SetHealthy(id, healthy)
    BY DEF SetHealthy
  <2>4. Proceed(w)
    BY <1>0, <2>1, <2>2, <2>3 DEF Next
  <2> QED
    BY <2>4 DEF Proceed, ProbeAccept, ProbeNext, FallBack, ScanBetter, ScanNext, ScanFound,
                ScanEmpty, AddLoad, DropTotal
<1>2. total' = total + 1 /\ load' = load
  BY <1>1, TotalBelowRange DEF AddTotal
<1>3. LoadSum = total'
  BY <1>2 DEF SumInv, Lead
<1>4. BoundOn(total') = BoundOn(LoadSum)
  BY <1>3 DEF BoundOn
<1> QED
  BY <1>2, <1>4 DEF WithinInv

LEMMA ReturnsWithinGetN ==
  ASSUME Alone, FactorDen <= FactorNum, GetNInv, AloneInv,
         NoneStolen => SumInv /\ WithinInv, [GetNNext]_allVars
  PROVE  /\ NoneStolen' => SumInv' /\ WithinInv'
         /\ [WithinBound]_allVars
<1>0. GetNTypeOK /\ (NoneStolen => IInv)
  BY DEF GetNInv
<1>1. ASSUME UNCHANGED vars, NoneStolen' => NoneStolen
      PROVE  (NoneStolen' => SumInv' /\ WithinInv') /\ WithinBound
  <2>1. UNCHANGED <<load, total, up, pc, pick>>
    BY <1>1 DEF vars
  <2>2. LoadSum' = LoadSum /\ Room' = Room
    BY <2>1, Untouched
  <2>3. BoundOn(LoadSum)' = BoundOn(LoadSum)
    BY <2>1, <2>2 DEF BoundOn
  <2>4. (SumInv => SumInv') /\ (WithinInv => WithinInv')
    BY <2>1, <2>2, <2>3 DEF SumInv, WithinInv, Lead
  <2>5. WithinBound
    BY <2>1 DEF WithinBound
  <2> QED
    BY <1>1, <2>4, <2>5
<1>2. CASE UNCHANGED allVars
  BY <1>1, <1>2 DEF allVars, getNVars, NoneStolen
<1>3. CASE stolen' = stolen /\ UNCHANGED vars
  BY <1>1, <1>3 DEF NoneStolen
<1>4. CASE stolen' = stolen /\ Next
  <2>1. NoneStolen' <=> NoneStolen
    BY <1>4 DEF NoneStolen
  <2>2. NoneStolen => SumInv' /\ WithinInv'
    BY <1>0, <1>4, SumStep, WithinStep
  <2>3. NoneStolen => WithinBound
    BY <1>0, <1>4, ReturnsWithin
  <2> QED
    BY <2>1, <2>2, <2>3 DEF WithinBound
<1>5. CASE \E w \in Workers, n \in Nodes : ReleaseOwed(w, n)
  <2>1. PICK w \in Workers, n \in Nodes : ReleaseOwed(w, n)
    BY <1>5
  <2>2. ~NoneStolen'
    BY <1>0, <2>1, ReleaseOwedStep DEF GetNInv
  <2>3. pc[w] = "idle" /\ \A v \in Workers : v = w
    BY <2>1 DEF ReleaseOwed, Alone
  <2>4. WithinBound
    BY <2>3 DEF WithinBound
  <2> QED
    BY <2>2, <2>4
<1> QED
  BY <1>0, <1>2, <1>3, <1>4, <1>5, RingSteps

(* A request that one thread places leaves its node within max_load_factor *)
(* times the mean, rounded up, with the request counted, for any history   *)
(* of releases, acquires and health changes, until a node that was not     *)
(* counted is released, if the factor is at least 1: below 1 the bound is  *)
(* under the mean, and the fallback takes the least loaded node even so    *)
(* (bounded.rs 141-168, 208-225).                                          *)
THEOREM PlacesWithinBound ==
  ASSUME \A v, w \in Workers : v = w, FactorDen <= FactorNum
  PROVE  GetNSpec => WithinBoundUnlessStolen
<1>0. Alone
  BY DEF Alone
<1> DEFINE Bounds == NoneStolen => SumInv /\ WithinInv
<1>1. GetNInit => AloneInv /\ Bounds
  <2> SUFFICES ASSUME GetNInit PROVE AloneInv /\ SumInv /\ WithinInv
    OBVIOUS
  <2>1. AloneInv /\ WithinInv
    BY DEF GetNInit, Init, InitWith, AloneInv, WithinInv
  <2>2. LoadSum = 0
    BY NodesFinite, SumOfZeros DEF GetNInit, Init, InitWith, LoadSum
  <2>3. SumInv
    BY <2>2 DEF GetNInit, Init, InitWith, SumInv, Lead
  <2> QED
    BY <2>1, <2>3
<1>2. GetNInv /\ AloneInv /\ [GetNNext]_allVars => AloneInv'
  BY <1>0, AloneGetNStep
<1>3. GetNInv /\ AloneInv /\ Bounds /\ [GetNNext]_allVars
        => Bounds' /\ [WithinBound]_allVars
  BY <1>0, ReturnsWithinGetN
<1>4. WithinBoundUnlessStolen <=> [][WithinBound]_allVars
  BY DEF WithinBoundUnlessStolen, WithinBound, NoneStolen
<1> HIDE DEF Bounds
<1> QED
  BY <1>1, <1>2, <1>3, <1>4, GetNInvariant, PTL DEF GetNSpec
=============================================================================
