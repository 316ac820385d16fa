------------------------------ MODULE CompactRing ------------------------------
(***************************************************************************)
(* Building a CompactRing (shardring/src/ring.rs, CompactRing::new) in     *)
(* several processes that share a hash function, and restoring it from the *)
(* snapshot another process took; and what their rings agree on.           *)
(*                                                                         *)
(* The hash function is unknown: the initial state picks any assignment of *)
(* hashes to seeds, collisions included.  A seed "{id}-{i}" is the pair    *)
(* <<id, i>>.  A node list is a sequence of records; nothing in the code   *)
(* asks its ids to differ.                                                 *)
(*                                                                         *)
(* Of a RingConfig, `new` reads target_cv and the two bounds on the hashes *)
(* per node.  A target is written as 1 / target_cv^2, a pair <<x, y>> that *)
(* stands for x / y (0 for a target_cv <= 0).                              *)
(***************************************************************************)
EXTENDS RingLookup, FiniteSets, SequencesExt

CONSTANTS
  Processes,          \* each holds the result of its last CompactRing::new
  Builds,             \* the node lists and targets a ring may be built from
  MinHashes,          \* min_hashes_per_node
  MaxHashes,          \* max_hashes_per_node
  IndexRange,         \* u16::MAX + 1 in the code
  SeedsPerNode,       \* bound: no list gives a node more points than this
  Losses,             \* how many fields a snapshot may have lost at its end
  Versions,           \* the versions snapshots are written with
  Version             \* SERIALIZATION_VERSION

VARIABLES
  hashOf,             \* the hash function, on the seeds that can occur
  ring                \* ring[p]: the result p got from CompactRing::new

vars == <<hashOf, ring>>

-----------------------------------------------------------------------------
Smaller(a, b) == IF a <= b THEN a ELSE b
Larger(a, b) == IF a >= b THEN a ELSE b
CeilDiv(a, b) == (a + b - 1) \div b

NodeLists == {b.nodes : b \in Builds}

(* optimal_hashes_for_cv, in exact arithmetic. *)
OptimalHashes(n, target) ==
  IF n <= 1 THEN 1
            ELSE Larger(1, CeilDiv((n - 1) * target[1], (n + 1) * target[2]))

HashesPerNode(n, target) ==
  Smaller(Larger(OptimalHashes(n, target), MinHashes), MaxHashes)

TotalWeight(nodes) == SumFunction([i \in DOMAIN nodes |-> nodes[i].weight])

(* The points of the i-th node: in proportion to its weight, at least one. *)
NodeHashes(nodes, target, i) ==
  Larger(1, (HashesPerNode(Len(nodes), target) * nodes[i].weight * Len(nodes))
              \div TotalWeight(nodes))

Ids == {node.id : node \in UNION {ToSet(nodes) : nodes \in NodeLists}}

HasZeroWeight(nodes) == \E i \in DOMAIN nodes : nodes[i].weight = 0

ASSUME HashBoundsAssumption ==
  /\ MinHashes \in Nat \ {0}
  /\ MaxHashes \in Nat
  /\ MinHashes <= MaxHashes      \* usize::clamp panics otherwise
  /\ \A b \in Builds : b.target \in Nat \X (Nat \ {0})
  /\ IndexRange \in Nat \ {0}

ASSUME BuildsAssumption ==
  /\ \A nodes \in NodeLists : nodes \in Seq([id : Ids, weight : Nat])
  /\ SeedsPerNode \in Nat
  /\ Losses \subseteq Nat

ASSUME SeedsAssumption ==
  \A b \in Builds : \A i \in 1 .. Len(b.nodes) :
    HasZeroWeight(b.nodes) \/ NodeHashes(b.nodes, b.target, i) <= SeedsPerNode

-----------------------------------------------------------------------------
(* Faulty: the index written into a point is the one after the node's. *)
NextNodePoints(nodes, target, i) ==
  [j \in 1 .. NodeHashes(nodes, target, i) |->
     [hash |-> hashOf[<<nodes[i].id, j - 1>>], node |-> i % Len(nodes)]]

NodePoints(nodes, target, i) ==
  [j \in 1 .. NodeHashes(nodes, target, i) |->
     [hash |-> hashOf[<<nodes[i].id, j - 1>>], node |-> (i - 1) % IndexRange]]

AllPoints(nodes, target) ==
  FlattenSeq([i \in 1 .. Len(nodes) |-> NodePoints(nodes, target, i)])

(* The points that come before the k-th when they are sorted; equal points *)
(* may come in any order, which does not show.                             *)
Before(points, k) ==
  {j \in DOMAIN points : IF points[j] = points[k] THEN j < k
                                                  ELSE PointLeq(points[j], points[k])}

SortPoints(points) ==
  [i \in DOMAIN points |->
     points[CHOOSE k \in DOMAIN points : Cardinality(Before(points, k)) = i - 1]]

RingPoints(nodes, target) == SortPoints(AllPoints(nodes, target))

(* Faulty: the range of the index is overrun by one node. *)
TooManyByOne(nodes) == Len(nodes) > IndexRange + 1

TooMany(nodes) == Len(nodes) > IndexRange

-----------------------------------------------------------------------------
(* A ring, with the target its points were made for. *)
Made(nodes, points, target) ==
  [outcome |-> "Ok", nodes |-> nodes, points |-> points, target |-> target]

Failed(error) ==
  [outcome |-> error, nodes |-> <<>>, points |-> <<>>, target |-> <<0, 1>>]

Init ==
  /\ hashOf \in [Ids \X (0 .. SeedsPerNode - 1) -> Hashes]
  /\ ring = [p \in Processes |-> Failed("NotBuilt")]

Return(p, result) ==
  /\ ring' = [ring EXCEPT ![p] = result]
  /\ UNCHANGED hashOf

RejectEmpty(p, nodes) ==
  /\ nodes = <<>>
  /\ Return(p, Failed("EmptyRing"))

RejectWeight(p, nodes) ==
  /\ nodes # <<>>
  /\ HasZeroWeight(nodes)
  /\ Return(p, Failed("InvalidWeight"))

RejectTooMany(p, nodes) ==
  /\ nodes # <<>>
  /\ ~HasZeroWeight(nodes)
  /\ TooMany(nodes)
  /\ Return(p, Failed("SerializationError"))

Build(p, nodes, target) ==
  /\ nodes # <<>>
  /\ ~HasZeroWeight(nodes)
  /\ ~TooMany(nodes)
  /\ Return(p, Made(nodes, RingPoints(nodes, target), target))

(* CompactRing::new; a process may rebuild, from the same nodes or others. *)
New(p, nodes, target) ==
  \/ RejectEmpty(p, nodes)
  \/ RejectWeight(p, nodes)
  \/ RejectTooMany(p, nodes)
  \/ Build(p, nodes, target)

-----------------------------------------------------------------------------
(***************************************************************************)
(* Snapshots.  The bytes are a sequence of fields, each read by one call   *)
(* of ByteReader::take, which fails when the buffer ends before the field  *)
(* does; so a buffer cut anywhere is one that lacks its last fields.       *)
(***************************************************************************)
ToBytes(version, r) ==
  <<version, Len(r.nodes)>> \o r.nodes \o <<Len(r.points)>> \o r.points

(* Where the count of the points is, after the nodes that were announced. *)
CountAt(bytes) == 3 + bytes[2]

NodesIn(bytes) == SubSeq(bytes, 3, CountAt(bytes) - 1)

PointsIn(bytes) ==
  SubSeq(bytes, CountAt(bytes) + 1, CountAt(bytes) + bytes[CountAt(bytes)])

(* No call of take fails, and no point refers to a node that is not there. *)
Readable(bytes) ==
  /\ Len(bytes) >= 2
  /\ Len(bytes) >= CountAt(bytes)
  /\ Len(bytes) >= CountAt(bytes) + bytes[CountAt(bytes)]
  /\ \A i \in DOMAIN PointsIn(bytes) : PointsIn(bytes)[i].node < bytes[2]

OtherVersion(bytes) == bytes # <<>> /\ Head(bytes) # Version

RestoreOtherVersion(p, bytes) ==
  /\ OtherVersion(bytes)
  /\ Return(p, Failed("VersionMismatch"))

(* Faulty: the reader makes do with the points that are there. *)
RestoreWhatIsThere(p, bytes) ==
  /\ ~OtherVersion(bytes)
  /\ ~Readable(bytes)
  /\ Len(bytes) >= 2 /\ Len(bytes) >= CountAt(bytes)
  /\ \E q \in Processes :
       Return(p, Made(NodesIn(bytes),
                      SubSeq(bytes, CountAt(bytes) + 1, Len(bytes)), ring[q].target))

RestoreUnreadable(p, bytes) ==
  /\ ~OtherVersion(bytes)
  /\ ~Readable(bytes)
  /\ Return(p, Failed("DeserializationError"))

RestoreRing(p, bytes, target) ==
  /\ ~OtherVersion(bytes)
  /\ Readable(bytes)
  /\ Return(p, Made(NodesIn(bytes), PointsIn(bytes), target))

(* from_bytes, on what is left of the snapshot another process took of its *)
(* ring, with this version of the crate or another.  The RingConfig given  *)
(* to from_bytes does not touch the points: they stay those of the target  *)
(* of the ring that was written.                                           *)
Restore(p, q, version, lost) ==
  LET whole == ToBytes(version, ring[q])
      bytes == SubSeq(whole, 1, Len(whole) - lost)
  IN  /\ ring[q].outcome = "Ok"
      /\ lost <= Len(whole)
      /\ \/ RestoreOtherVersion(p, bytes)
         \/ RestoreUnreadable(p, bytes)
         \/ RestoreRing(p, bytes, ring[q].target)

Next ==
  \/ \E p \in Processes, b \in Builds : New(p, b.nodes, b.target)
  \/ \E p \in Processes, q \in Processes, version \in Versions, lost \in Losses :
       p # q /\ Restore(p, q, version, lost)

Spec == Init /\ [][Next]_vars

-----------------------------------------------------------------------------
HasRing(p) == ring[p].outcome = "Ok"

OwnerId(p, h) == ring[p].nodes[OwnerIndex(ring[p].points, h) + 1].id

(* The owners of the points that have the hash the lookup of h ends on. *)
Claimants(p, h) ==
  LET start == PointAt(ring[p].points, StartIndex(ring[p].points, h)).hash
  IN  {ring[p].nodes[pt.node + 1].id :
        pt \in {q \in ToSet(ring[p].points) : q.hash = start}}

PointCount(p, id) ==
  Cardinality({k \in DOMAIN ring[p].points :
                 ring[p].nodes[ring[p].points[k].node + 1].id = id})

HasNode(p, id) == \E i \in DOMAIN ring[p].nodes : ring[p].nodes[i].id = id

DistinctIds(p) ==
  \A i, j \in DOMAIN ring[p].nodes :
    ring[p].nodes[i].id = ring[p].nodes[j].id => i = j

(* The list of q is the list of p, or that with one more node somewhere,   *)
(* its other ids in the same order.                                        *)
Extends(q, p) ==
  LET ids(r) == [i \in DOMAIN ring[r].nodes |-> ring[r].nodes[i].id]
  IN  \/ ids(q) = ids(p)
      \/ \E i \in DOMAIN ring[q].nodes : RemoveAt(ids(q), i) = ids(p)

(* Every node of a built ring has a point and every point names a node of  *)
(* the ring: what get needs to index `nodes`, and what the loop of get_n   *)
(* needs to end (ring.rs 106-108 and 93-99).                               *)
EveryNodePlaced ==
  \A p \in Processes : HasRing(p) =>
    {pt.node : pt \in ToSet(ring[p].points)} = 0 .. Len(ring[p].nodes) - 1

(* A ring that was restored from a snapshot is the one that would be built *)
(* from the nodes it came with, point for point: a snapshot that lost its  *)
(* end is refused and never read as a smaller ring (ring.rs 250-317).      *)
RestoredIsBuilt ==
  \A p \in Processes : HasRing(p) =>
    ring[p].points = RingPoints(ring[p].nodes, ring[p].target)

(* The binary search and the wrap of `get` find the first point clockwise  *)
(* from any hash (ring.rs 141-149).                                        *)
LookupIsSuccessor ==
  \A p \in Processes : HasRing(p) =>
    \A h \in Hashes : StartsAtSuccessor(ring[p].points, h)

(* Two processes that build from the same nodes, listed in whatever order, *)
(* and with the same target, route a hash to the same node, unless points  *)
(* of different nodes collide where the lookup ends (ring.rs 110-120,      *)
(* 140-149).                                                               *)
AgreeUnlessContested ==
  \A p, q \in Processes :
    /\ HasRing(p) /\ HasRing(q)
    /\ DistinctIds(p)
    /\ Len(ring[p].nodes) = Len(ring[q].nodes)
    /\ ToSet(ring[p].nodes) = ToSet(ring[q].nodes)
    /\ ring[p].target = ring[q].target
    => \A h \in Hashes :
         Cardinality(Claimants(p, h)) = 1 => OwnerId(p, h) = OwnerId(q, h)

(* Where points of different nodes collide, the place in the node list     *)
(* decides: the collided hash itself goes to the last listed of them, every *)
(* other hash whose walk ends there to the first listed.  The sort breaks  *)
(* the tie by index; the search ends on the last of equal points when it   *)
(* hits them and before the first of them when it does not.  So processes  *)
(* that list the same nodes in another order disagree there, and a key     *)
(* next to the collision and one on it are split (ring.rs 119-120,         *)
(* 141-149).                                                               *)
CollisionsFollowListOrder ==
  \A p \in Processes : HasRing(p) =>
    \A h \in Hashes :
      LET points == ring[p].points
          start == PointAt(points, StartIndex(points, h)).hash
      IN  \A i \in Matches(points, start) :
            IF h = start THEN PointAt(points, i).node <= OwnerIndex(points, h)
                         ELSE OwnerIndex(points, h) <= PointAt(points, i).node

(* A hash moves between two nodes that both rings have only if the one     *)
(* that lost it has fewer points in the new ring, or the one that won it   *)
(* more: what else moves when a node is added goes to the new node, and    *)
(* all that moves between two targets for the same nodes is explained by   *)
(* the numbers of points.  Collisions do not break this, because the       *)
(* tie-break keeps the order of the old nodes (ring.rs 104-120).           *)
MovesAreExplained ==
  \A p, q \in Processes :
    /\ HasRing(p) /\ HasRing(q)
    /\ DistinctIds(q)
    /\ Extends(q, p)
    => \A h \in Hashes :
         LET was == OwnerId(p, h)
             is == OwnerId(q, h)
         IN  was # is => \/ ~HasNode(p, is)
                         \/ PointCount(q, was) < PointCount(p, was)
                         \/ PointCount(q, is) > PointCount(p, is)
=============================================================================
