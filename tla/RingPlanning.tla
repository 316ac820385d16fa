------------------------------ MODULE RingPlanning ------------------------------
(***************************************************************************)
(* What the crate says about the size of a ring, and what an operator who  *)
(* follows it gets: CompactRing::stats (ring.rs), the recommendation and   *)
(* the report of adaptive.rs, the plan of generate_migration_plan          *)
(* (migration.rs), on top of the rings of CompactRing.                     *)
(*                                                                         *)
(* An AdaptiveConfig shares target_cv and the bounds on the hashes per     *)
(* node with the RingConfig it leads to; its other fields are constants    *)
(* here.  Real-valued comparisons are turned into integer ones: cv > m     *)
(* into cv^2 > m^2, and `collision_probability > t`, which grows with the  *)
(* number of pairs of points, into a bound on the pairs.                   *)
(***************************************************************************)
EXTENDS CompactRing

CONSTANTS
  InvMaxCv,           \* 1 / max_cv^2
  MaxPairs,           \* collisions exceed the threshold with more pairs
  MaxMemory,          \* 100 MB in the code
  PointSize,          \* CompactPointV2::SIZE, in the same unit
  SkewNum, SkewDen,   \* weight_skew_threshold = SkewNum / SkewDen
  Targets             \* bound: the targets an operator tries

ASSUME PlanningAssumption ==
  /\ InvMaxCv \in Nat /\ MaxPairs \in Nat /\ MaxMemory \in Nat
  /\ PointSize \in Nat /\ SkewNum \in Nat /\ SkewDen \in Nat \ {0}
  /\ Targets \subseteq Nat \X (Nat \ {0})

(* The seeds of SeedsPerNode are enough for these targets too. *)
ASSUME TargetsAssumption ==
  \A nodes \in NodeLists, target \in Targets : \A i \in DOMAIN nodes :
    HasZeroWeight(nodes) \/ NodeHashes(nodes, target, i) <= SeedsPerNode

-----------------------------------------------------------------------------
(* CompactRing::stats of the ring of p. *)
NodeCount(p) == Len(ring[p].nodes)

TotalPoints(p) == Len(ring[p].points)

(* `avg_hashes as usize`, from which the coefficient of variation is. *)
AvgHashes(p) == TotalPoints(p) \div NodeCount(p)

(* coefficient_of_variation(..) > max_cv *)
CvExceeds(p) ==
  /\ NodeCount(p) > 1
  /\ (NodeCount(p) - 1) * InvMaxCv > (NodeCount(p) + 1) * AvgHashes(p)

Collide(points) == points * (points - 1) > MaxPairs

(* collision_probability(..) > collision_threshold *)
CollisionsExceed(p) == Collide(TotalPoints(p))

MemoryExceeds(p) == TotalPoints(p) * PointSize > MaxMemory

(* avg_hashes_per_node < min_hashes_per_node, not rounded here. *)
HashesBelowMinimum(p) == TotalPoints(p) < NodeCount(p) * MinHashes

(* analyze_ring_efficiency: the issues of the report on the ring of p. *)
Issues(p) ==
  {issue \in {"cv", "collisions", "memory", "minimum"} :
     CASE issue = "cv"         -> CvExceeds(p)
       [] issue = "collisions" -> CollisionsExceed(p)
       [] issue = "memory"     -> MemoryExceeds(p)
       [] issue = "minimum"    -> HashesBelowMinimum(p)}

(* Faulty: the suggestion raises the target instead of lowering it. *)
SuggestedLooser(target) == <<81 * target[1], 100 * target[2]>>

(* suggested_config: target_cv * 0.9, whatever the issues are. *)
Suggested(target) == <<100 * target[1], 81 * target[2]>>

-----------------------------------------------------------------------------
(* weight_skew > weight_skew_threshold *)
Skewed(nodes) ==
  \E i \in DOMAIN nodes :
    nodes[i].weight * Len(nodes) * SkewDen > SkewNum * TotalWeight(nodes)

(* weighted_hashes: for skewed weights, base times a logarithm, of which   *)
(* only is known that it exceeds 1 (the default threshold is 100).         *)
WeightedHashes(nodes, base) ==
  IF Skewed(nodes) THEN Smaller(base, MaxHashes) .. MaxHashes
                   ELSE {Smaller(base, MaxHashes)}

(* recommend_ring_config: the base hashes per node are lowered to 80% when *)
(* collisions are likely, and the target is passed on.                     *)
Recommended(nodes, target) ==
  LET base == HashesPerNode(Len(nodes), target)
  IN  {[base |-> IF Collide(Len(nodes) * weighted) THEN CeilDiv(4 * base, 5)
                                                   ELSE base,
        target |-> target] : weighted \in WeightedHashes(nodes, base)}

(* The operator analyses a ring, and replaces it by one that is built with *)
(* the configuration recommended for the suggested target.                 *)
Tune(p) ==
  /\ ring[p].outcome = "Ok"
  /\ Issues(p) # {}
  /\ Suggested(ring[p].target) \in Targets
  /\ \E config \in Recommended(ring[p].nodes, Suggested(ring[p].target)) :
       New(p, ring[p].nodes, config.target)

PlanningNext == Next \/ \E p \in Processes : Tune(p)

PlanningSpec == Init /\ [][PlanningNext]_vars

-----------------------------------------------------------------------------
(***************************************************************************)
(* generate_migration_plan, between the targets of the rings of p and q    *)
(* for one node list: the old ring is that of p and the new that of q.     *)
(* (It unwraps CompactRing::new, and panics for a list that is refused.)   *)
(***************************************************************************)
SameList(p, q) == HasRing(p) /\ HasRing(q) /\ ring[p].nodes = ring[q].nodes

(* Faulty: the count is that of the node after node i. *)
NextHashCount(p, i) ==
  Cardinality({k \in DOMAIN ring[p].points :
                 ring[p].points[k].node = i % NodeCount(p)})

(* old_hash_count, new_hash_count: the points with the index of node i. *)
HashCount(p, i) ==
  Cardinality({k \in DOMAIN ring[p].points : ring[p].points[k].node = i - 1})

HashDelta(p, q, i) == HashCount(q, i) - HashCount(p, i)

(* The sampled keys estimate_keys_moved counts, by their hashes.  It       *)
(* compares ids, not indexes.                                              *)
KeysMoved(p, q) == {h \in Hashes : OwnerId(p, h) # OwnerId(q, h)}

(* The plan accounts for the keys it says will move: they leave a node     *)
(* whose hash_delta is negative or join one whose hash_delta is positive,  *)
(* so a plan without deltas moves nothing (migration.rs 241-320).          *)
PlanExplainsMoves ==
  \A p, q \in Processes : SameList(p, q) =>
    \A h \in KeysMoved(p, q) :
      \E i \in DOMAIN ring[p].nodes :
        \/ ring[p].nodes[i].id = OwnerId(p, h) /\ HashDelta(p, q, i) < 0
        \/ ring[p].nodes[i].id = OwnerId(q, h) /\ HashDelta(p, q, i) > 0

(* Following the advice takes points from no node, whatever the report     *)
(* says: the coefficient of variation gets no worse, but a ring reported   *)
(* for its collisions ("Reduce hashes per node") or its memory is reported *)
(* for them after every suggestion as well.  The lowered base of           *)
(* recommend_ring_config changes nothing, as `new` reads the target only   *)
(* (adaptive.rs 100-102, 120-147; ring.rs 88-91).                          *)
TuningOnlyAdds ==
  [][\A p \in Processes : Tune(p) =>
       /\ \A i \in DOMAIN ring[p].nodes : HashCount(p, i)' >= HashCount(p, i)
       /\ CvExceeds(p)' => CvExceeds(p)
       /\ CollisionsExceed(p) => CollisionsExceed(p)'
       /\ MemoryExceeds(p) => MemoryExceeds(p)']_vars
=============================================================================
