------------------------------ MODULE RingLookup ------------------------------
(***************************************************************************)
(* How every ring of the crate turns a hash into a position among its      *)
(* points.  CompactRing, BoundedRing and HealthAwareRing each repeat the   *)
(* same three lines (binary search by hash, take an exact match, otherwise *)
(* the insertion point modulo the length); this module states them once.   *)
(*                                                                         *)
(* A point is a CompactPointV2: a hash and the index of a node.  The       *)
(* points of a ring are a sequence; the code's indices start at 0, so      *)
(* PointAt shifts by one.                                                  *)
(***************************************************************************)
EXTENDS Integers, Sequences

CONSTANT MaxHash        \* u32::MAX in the code, a small bound for TLC

ASSUME MaxHashAssumption == MaxHash \in Nat

Hashes == 0 .. MaxHash

Point == [hash : Hashes, node : Nat]

PointAt(points, i) == points[i + 1]

(* The order of `sort_unstable_by_key(|p| (p.hash, p.node_index))`. *)
PointLeq(p, q) == p.hash < q.hash \/ (p.hash = q.hash /\ p.node <= q.node)

Sorted(points) ==
  \A i, j \in 1 .. Len(points) : i < j => PointLeq(points[i], points[j])

(* What the lookup takes for granted of the points of `size` nodes.        *)
(* CompactRing::new makes such points (RingsAreValid, CompactRingProofs).  *)
ValidPoints(points, size) ==
  /\ points \in Seq(Point)
  /\ points # <<>>
  /\ \A k \in 1 .. Len(points) : points[k].node \in 0 .. size - 1
  /\ Sorted(points)

-----------------------------------------------------------------------------
(***************************************************************************)
(* slice::binary_search_by_key.  The compiler this crate needs (maglev.rs  *)
(* uses usize::is_multiple_of) has the branchless search, which ends on    *)
(* the last of several equal elements, and otherwise reports the index at  *)
(* which the key could be inserted.                                        *)
(***************************************************************************)
Matches(points, h) ==
  {i \in 0 .. Len(points) - 1 : PointAt(points, i).hash = h}

(* Faulty: the search ends on the first of several equal elements. *)
FirstMatch(points, h) ==
  CHOOSE i \in Matches(points, h) : \A j \in Matches(points, h) : i <= j

LastMatch(points, h) ==
  CHOOSE i \in Matches(points, h) : \A j \in Matches(points, h) : j <= i

InsertionPoint(points, h) ==
  CHOOSE i \in 0 .. Len(points) :
    /\ \A j \in 0 .. i - 1 : PointAt(points, j).hash < h
    /\ \A j \in i .. Len(points) - 1 : h <= PointAt(points, j).hash

(* Faulty: a hash after the last point stays there. *)
StartWithoutWrap(points, h) ==
  IF Matches(points, h) # {} THEN LastMatch(points, h)
  ELSE IF InsertionPoint(points, h) = Len(points) THEN Len(points) - 1
  ELSE InsertionPoint(points, h)

(* `Ok(i) => i, Err(i) => i % self.points.len()` *)
StartIndex(points, h) ==
  IF Matches(points, h) # {} THEN LastMatch(points, h)
                             ELSE InsertionPoint(points, h) % Len(points)

(* CompactRing::get and get_with_hash, on a ring that has points. *)
OwnerIndex(points, h) == PointAt(points, StartIndex(points, h)).node

-----------------------------------------------------------------------------
(***************************************************************************)
(* The reference the lookup is measured against: walking clockwise from    *)
(* the hash, which wraps after MaxHash, no point of the ring is met before *)
(* the one the lookup starts at.                                           *)
(***************************************************************************)
Clockwise(h, p) == IF h <= p.hash THEN p.hash - h
                                  ELSE p.hash - h + MaxHash + 1

StartsAtSuccessor(points, h) ==
  /\ StartIndex(points, h) \in 0 .. Len(points) - 1
  /\ \A i \in 0 .. Len(points) - 1 :
       Clockwise(h, PointAt(points, StartIndex(points, h)))
         <= Clockwise(h, PointAt(points, i))
=============================================================================
