------------------------------- MODULE RingWalk -------------------------------
(***************************************************************************)
(* CompactRing::get_n (shardring/src/ring.rs): the walk that collects the  *)
(* first n distinct nodes clockwise from a key, one visited point per      *)
(* step.  The ring is immutable (the methods take &self), so one caller is *)
(* enough; it calls again and again, with any hash and any n.              *)
(*                                                                         *)
(* Rings are what CompactRing::new can build: sorted, and with a point for *)
(* every node (EveryNodePlaced of module CompactRing).  The branch of      *)
(* get_n for a ring without points cannot run on one of these.             *)
(***************************************************************************)
EXTENDS RingLookup

CONSTANTS
  Rings,      \* records: the points and the number of nodes
  Counts      \* the values of n a caller may ask for

VARIABLES
  ring,       \* self
  hash, n,    \* the arguments of the current or last call
  i,          \* the point to visit next
  seen,       \* seen[node]: the node is in result
  result,     \* the nodes collected
  pc          \* "idle" or "walking"

vars == <<ring, hash, n, i, seen, result, pc>>

Nodes(r) == 0 .. r.size - 1

Indices(r) == 0 .. Len(r.points) - 1

NodeAt(r, k) == PointAt(r.points, k).node

WellFormed(r) ==
  /\ r.points \in Seq(Point)
  /\ r.size \in Nat \ {0}
  /\ Sorted(r.points)
  /\ {NodeAt(r, k) : k \in Indices(r)} = Nodes(r)

ASSUME RingsAssumption == \A r \in Rings : WellFormed(r)

ASSUME CountsAssumption == Counts \subseteq Nat

-----------------------------------------------------------------------------
Init ==
  /\ ring \in Rings
  /\ hash = 0
  /\ n = 0
  /\ i = 0
  /\ seen = [node \in Nodes(ring) |-> FALSE]
  /\ result = <<>>
  /\ pc = "idle"

(* ring.rs 169-180: the arguments, the first point, the empty vectors. *)
Call(h, count) ==
  /\ pc = "idle"
  /\ hash' = h
  /\ n' = count
  /\ i' = StartIndex(ring.points, h)
  /\ seen' = [node \in Nodes(ring) |-> FALSE]
  /\ result' = <<>>
  /\ pc' = "walking"
  /\ UNCHANGED ring

(* Faulty: the number of nodes does not bound the result. *)
UnboundedWanted == Len(result) < n

(* Faulty: the loop runs once too often. *)
WantedTooMany == Len(result) <= n /\ Len(result) < ring.size

(* The condition of the while loop. *)
Wanted == Len(result) < n /\ Len(result) < ring.size

(* Faulty: the walk goes counter-clockwise. *)
StepBack == i' = (i + Len(ring.points) - 1) % Len(ring.points)

(* `i = (i + 1) % self.points.len()` *)
Step == i' = (i + 1) % Len(ring.points)

(* A point of a node not met before. *)
Collect ==
  /\ pc = "walking" /\ Wanted
  /\ ~seen[NodeAt(ring, i)]
  /\ seen' = [seen EXCEPT ![NodeAt(ring, i)] = TRUE]
  /\ result' = Append(result, NodeAt(ring, i))
  /\ Step
  /\ UNCHANGED <<ring, hash, n, pc>>

(* Another point of a node that was. *)
Skip ==
  /\ pc = "walking" /\ Wanted
  /\ seen[NodeAt(ring, i)]
  /\ Step
  /\ UNCHANGED <<ring, hash, n, seen, result, pc>>

Return ==
  /\ pc = "walking" /\ ~Wanted
  /\ pc' = "idle"
  /\ UNCHANGED <<ring, hash, n, i, seen, result>>

Walk == Collect \/ Skip \/ Return

Next == (\E h \in Hashes, count \in Counts : Call(h, count)) \/ Walk

Spec == Init /\ [][Next]_vars

(* The loop does not block: a caller that runs, walks. *)
FairSpec == Spec /\ WF_vars(Walk)

-----------------------------------------------------------------------------
TypeOK ==
  /\ WellFormed(ring)
  /\ hash \in Hashes
  /\ n \in Nat
  /\ i \in Indices(ring)
  /\ seen \in [Nodes(ring) -> BOOLEAN]
  /\ result \in Seq(Nodes(ring))
  /\ pc \in {"idle", "walking"}

(* How far clockwise from the start of the walk a point is, in points. *)
Offset(k) == LET start == StartIndex(ring.points, hash)
             IN  IF start <= k THEN k - start
                               ELSE k - start + Len(ring.points)

Earlier(r) == {result[q] : q \in 1 .. r}

(* The result is a preference list: the node at each place has a point     *)
(* before all points of the nodes that are not placed up to there.  So     *)
(* nodes are distinct, the first is the one `get` returns, and get_n of n  *)
(* is a prefix of get_n of n + 1 (ring.rs 168-195).                        *)
PreferenceOrder ==
  \A r \in 1 .. Len(result) :
    /\ result[r] \notin Earlier(r - 1)
    /\ \E k \in Indices(ring) :
         /\ NodeAt(ring, k) = result[r]
         /\ \A other \in Indices(ring) :
              NodeAt(ring, other) \notin Earlier(r) => Offset(k) < Offset(other)

(* A finished call returns n nodes, or all of them if the ring has fewer:  *)
(* never less, although the walk skips points.                             *)
CompleteWhenDone ==
  pc = "idle" => Len(result) = IF n <= ring.size THEN n ELSE ring.size

(* The walk ends, also when n exceeds the number of nodes, which holds     *)
(* because every node has a point (ring.rs 185-192).                       *)
CallReturns == pc = "walking" ~> pc = "idle"
=============================================================================
