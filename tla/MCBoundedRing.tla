----------------------------- MODULE MCBoundedRing -----------------------------
(***************************************************************************)
(* BoundedRing on small rings.  The points of the rings interleave the     *)
(* nodes, and the hashes a key may have reach every point.                 *)
(***************************************************************************)
EXTENDS BoundedRing, TLC

P(h, n) == [hash |-> h, node |-> n]

(* Two nodes, one of them with two points, the last point before the wrap. *)
TwoNodes == <<P(0, 0), P(1, 1), P(2, 0)>>

ThreeNodes == <<P(0, 0), P(1, 1), P(2, 2)>>

(* The mean of five nodes stays below one request for four requests. *)
FiveNodes == <<P(0, 0), P(1, 1), P(2, 2), P(2, 3), P(2, 4)>>

CONSTANTS w1, w2, w3, r1, r2, r3, r4, m1, x

TwoWorkers == {w1, w2}
ThreeWorkers == {w1, w2, w3}
OneStranger == {x}
OneManual == {m1}
TwoRouted == {r1, r2}
FourRouted == {r1, r2, r3, r4}

(* Neither threads nor requests of a kind are told apart. *)
MCSymmetry == Permutations(Workers) \cup Permutations(Routed)
=============================================================================
