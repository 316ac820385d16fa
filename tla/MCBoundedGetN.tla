----------------------------- MODULE MCBoundedGetN -----------------------------
(***************************************************************************)
(* One caller of BoundedGetN on three nodes, enabled and disabled, while   *)
(* other threads change the health of the nodes.                           *)
(***************************************************************************)
EXTENDS BoundedGetN

CONSTANTS w1, r1, r2, r3, r4, m1, x

P(h, n) == [hash |-> h, node |-> n]

(* Keys start at the first or at the last node; their probes never reach   *)
(* all three.                                                              *)
ThreeNodes == <<P(0, 0), P(1, 1), P(1, 2)>>

OneWorker == {w1}
OneStranger == {x}
ThreeRouted == {r1, r2, r3}
OneManual == {m1}
FourRouted == {r1, r2, r3, r4}

(* As many as the probes may find, and more than there are. *)
MCCounts == {2, 4}

(* Requests that get places are not told apart. *)
MCSymmetry == Permutations(Routed)
=============================================================================
