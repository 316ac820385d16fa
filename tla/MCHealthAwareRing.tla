--------------------------- MODULE MCHealthAwareRing ---------------------------
(***************************************************************************)
(* HealthAwareRing with two nodes, of which one is added and removed.  The *)
(* points have the same hash: a search starts at the second and wraps.     *)
(***************************************************************************)
EXTENDS HealthAwareRing, TLC

CONSTANTS a, b

MCSymmetry == Permutations(Callers) \cup Permutations(Loops)

MCRingIds == <<a, b>>

MCPoints == <<[hash |-> 0, node |-> 0], [hash |-> 0, node |-> 1]>>

(* What Retain keeps, by ranks of places, is what SelectSeq keeps. *)
ASSUME RetainKeepsOrder ==
  \A n \in 0 .. 3 : \A s \in [1 .. n -> {a, b}], x \in {a, b} :
    Without(s, x) = SelectSeq(s, LAMBDA y : y # x)
=============================================================================
