------------------------------ MODULE MCRingWalk ------------------------------
(***************************************************************************)
(* Every ring of up to three nodes and four points over four hashes: the   *)
(* nodes in any order, points adjacent or apart, with and without          *)
(* collisions, and counts from none to more than there are nodes.          *)
(***************************************************************************)
EXTENDS RingWalk, FiniteSets

MCRings ==
  LET NodesOf(s) == {s[k].node : k \in DOMAIN s}
      Size(s) == Cardinality(NodesOf(s))
      Built(m) == {s \in [1 .. m -> [hash : Hashes, node : 0 .. 2]] :
                     Sorted(s) /\ NodesOf(s) = 0 .. Size(s) - 1}
  IN  {[points |-> SubSeq(s, 1, Len(s)), size |-> Size(s)] :
          s \in UNION {Built(m) : m \in 1 .. 4}}

MCCounts == 0 .. 4
=============================================================================
