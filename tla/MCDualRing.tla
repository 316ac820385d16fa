------------------------------ MODULE MCDualRing ------------------------------
(***************************************************************************)
(* DualRing with one key and two datacenters: keys do not interact, and    *)
(* what a strategy may confuse is the three ways to ask for one key.       *)
(* Rollouts lie on both sides of 0.0 and of 1.0.                           *)
(***************************************************************************)
EXTENDS DualRing

CONSTANTS a, b, k, d1, d2

MCNodeLists == {<<a, b>>, <<b, a>>, <<a>>}

MCRollouts == {-1, 1, 2, 3}

MCAllowlists == {{}, {d1}, {d1, d2}}
=============================================================================
