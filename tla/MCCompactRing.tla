----------------------------- MODULE MCCompactRing -----------------------------
(***************************************************************************)
(* Rings on three ids: lists that are permutations of one another,         *)
(* lists that grow by a node at the front, in the middle and at the end,   *)
(* unequal weights that the minimum of one point rescues, and each list    *)
(* that is refused (the last one both repeats an id and is too long).      *)
(***************************************************************************)
EXTENDS RingPlanning

CONSTANTS a, b, c, p1, p2

N(name, w) == [id |-> name, weight |-> w]

(* Two targets: with the second, lists of two nodes get more points. *)
Coarse == <<3, 1>>
Finer == Suggested(Coarse)

MCBuilds == {[nodes |-> <<N(a, 1), N(b, 1)>>, target |-> Finer]} \cup
  [nodes : { <<>>,
             <<N(a, 0), N(b, 1)>>,
             <<N(a, 1)>>,
             <<N(a, 1), N(b, 1)>>,
             <<N(b, 1), N(a, 2)>>,
             <<N(a, 1), N(b, 1), N(c, 1)>>,
             <<N(b, 1), N(a, 1), N(c, 1)>>,
             <<N(a, 2), N(c, 1), N(b, 2)>>,
             <<N(a, 1), N(b, 1), N(c, 1), N(a, 1)>> },
   target : {Coarse}]

(* An operator may tune once; going back to a looser target is possible,   *)
(* although no suggestion does.                                            *)
MCTargets == {Finer, SuggestedLooser(Finer)}

(* Nothing tells the processes apart. *)
MCProcesses == {p1, p2}

MCSymmetry == Permutations(MCProcesses)
=============================================================================
