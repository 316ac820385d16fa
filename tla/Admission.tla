------------------------------- MODULE Admission -------------------------------
(***************************************************************************)
(* What BoundedRing promises its users, without threads, probes or caps:   *)
(* each request is counted once, on one node, from its admission until it  *)
(* is released; a request the ring routes is counted on a node that is     *)
(* healthy at that moment, and one the program placed itself on the node   *)
(* the program named.  Each of these happens at one instant.               *)
(***************************************************************************)
EXTENDS Integers

CONSTANTS
  Routed,       \* requests placed by get
  Manual,       \* requests the program places itself, with acquire
  Nodes,
  Strangers,    \* ids that are marked but are no nodes
  None

VARIABLES
  load,         \* load[n]: the requests counted on n
  up,           \* the ids marked healthy
  counted       \* counted[r]: the node r counts on, or None

vars == <<load, up, counted>>

Requests == Routed \cup Manual

Init ==
  /\ load = [n \in Nodes |-> 0]
  /\ up = Nodes
  /\ counted = [r \in Requests |-> None]

Count(r, n) ==
  /\ counted[r] = None
  /\ counted' = [counted EXCEPT ![r] = n]
  /\ load' = [load EXCEPT ![n] = @ + 1]
  /\ UNCHANGED up

Admit(r, n) == n \in up /\ Count(r, n)

Finish(r) ==
  /\ counted[r] # None
  /\ counted' = [counted EXCEPT ![r] = None]
  /\ load' = [load EXCEPT ![counted[r]] = @ - 1]
  /\ UNCHANGED up

Mark(id, healthy) ==
  /\ up' = IF healthy THEN up \cup {id} ELSE up \ {id}
  /\ UNCHANGED <<load, counted>>

Next ==
  \/ \E r \in Routed, n \in Nodes : Admit(r, n)
  \/ \E r \in Manual, n \in Nodes : Count(r, n)
  \/ \E r \in Requests : Finish(r)
  \/ \E id \in Nodes \cup Strangers, healthy \in BOOLEAN : Mark(id, healthy)

Spec == Init /\ [][Next]_vars
=============================================================================
