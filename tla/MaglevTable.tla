----------------------------- MODULE MaglevTable -----------------------------
(***************************************************************************)
(* MaglevTable (shardring/src/maglev.rs): filling the lookup table, one    *)
(* visited slot per step, and the lookups in a finished table.             *)
(*                                                                         *)
(* A node of weight w has w virtual nodes.  The hashes that place a        *)
(* virtual node's permutation are unknown: any offset and any skip.  The   *)
(* size of the table is a prime if it was given to MaglevConfig::new, and  *)
(* whatever was asked for if it was given to the builder.                  *)
(***************************************************************************)
EXTENDS Integers, Sequences, FiniteSets, SequencesExt

CONSTANTS
  WeightLists,      \* the weights of the nodes a table may be built from
  Asked,            \* table sizes that are asked for
  Empty             \* usize::MAX

ASSUME SizesAssumption ==
  /\ Asked \subseteq Nat
  /\ \A weights \in WeightLists : weights \in Seq(Nat)
  /\ Empty \notin Nat

VARIABLES
  weights,          \* of the nodes
  size,             \* config.table_size
  perm,             \* perm[v]: offset and skip of virtual node v
  table,            \* table[slot]: a virtual node, or Empty
  next,             \* next_idx
  turn,             \* the virtual node whose turn it is
  pc                \* "new", "filling", "built", the error or "panicked"

vars == <<weights, size, perm, table, next, turn, pc>>

-----------------------------------------------------------------------------
Divides(d, n) == n % d = 0

(* Faulty: a square of a prime counts as a prime. *)
IsPrimeBelowRoot(n) ==
  /\ n >= 2
  /\ Divides(2, n) => n = 2
  /\ \A i \in 3 .. n : (i % 2 = 1 /\ i * i < n) => ~Divides(i, n)

(* is_prime: trial division by 2 and by odd numbers up to the root. *)
IsPrime(n) ==
  /\ n >= 2
  /\ Divides(2, n) => n = 2
  /\ \A i \in 3 .. n : (i % 2 = 1 /\ i * i <= n) => ~Divides(i, n)

(* What next_prime may return: it goes upwards over odd numbers.  There is *)
(* a prime below 2n, so this is one number.                                *)
NextPrime(n) ==
  LET from == IF Divides(2, n) THEN n + 1 ELSE n
  IN  IF n <= 2 THEN {2}
      ELSE {p \in from .. 2 * from :
              /\ p % 2 = 1 /\ IsPrime(p)
              /\ \A q \in from .. p - 1 : q % 2 = 1 => ~IsPrime(q)}

(* MaglevConfig::new, and builder.table_size. *)
TableSizes(n) == NextPrime(n) \cup {n}

(* Faulty: the virtual nodes are dealt out to the nodes in turn. *)
VnodesInTurn ==
  FlattenSeq([k \in 1 .. Len(weights) |->
                [j \in 1 .. weights[k] |-> 1 + ((k + j - 2) % Len(weights))]])

(* vnode_to_node: node k has its weight in virtual nodes, next to another. *)
VnodeToNode == FlattenSeq([k \in 1 .. Len(weights) |-> [j \in 1 .. weights[k] |-> k]])

VNodes == 1 .. Len(VnodeToNode)

Slots == 0 .. size - 1

(* The offsets and skips a hash may give. *)
Placements(n) ==
  [offset : 0 .. n - 1, skip : 1 .. n - 1]

(* The k-th slot of generate_permutation. *)
Slot(v, k) == (perm[v].offset + k * perm[v].skip) % size

Filled == Cardinality({s \in Slots : table[s] # Empty})

-----------------------------------------------------------------------------
Init ==
  /\ weights \in WeightLists
  /\ size \in UNION {TableSizes(n) : n \in Asked}
  /\ perm = <<>>
  /\ table = [s \in Slots |-> Empty]
  /\ next = <<>>
  /\ turn = 1
  /\ pc = "new"

HasZeroWeight == \E k \in DOMAIN weights : weights[k] = 0

Reject ==
  /\ pc = "new"
  /\ \/ weights = <<>> /\ pc' = "EmptyRing"
     \/ HasZeroWeight /\ pc' = "InvalidWeight"
  /\ UNCHANGED <<weights, size, perm, table, next, turn>>

Accepted == weights # <<>> /\ ~HasZeroWeight

(* generate_permutation: `h1 % table_size`, or else `h2 % (table_size - 1)`, *)
(* divides by zero.                                                        *)
Panic ==
  /\ pc = "new"
  /\ Accepted
  /\ size \in {0, 1}
  /\ pc' = "panicked"
  /\ UNCHANGED <<weights, size, perm, table, next, turn>>

(* Lines 54 to 82: the permutations are generated. *)
Begin ==
  /\ pc = "new"
  /\ Accepted
  /\ size >= 2
  /\ perm' \in [VNodes -> Placements(size)]
  /\ next' = [v \in VNodes |-> 0]
  /\ pc' = "filling"
  /\ UNCHANGED <<weights, size, table, turn>>

(* The for loop goes to the next virtual node, the while loop round it. *)
PassTurn == turn' = 1 + (turn % Len(VnodeToNode))

Filling == pc = "filling" /\ Filled < size

(* Faulty: a virtual node goes on after it has claimed a slot. *)
ClaimAgain ==
  /\ Filling
  /\ next[turn] < size
  /\ LET s == Slot(turn, next[turn])
     IN  /\ table[s] = Empty
         /\ table' = [table EXCEPT ![s] = turn]
  /\ next' = [next EXCEPT ![turn] = @ + 1]
  /\ UNCHANGED <<weights, size, perm, turn, pc>>

(* The slot is free: it is claimed, and the next virtual node has its turn. *)
Claim ==
  /\ Filling
  /\ next[turn] < size
  /\ LET s == Slot(turn, next[turn])
     IN  /\ table[s] = Empty
         /\ table' = [table EXCEPT ![s] = turn]
  /\ next' = [next EXCEPT ![turn] = @ + 1]
  /\ PassTurn
  /\ UNCHANGED <<weights, size, perm, pc>>

(* The slot is taken: on to the next one of the permutation. *)
Passed ==
  /\ Filling
  /\ next[turn] < size
  /\ table[Slot(turn, next[turn])] # Empty
  /\ next' = [next EXCEPT ![turn] = @ + 1]
  /\ UNCHANGED <<weights, size, perm, table, turn, pc>>

(* Faulty: the virtual node keeps its turn. *)
ExhaustedForGood ==
  /\ Filling
  /\ next[turn] = size
  /\ UNCHANGED vars

(* The permutation is used up, and the virtual node claims nothing. *)
Exhausted ==
  /\ Filling
  /\ next[turn] = size
  /\ PassTurn
  /\ UNCHANGED <<weights, size, perm, table, next, pc>>

(* Faulty: building stops when a permutation is used up. *)
BuiltEarly ==
  /\ pc = "filling"
  /\ Filled = size \/ next[turn] = size
  /\ pc' = "built"
  /\ UNCHANGED <<weights, size, perm, table, next, turn>>

Built ==
  /\ pc = "filling"
  /\ Filled = size
  /\ pc' = "built"
  /\ UNCHANGED <<weights, size, perm, table, next, turn>>

Fill == Claim \/ Passed \/ Exhausted \/ Built

Next == Reject \/ Panic \/ Begin \/ Fill

Spec == Init /\ [][Next]_vars

(* The loops do not block. *)
FairSpec == Spec /\ WF_vars(Begin \/ Fill)

-----------------------------------------------------------------------------
(* get and get_with_hash. *)
Get(h) == VnodeToNode[table[h % size]]

(* Faulty: the walk of get_n starts at the slot after. *)
WalkAfter(h) == [k \in 1 .. size |-> VnodeToNode[table[(h + k) % size]]]

(* The nodes get_n comes by, once round the table. *)
Walk(h) == [k \in 1 .. size |-> VnodeToNode[table[(h + k - 1) % size]]]

(* get_n: each node once, up to n of them. *)
GetN(h, n) ==
  LET found[k \in 0 .. size] ==
        IF k = 0 THEN <<>>
        ELSE IF Len(found[k - 1]) < n /\ Walk(h)[k] \notin ToSet(found[k - 1])
             THEN Append(found[k - 1], Walk(h)[k])
             ELSE found[k - 1]
  IN  found[size]

-----------------------------------------------------------------------------
SlotsOf(v) == Cardinality({s \in Slots : table[s] = v})

(* gcd(skip, size) = 1: the permutation is one. *)
Permutes(v) ==
  \A d \in 2 .. size : ~(Divides(d, size) /\ Divides(d, perm[v].skip))

AllPermute == \A v \in VNodes : Permutes(v)

(* At any time no virtual node has more than one slot more than another,   *)
(* and earlier ones have no fewer than later ones, if every permutation is *)
(* one, as it is for a prime size: a node's share of the table is its      *)
(* weight, up to one slot for each of its virtual nodes (maglev.rs 84-101).*)
Balanced ==
  pc \in {"filling", "built"} /\ AllPermute =>
    \A v, w \in VNodes : v < w => SlotsOf(v) - SlotsOf(w) \in {0, 1}

(* load_distribution, and the extremes stats reports. *)
LoadOf(k) == Cardinality({s \in Slots : VnodeToNode[table[s]] = k})

Loads == {LoadOf(k) : k \in DOMAIN weights}

(* The load a finished table reports for a node is its weight's part of    *)
(* the table, up to one slot for each of its virtual nodes, so that with   *)
(* equal weights the extremes differ by no more than the weight (maglev.rs *)
(* 57-69, 84-101, 172-216).                                                *)
SharesFollowWeights ==
  pc = "built" /\ AllPermute =>
    LET least == size \div Len(VnodeToNode)
    IN  /\ \A k \in DOMAIN weights :
             LoadOf(k) \in weights[k] * least .. weights[k] * (least + 1)
        /\ (\A k \in DOMAIN weights : weights[k] = weights[1])
             => Max(Loads) - Min(Loads) <= weights[1]

NextPrimeIsLeast ==
  LET prime(p) == p >= 2 /\ \A d \in 2 .. p - 1 : ~Divides(d, p)
  IN  \A n \in 0 .. 60 :
        \E p \in NextPrime(n) :
          /\ NextPrime(n) = {p}
          /\ p >= n /\ prime(p)
          /\ \A q \in n .. p - 1 : ~prime(q)

(* MaglevConfig::new makes the smallest prime of the size it is given that *)
(* is not less, and then the permutations visit every slot, whatever the   *)
(* hashes are (maglev.rs 20-25, 292-301, 306-334).                         *)
PrimeSizesPermute ==
  /\ NextPrimeIsLeast
  /\ \A n \in Asked :
       size \in NextPrime(n) /\ pc \in {"filling", "built"} => AllPermute

(* The slots that the permutations visit between them. *)
Reached == {Slot(v, k) : v \in VNodes, k \in Slots}

(* new returns a table only if the permutations visit every slot between   *)
(* them, which composite sizes do not ensure, and then every slot is       *)
(* somebody's, so that get never reads usize::MAX (maglev.rs 84-101).      *)
BuiltMeansReached ==
  pc = "built" => Reached = Slots /\ \A s \in Slots : table[s] # Empty

(* If they do, new returns; and it does for every size that                *)
(* MaglevConfig::new makes of what it is asked for, 0 and 1 included, for  *)
(* which the builder's own size would divide by zero (maglev.rs 20-25,     *)
(* 84-101, 292-293, 306-317).                                              *)
BuildReturns ==
  /\ pc = "filling" /\ Reached = Slots ~> pc = "built"
  /\ pc = "new" /\ Accepted /\ size \in UNION {NextPrime(n) : n \in Asked} ~> pc = "built"

(* get_n returns each node once, the owner that get returns first, then    *)
(* the others by the slots they own, and as many as there are nodes in the *)
(* table or were asked for (maglev.rs 116-154).                            *)
GetNIsWalk ==
  pc = "built" =>
    \A h \in Slots, n \in 1 .. Len(weights) + 1 :
      LET result == GetN(h, n)
          present == {Get(s) : s \in Slots}
      IN  /\ result[1] = Get(h)
          /\ IsInjective(result)
          /\ ToSet(result) \subseteq present
          /\ Len(result) = IF n <= Cardinality(present) THEN n
                           ELSE Cardinality(present)
          /\ \A r \in 1 .. Len(result) :
               \E k \in Slots :
                 /\ Get(h + k) = result[r]
                 /\ {Get(h + j) : j \in 0 .. k} = {result[q] : q \in 1 .. r}
=============================================================================
