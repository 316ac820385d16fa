------------------------------ MODULE BoundedRing ------------------------------
(***************************************************************************)
(* Bounded-load placement (shardring/src/bounded.rs): BoundedRing shared   *)
(* by several threads.  `get` reads the loads and raises one of them later *)
(* and without a lock, so every atomic operation of LoadTracker is a step  *)
(* of its own; the health map is behind an RwLock whose read guard `get`   *)
(* keeps until it returns.                                                 *)
(*                                                                         *)
(* A request is a unit of work of the program that uses the ring.  A       *)
(* worker (thread) calls get, or acquire for work it placed by other       *)
(* means; the request then holds a node until a worker releases it.        *)
(*                                                                         *)
(* Nodes are named by their index.  The ids of a ring are taken to be      *)
(* distinct.  The ring is enabled: BoundedGetN has the disabled ring, and  *)
(* get_n.  `acquire` and `release` with an id the ring does not have do    *)
(* nothing, and have no action.                                            *)
(***************************************************************************)
EXTENDS RingLookup, FiniteSetsExt

CONSTANTS
  Workers,          \* threads
  Routed,           \* requests that get places; with Manual, the bound on
                    \* the requests in flight at once
  Manual,           \* requests the program places itself, with acquire
  NumNodes,         \* the nodes of the ring are 0 .. NumNodes - 1
  Points,           \* its points
  Strangers,        \* other ids set_healthy may be called with
  FactorNum,        \* max_load_factor = FactorNum / FactorDen
  FactorDen,
  MaxProbes,        \* max_probes
  LoadRange,        \* 2^64 in the code: AtomicU64 wraps
  None

Nodes == 0 .. NumNodes - 1

Requests == Routed \cup Manual

ASSUME NodesAssumption ==
  /\ NumNodes \in Nat \ {0}
  /\ None \notin Nodes
  /\ Strangers \cap Nodes = {}

ASSUME RequestsAssumption ==
  /\ Routed \cap Manual = {}
  /\ None \notin Requests

ASSUME PointsAssumption == ValidPoints(Points, NumNodes)

ASSUME ConfigAssumption ==
  /\ FactorNum \in Nat
  /\ FactorDen \in Nat \ {0}
  /\ MaxProbes \in Nat
  /\ LoadRange \in Nat \ {0}

ASSUME BoundsAssumption ==
  /\ IsFiniteSet(Workers) /\ IsFiniteSet(Requests) /\ IsFiniteSet(Strangers)
  /\ Cardinality(Requests) < LoadRange - 1    \* 2^64 - 1 requests in flight

VARIABLES
  load,             \* LoadTracker::loads
  total,            \* LoadTracker::total_load
  up,               \* the ids that are true in the map `healthy`
  held,             \* held[r]: the node that serves request r
  pc,               \* where each worker is in the code
  job,              \* the request it is busy with
  start,            \* start_idx
  at,               \* the probe, then the node of the fallback, it looks at
  cap,              \* max_load, computed once per call
  pick,             \* the node it has settled for, best_node in the fallback
  low               \* best_load in the fallback

shared == <<load, total, up, held>>
vars == <<load, total, up, held, pc, job, start, at, cap, pick, low>>

-----------------------------------------------------------------------------
(* The workers inside get: they hold the read guard of the health map. *)
Readers == {w \in Workers : pc[w] \in {"probing", "scanning", "adding", "counting"}}

(* Workers inside get that have not settled for a node. *)
Choosing == {w \in Workers : pc[w] \in {"probing", "scanning"}}

(* Faulty: a writer only waits for readers that are still choosing. *)
WriterBlockedEarly == Choosing # {}

(* A writer of the health map waits for every reader. *)
WriterBlocked == Readers # {}

(* A request no worker is busy with. *)
Free(r) == \A w \in Workers : job[w] # r

(* `(avg_load * max_load_factor) as u64`, where avg_load is 0 if nothing   *)
(* is up.  Every id of the health map counts, nodes of the ring or not.    *)
MaxLoad ==
  IF up = {} THEN 0
             ELSE (total * FactorNum) \div (Cardinality(up) * FactorDen)

(* The node of the point that probe number k of worker w looks at. *)
Probed(w, k) == PointAt(Points, (start[w] + k) % Len(Points)).node

(* A worker leaves the code; its locals are dropped. *)
Leave(w) ==
  /\ pc' = [pc EXCEPT ![w] = "idle"]
  /\ start' = [start EXCEPT ![w] = 0]
  /\ at' = [at EXCEPT ![w] = 0]
  /\ cap' = [cap EXCEPT ![w] = 0]
  /\ pick' = [pick EXCEPT ![w] = None]
  /\ low' = [low EXCEPT ![w] = 0]
  /\ job' = [job EXCEPT ![w] = None]

InitWith(marked) ==
  /\ up = marked
  /\ load = [n \in Nodes |-> 0]
  /\ total = 0
  /\ held = [r \in Requests |-> None]
  /\ pc = [w \in Workers |-> "idle"]
  /\ job = [w \in Workers |-> None]
  /\ start = [w \in Workers |-> 0]
  /\ at = [w \in Workers |-> 0]
  /\ cap = [w \in Workers |-> 0]
  /\ pick = [w \in Workers |-> None]
  /\ low = [w \in Workers |-> 0]

(* BoundedRing::new: every node is taken to be healthy. *)
Init == InitWith(Nodes)

-----------------------------------------------------------------------------
(* Lines 132-147 of get: the read guard, and one read of the total.  The   *)
(* guard keeps `up` as it is until get returns, so taking it and reading   *)
(* the total are one step.                                                 *)
Get(w, r, h) ==
  /\ pc[w] = "idle"
  /\ Free(r) /\ held[r] = None
  /\ pc' = [pc EXCEPT ![w] = "probing"]
  /\ job' = [job EXCEPT ![w] = r]
  /\ start' = [start EXCEPT ![w] = StartIndex(Points, h)]
  /\ at' = [at EXCEPT ![w] = 0]
  /\ cap' = [cap EXCEPT ![w] = MaxLoad]
  /\ UNCHANGED <<shared, pick, low>>

(* Faulty: the comparison lets one request too many in. *)
AcceptsOneMore(w, n) == n \in up /\ load[n] <= cap[w] + 1

(* A probed node is taken if it is healthy and its load, as read now, is   *)
(* within the cap, as computed at the start.                               *)
Accepts(w, n) == n \in up /\ load[n] <= cap[w]

ProbeAccept(w) ==
  /\ pc[w] = "probing" /\ at[w] < MaxProbes
  /\ LET n == Probed(w, at[w])
     IN  /\ Accepts(w, n)
         /\ pick' = [pick EXCEPT ![w] = n]
  /\ pc' = [pc EXCEPT ![w] = "adding"]
  /\ UNCHANGED <<shared, job, start, at, cap, low>>

(* Faulty: the loop comes back to an unhealthy node. *)
ProbeStuck(w) ==
  /\ pc[w] = "probing" /\ at[w] < MaxProbes
  /\ ~Accepts(w, Probed(w, at[w]))
  /\ at' = [at EXCEPT ![w] = IF Probed(w, @) \in up THEN @ + 1 ELSE @]
  /\ UNCHANGED <<shared, pc, job, start, cap, pick, low>>

ProbeNext(w) ==
  /\ pc[w] = "probing" /\ at[w] < MaxProbes
  /\ ~Accepts(w, Probed(w, at[w]))
  /\ at' = [at EXCEPT ![w] = @ + 1]
  /\ UNCHANGED <<shared, pc, job, start, cap, pick, low>>

(* Faulty: the fallback only looks for loads below the cap. *)
FallBackBelowCap(w) ==
  /\ pc[w] = "probing" /\ at[w] = MaxProbes
  /\ pc' = [pc EXCEPT ![w] = "scanning"]
  /\ at' = [at EXCEPT ![w] = 0]
  /\ pick' = [pick EXCEPT ![w] = None]
  /\ low' = [low EXCEPT ![w] = cap[w]]
  /\ UNCHANGED <<shared, job, start, cap>>

(* No probe found room: find_least_loaded, one node per step. *)
FallBack(w) ==
  /\ pc[w] = "probing" /\ at[w] = MaxProbes
  /\ pc' = [pc EXCEPT ![w] = "scanning"]
  /\ at' = [at EXCEPT ![w] = 0]
  /\ pick' = [pick EXCEPT ![w] = None]
  /\ low' = [low EXCEPT ![w] = LoadRange - 1]
  /\ UNCHANGED <<shared, job, start, cap>>

Better(w, n) == n \in up /\ load[n] < low[w]

ScanBetter(w) ==
  /\ pc[w] = "scanning" /\ at[w] < NumNodes
  /\ Better(w, at[w])
  /\ pick' = [pick EXCEPT ![w] = at[w]]
  /\ low' = [low EXCEPT ![w] = load[at[w]]]
  /\ at' = [at EXCEPT ![w] = @ + 1]
  /\ UNCHANGED <<shared, pc, job, start, cap>>

ScanNext(w) ==
  /\ pc[w] = "scanning" /\ at[w] < NumNodes
  /\ ~Better(w, at[w])
  /\ at' = [at EXCEPT ![w] = @ + 1]
  /\ UNCHANGED <<shared, pc, job, start, cap, pick, low>>

(* Faulty: the fallback forgets the node's own load. *)
ScanFoundUncounted(w) ==
  /\ pc[w] = "scanning" /\ at[w] = NumNodes
  /\ pick[w] # None
  /\ pc' = [pc EXCEPT ![w] = "counting"]
  /\ UNCHANGED <<shared, job, start, at, cap, pick, low>>

ScanFound(w) ==
  /\ pc[w] = "scanning" /\ at[w] = NumNodes
  /\ pick[w] # None
  /\ pc' = [pc EXCEPT ![w] = "adding"]
  /\ UNCHANGED <<shared, job, start, at, cap, pick, low>>

(* `ok_or(EmptyRing)`: nothing is counted and the request holds no node. *)
ScanEmpty(w) ==
  /\ pc[w] = "scanning" /\ at[w] = NumNodes
  /\ pick[w] = None
  /\ Leave(w)
  /\ UNCHANGED shared

(* LoadTracker::acquire is two atomic additions, first the node's. *)
AddLoad(w) ==
  /\ pc[w] = "adding"
  /\ load' = [load EXCEPT ![pick[w]] = (@ + 1) % LoadRange]
  /\ pc' = [pc EXCEPT ![w] = "counting"]
  /\ UNCHANGED <<total, up, held, job, start, at, cap, pick, low>>

(* ... then the total.  get and acquire return: the request has its node. *)
AddTotal(w) ==
  /\ pc[w] \in {"counting", "acquiring"}
  /\ total' = (total + 1) % LoadRange
  /\ held' = [held EXCEPT ![job[w]] = pick[w]]
  /\ Leave(w)
  /\ UNCHANGED <<load, up>>

(* BoundedRing::acquire: a node the program chose itself, up or not. *)
Acquire(w, r, n) ==
  /\ pc[w] = "idle"
  /\ Free(r) /\ held[r] = None
  /\ load' = [load EXCEPT ![n] = (@ + 1) % LoadRange]
  /\ pc' = [pc EXCEPT ![w] = "acquiring"]
  /\ job' = [job EXCEPT ![w] = r]
  /\ pick' = [pick EXCEPT ![w] = n]
  /\ UNCHANGED <<total, up, held, start, at, cap, low>>

(* BoundedRing::release, by whichever worker finishes the request: the     *)
(* node's load, then the total.                                            *)
Release(w, r) ==
  /\ pc[w] = "idle"
  /\ Free(r) /\ held[r] # None
  /\ load' = [load EXCEPT ![held[r]] = (@ - 1) % LoadRange]
  /\ held' = [held EXCEPT ![r] = None]
  /\ pc' = [pc EXCEPT ![w] = "dropping"]
  /\ job' = [job EXCEPT ![w] = r]
  /\ UNCHANGED <<total, up, start, at, cap, pick, low>>

(* Faulty: release forgets the total. *)
DropNothing(w) ==
  /\ pc[w] = "dropping"
  /\ Leave(w)
  /\ UNCHANGED shared

DropTotal(w) ==
  /\ pc[w] = "dropping"
  /\ total' = (total - 1) % LoadRange
  /\ Leave(w)
  /\ UNCHANGED <<load, up, held>>

(* set_healthy inserts any id.  The write lock waits for every reader. *)
SetHealthy(id, healthy) ==
  /\ ~WriterBlocked
  /\ up' = IF healthy THEN up \cup {id} ELSE up \ {id}
  /\ UNCHANGED <<load, total, held, pc, job, start, at, cap, pick, low>>

-----------------------------------------------------------------------------
(* A worker that is inside a call, which it can always go on with. *)
Proceed(w) ==
  \/ ProbeAccept(w) \/ ProbeNext(w) \/ FallBack(w)
  \/ ScanBetter(w) \/ ScanNext(w) \/ ScanFound(w) \/ ScanEmpty(w)
  \/ AddLoad(w) \/ AddTotal(w) \/ DropTotal(w)

GetSome(w) == \E r \in Routed, h \in Hashes : Get(w, r, h)

Next ==
  \/ \E w \in Workers : GetSome(w) \/ Proceed(w)
  \/ \E w \in Workers, r \in Manual, n \in Nodes : Acquire(w, r, n)
  \/ \E w \in Workers, r \in Requests : Release(w, r)
  \/ \E id \in Nodes \cup Strangers, healthy \in BOOLEAN : SetHealthy(id, healthy)

Spec == Init /\ [][Next]_vars

(* No operation of get, acquire or release waits for another thread. *)
FairSpec == Spec /\ \A w \in Workers : WF_vars(Proceed(w))

(* Threads that only call get, on a ring whose health does not change.     *)
AdmitInit == \E marked \in SUBSET (Nodes \cup Strangers) : InitWith(marked)

AdmitNext == \E w \in Workers : GetSome(w) \/ Proceed(w)

AdmitSpec == AdmitInit /\ [][AdmitNext]_vars

-----------------------------------------------------------------------------
TypeOK ==
  /\ load \in [Nodes -> 0 .. LoadRange - 1]
  /\ total \in 0 .. LoadRange - 1
  /\ up \subseteq Nodes \cup Strangers
  /\ held \in [Requests -> Nodes \cup {None}]
  /\ pc \in [Workers -> {"idle", "probing", "scanning", "adding", "counting",
                         "acquiring", "dropping"}]
  /\ job \in [Workers -> Requests \cup {None}]
  /\ start \in [Workers -> 0 .. Len(Points) - 1]
  /\ at \in [Workers -> Nat]
  /\ cap \in [Workers -> Nat]
  /\ pick \in [Workers -> Nodes \cup {None}]
  /\ low \in [Workers -> 0 .. LoadRange - 1]

(* The requests in the load of n: those that hold n, and those of a call   *)
(* that has raised the load and not the total yet.                         *)
CountedOn(n) ==
  {r \in Requests :
     \/ held[r] = n
     \/ \E w \in Workers : /\ job[w] = r
                           /\ pc[w] \in {"counting", "acquiring"}
                           /\ pick[w] = n}

(* The requests in the total: those that hold a node, and those of a       *)
(* release that has lowered the load and not the total yet.                *)
CountedInTotal ==
  {r \in Requests :
     \/ held[r] # None
     \/ \E w \in Workers : job[w] = r /\ pc[w] = "dropping"}

(* The counters are exact: between the two additions or subtractions of a  *)
(* call they are off by that call and no other, so no interleaving loses   *)
(* or doubles a request, no release wraps a counter below zero, and all    *)
(* loads are 0 when nothing is in flight (bounded.rs 59-71).               *)
Accounting ==
  /\ \A n \in Nodes : load[n] = Cardinality(CountedOn(n))
  /\ total = Cardinality(CountedInTotal)

(* The node get has settled for is still healthy when it is counted and    *)
(* returned, however long the thread was interrupted, because set_healthy  *)
(* waits for the guard (bounded.rs 140, 154-168, 227-232).                 *)
PickIsUp ==
  \A w \in Workers :
    pc[w] \in {"adding", "counting"} => pick[w] \in up \cap Nodes

(* get fails only if no node of the ring is healthy: whatever other        *)
(* threads do to the loads while it scans, the fallback finds a node       *)
(* (bounded.rs 208-225).                                                   *)
FailsOnlyWhenAllDown ==
  \A w \in Workers :
    pc[w] = "scanning" /\ at[w] = NumNodes /\ pick[w] = None
      => up \cap Nodes = {}

(* Every call returns: neither the probes nor the fallback go round        *)
(* forever, and no thread waits for another (bounded.rs 149-168).          *)
CallsReturn == \A w \in Workers : pc[w] # "idle" ~> pc[w] = "idle"

(* max_load_factor times the mean over the healthy nodes, rounded up.      *)
BoundOn(sum) ==
  LET healthy == FactorDen * Cardinality(up \cap Nodes)
  IN  (FactorNum * sum + healthy - 1) \div healthy

(* README: never more than max_load_factor times the mean load.  Rounded   *)
(* up, and only asked of a ring at rest on which nothing was released.     *)
CapIsRespected ==
  (\A w \in Workers : pc[w] = "idle")
  => \A n \in Nodes : load[n] > 0 => load[n] <= BoundOn(total)

(* Threads that call get at the same time can take a node over the bound,  *)
(* as each checks the load before the others have raised it, but never by  *)
(* more than one request for every other thread (bounded.rs 141-162).      *)
OvershootIsBounded ==
  \A n \in Nodes :
    load[n] > 0 => load[n] <= BoundOn(MapThenSumSet(LAMBDA m : load[m], Nodes))
                              + Cardinality(Workers) - 1

-----------------------------------------------------------------------------
(* The request counts from the addition to the load of its node on. *)
Counted ==
  [r \in Requests |->
     IF \E w \in Workers : job[w] = r /\ pc[w] \in {"counting", "acquiring"}
     THEN pick[CHOOSE w \in Workers : job[w] = r]
     ELSE held[r]]

Abstract == INSTANCE Admission WITH counted <- Counted

(* BoundedRing implements Admission: each request is counted once, at one  *)
(* instant, and one that get places on a node healthy at that instant.     *)
ImplementsAdmission == Abstract!Spec
=============================================================================
