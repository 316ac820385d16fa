---------------------------- MODULE HealthAwareRing ----------------------------
(***************************************************************************)
(* HealthAwareRing (shardring/src/health.rs): a ring, a map of node health *)
(* and a node list, each behind a fair async lock, used by callers of its  *)
(* methods and by the health checks.  A step runs from one await to the    *)
(* next, except that get_healthy looks at one point per step.  A guard is  *)
(* kept until the method returns.                                          *)
(*                                                                         *)
(* Dropping the future of a call, as a timeout around it does, is Cancel:  *)
(* the guards and the place in every line go, what the call has written    *)
(* stays.                                                                  *)
(*                                                                         *)
(* add_node, remove_node and update_weight hold the write guard of the     *)
(* node list while rebuild_ring asks for its read guard.  They never get   *)
(* past that await (RebuildNeverRuns), so nothing behind it is modelled    *)
(* and the ring is a constant.  `watch::Sender` is modelled by what the    *)
(* health checks do with it: `send_replace` waits for the guard that       *)
(* `borrow` returned, which the same statement still holds, so the thread  *)
(* is blocked for good after one round.  Loops and checks run on the       *)
(* worker threads that are left.                                           *)
(*                                                                         *)
(* Weights matter to the ring only, and are left out; what health_status,  *)
(* all_health and stats read is theirs while they keep their guards, and   *)
(* only the guards are modelled.                                           *)
(***************************************************************************)
EXTENDS RingLookup, FairRwLock, FiniteSets

CONSTANTS
  Callers,              \* tasks that call get, get_healthy, add_node, ...
  Loops,                \* the tasks that start_health_checks spawns
  Ids,                  \* node ids
  UpdateIds,            \* bound: those that are added, removed, updated
  RingIds,              \* the nodes of the ring, a sequence of ids
  Points,               \* its points
  ThreadCounts,         \* the numbers of worker threads of the runtime
  MaxNodes,             \* bound: the node list gets no longer than this
  MaxChecks,            \* bound: no more checks are under way at once
  HealthyThreshold,
  UnhealthyThreshold,
  None

ASSUME RingAssumption ==
  /\ RingIds \in Seq(Ids)
  /\ ValidPoints(Points, Len(RingIds))

ASSUME HealthConfigAssumption ==
  /\ HealthyThreshold \in Nat
  /\ UnhealthyThreshold \in Nat
  /\ ThreadCounts \subseteq Nat
  /\ MaxNodes \in Nat /\ Len(RingIds) <= MaxNodes
  /\ MaxChecks \in Nat

ASSUME TasksAssumption ==
  /\ Callers \cap Loops = {}
  /\ None \notin Ids
  /\ UpdateIds \subseteq Ids
  /\ \A t \in Callers \cup Loops : t \notin Loops \X (1 .. MaxNodes)

VARIABLES
  nodes,                \* ids of the node list, in order
  health,               \* health[id]: the NodeHealth, or None
  line,                 \* the lines of the locks "ring", "health", "nodes"
  pc,                   \* where each caller and each loop is
  arg,                  \* the id a call was made with
  start, at,            \* get_healthy: the first point, and the probe
  probes,               \* the tasks of a round that have not ended
  threads               \* worker threads of the runtime, a constant

vars == <<nodes, health, line, pc, arg, start, at, probes, threads>>

-----------------------------------------------------------------------------
Fresh == [status |-> "Unknown", successes |-> 0, failures |-> 0]

(* Lines 276 to 282. *)
Succeeded(h) ==
  [status |-> IF h.successes + 1 >= HealthyThreshold THEN "Healthy" ELSE h.status,
   successes |-> h.successes + 1,
   failures |-> 0]

(* Faulty: a failure does not break a series of successes. *)
FailedKeepsSeries(h) ==
  [status |-> IF h.failures + 1 >= UnhealthyThreshold THEN "Unhealthy" ELSE h.status,
   successes |-> h.successes,
   failures |-> h.failures + 1]

(* Lines 285 to 301: an error, or the timeout. *)
Failed(h) ==
  [status |-> IF h.failures + 1 >= UnhealthyThreshold THEN "Unhealthy" ELSE h.status,
   successes |-> 0,
   failures |-> h.failures + 1]

Initial(id) == IF \E k \in DOMAIN RingIds : RingIds[k] = id THEN Fresh ELSE None

Init ==
  /\ nodes = RingIds
  /\ health = [id \in Ids |-> Initial(id)]
  /\ line = [lock \in {"ring", "health", "nodes"} |-> Nobody]
  /\ pc = [t \in Callers \cup Loops |-> "idle"]
  /\ arg = [c \in Callers |-> None]
  /\ start = [c \in Callers |-> 0]
  /\ at = [c \in Callers |-> 0]
  /\ probes = {}
  /\ threads \in ThreadCounts

Goto(t, label) == pc' = [pc EXCEPT ![t] = label]

Ask(lock, t, mode) == line' = [line EXCEPT ![lock] = Join(@, t, mode)]

Has(t, lock, mode) == Granted(line[lock], t, mode)

(* Faulty: a place in the line of the node list is not given up. *)
LeaveAllButNodes(c) ==
  line' = [lock \in DOMAIN line |->
             IF lock = "nodes" THEN line[lock] ELSE Leave(line[lock], c)]

(* The end of a call: its guards are dropped. *)
LeaveAll(c) == line' = [lock \in DOMAIN line |-> Leave(line[lock], c)]

Finish(c) ==
  /\ Goto(c, "idle")
  /\ LeaveAll(c)
  /\ arg' = [arg EXCEPT ![c] = None]
  /\ start' = [start EXCEPT ![c] = 0]
  /\ at' = [at EXCEPT ![c] = 0]

-----------------------------------------------------------------------------
(* get: the ring's read guard, then CompactRing::get. *)
Get(c) ==
  /\ pc[c] = "idle"
  /\ Goto(c, "getting")
  /\ Ask("ring", c, "read")
  /\ UNCHANGED <<nodes, health, arg, start, at, probes, threads>>

GetReturn(c) ==
  /\ pc[c] = "getting" /\ Has(c, "ring", "read")
  /\ Finish(c)
  /\ UNCHANGED <<nodes, health, probes, threads>>

(* get_healthy: the ring's read guard, then that of the health map. *)
GetHealthy(c, h) ==
  /\ pc[c] = "idle"
  /\ Goto(c, "entering")
  /\ Ask("ring", c, "read")
  /\ start' = [start EXCEPT ![c] = StartIndex(Points, h)]
  /\ UNCHANGED <<nodes, health, arg, at, probes, threads>>

EnterHealth(c) ==
  /\ pc[c] = "entering" /\ Has(c, "ring", "read")
  /\ Goto(c, "searching")
  /\ Ask("health", c, "read")
  /\ UNCHANGED <<nodes, health, arg, start, at, probes, threads>>

Searching(c) == pc[c] = "searching" /\ Has(c, "health", "read")

(* The node of the k-th point the search of c looks at. *)
Candidate(c, k) ==
  RingIds[PointAt(Points, (start[c] + k) % Len(Points)).node + 1]

(* Faulty: any node that is not known to be down will do. *)
IsNotUnhealthy(id) == health[id] # None /\ health[id].status # "Unhealthy"

IsHealthy(id) == health[id] # None /\ health[id].status = "Healthy"

SearchHit(c) ==
  /\ Searching(c) /\ at[c] < Len(Points)
  /\ IsHealthy(Candidate(c, at[c]))
  /\ Goto(c, "found")
  /\ UNCHANGED <<nodes, health, line, arg, start, at, probes, threads>>

SearchNext(c) ==
  /\ Searching(c) /\ at[c] < Len(Points)
  /\ ~IsHealthy(Candidate(c, at[c]))
  /\ at' = [at EXCEPT ![c] = @ + 1]
  /\ UNCHANGED <<nodes, health, line, pc, arg, start, probes, threads>>

SearchFail(c) ==
  /\ Searching(c) /\ at[c] = Len(Points)
  /\ Goto(c, "failed")
  /\ UNCHANGED <<nodes, health, line, arg, start, at, probes, threads>>

GetHealthyReturn(c) ==
  /\ pc[c] \in {"found", "failed"}
  /\ Finish(c)
  /\ UNCHANGED <<nodes, health, probes, threads>>

-----------------------------------------------------------------------------
(* health_status and all_health: the read guard of the health map.         *)
HealthStatus(c) ==
  /\ pc[c] = "idle"
  /\ Goto(c, "reading")
  /\ Ask("health", c, "read")
  /\ UNCHANGED <<nodes, health, arg, start, at, probes, threads>>

(* stats: the ring's read guard, then that of the health map. *)
Stats(c) ==
  /\ pc[c] = "idle"
  /\ Goto(c, "tallying")
  /\ Ask("ring", c, "read")
  /\ UNCHANGED <<nodes, health, arg, start, at, probes, threads>>

StatsHealth(c) ==
  /\ pc[c] = "tallying" /\ Has(c, "ring", "read")
  /\ Goto(c, "counting")
  /\ Ask("health", c, "read")
  /\ UNCHANGED <<nodes, health, arg, start, at, probes, threads>>

ReadReturn(c) ==
  /\ pc[c] \in {"reading", "counting"} /\ Has(c, "health", "read")
  /\ Finish(c)
  /\ UNCHANGED <<nodes, health, probes, threads>>

-----------------------------------------------------------------------------
(* add_node, remove_node and update_weight begin with the write guard of   *)
(* the node list.                                                          *)
Update(c, id, label) ==
  /\ pc[c] = "idle"
  /\ Goto(c, label)
  /\ arg' = [arg EXCEPT ![c] = id]
  /\ Ask("nodes", c, "write")
  /\ UNCHANGED <<nodes, health, start, at, probes, threads>>

Adding == {c \in Callers : pc[c] = "adding"}

AddNode(c, id) ==
  /\ Len(nodes) + Cardinality(Adding) < MaxNodes      \* bound
  /\ Update(c, id, "adding")

RemoveNode(c, id) == Update(c, id, "removing")

UpdateWeight(c, id) == Update(c, id, "weighing")

(* Faulty: the ring is locked as well, before the health map. *)
PushAndLockRing(c) ==
  /\ pc[c] = "adding" /\ Has(c, "nodes", "write")
  /\ nodes' = Append(nodes, arg[c])
  /\ Goto(c, "inserting")
  /\ line' = [line EXCEPT !["ring"] = Join(@, c, "write"),
                          !["health"] = Join(@, c, "write")]
  /\ UNCHANGED <<health, arg, start, at, probes, threads>>

(* `nodes.push`, which accepts an id that is already there. *)
Push(c) ==
  /\ pc[c] = "adding" /\ Has(c, "nodes", "write")
  /\ nodes' = Append(nodes, arg[c])
  /\ Goto(c, "inserting")
  /\ Ask("health", c, "write")
  /\ UNCHANGED <<health, arg, start, at, probes, threads>>

(* The place of k in the order of a set of places. *)
Rank(places, k) == Cardinality({j \in places : j <= k})

(* `nodes.retain(|n| n.id != node_id)`: what is kept keeps its order. *)
Without(s, x) ==
  LET kept == {k \in DOMAIN s : s[k] # x}
  IN  [i \in 1 .. Cardinality(kept) |-> s[CHOOSE k \in kept : Rank(kept, k) = i]]

Retain(c) ==
  /\ pc[c] = "removing" /\ Has(c, "nodes", "write")
  /\ nodes' = Without(nodes, arg[c])
  /\ Goto(c, "erasing")
  /\ Ask("health", c, "write")
  /\ UNCHANGED <<health, arg, start, at, probes, threads>>

(* Faulty: the guard of the node list is dropped before rebuild_ring. *)
InsertAndUnlock(c) ==
  /\ pc[c] = "inserting" /\ Has(c, "health", "write")
  /\ health' = [health EXCEPT ![arg[c]] = Fresh]
  /\ Goto(c, "rebuilding")
  /\ line' = [line EXCEPT !["nodes"] = Join(Leave(@, c), c, "read")]
  /\ UNCHANGED <<nodes, arg, start, at, probes, threads>>

(* `health.insert`, then rebuild_ring asks for the node list. *)
Insert(c) ==
  /\ pc[c] = "inserting" /\ Has(c, "health", "write")
  /\ health' = [health EXCEPT ![arg[c]] = Fresh]
  /\ Goto(c, "rebuilding")
  /\ Ask("nodes", c, "read")
  /\ UNCHANGED <<nodes, arg, start, at, probes, threads>>

(* `health.remove`, then rebuild_ring asks for the node list. *)
Erase(c) ==
  /\ pc[c] = "erasing" /\ Has(c, "health", "write")
  /\ health' = [health EXCEPT ![arg[c]] = None]
  /\ Goto(c, "rebuilding")
  /\ Ask("nodes", c, "read")
  /\ UNCHANGED <<nodes, arg, start, at, probes, threads>>

Listed(id) == \E k \in DOMAIN nodes : nodes[k] = id

(* The weight is set, then rebuild_ring asks for the node list. *)
Reweigh(c) ==
  /\ pc[c] = "weighing" /\ Has(c, "nodes", "write")
  /\ Listed(arg[c])
  /\ Goto(c, "rebuilding")
  /\ Ask("nodes", c, "read")
  /\ UNCHANGED <<nodes, health, arg, start, at, probes, threads>>

(* update_weight of an unknown id is an error. *)
NodeNotFound(c) ==
  /\ pc[c] = "weighing" /\ Has(c, "nodes", "write")
  /\ ~Listed(arg[c])
  /\ Finish(c)
  /\ UNCHANGED <<nodes, health, probes, threads>>

(* The future of a call is dropped at an await. *)
Cancel(c) ==
  /\ pc[c] \in {"getting", "entering", "searching", "reading", "tallying",
                "counting", "adding", "removing", "weighing", "inserting",
                "erasing", "rebuilding"}
  /\ ~Searching(c)
  /\ Finish(c)
  /\ UNCHANGED <<nodes, health, probes, threads>>

-----------------------------------------------------------------------------
Blocked == {l \in Loops : pc[l] = "blocked"}

(* A worker thread is left to run spawned tasks. *)
Running == Cardinality(Blocked) < threads

(* start_health_checks spawns a loop, whose first tick is immediate. *)
StartHealthChecks(l) ==
  /\ Running
  /\ pc[l] = "idle"
  /\ Goto(l, "ticking")
  /\ Ask("nodes", l, "read")
  /\ UNCHANGED <<nodes, health, arg, start, at, probes, threads>>

(* The places in the node list. *)
Places == {k \in 1 .. MaxNodes : k \in DOMAIN nodes}

Task(probe) == <<probe.loop, probe.place>>

(* Faulty: the statement after a round does not block, so another follows. *)
RoundAgain(l) ==
  /\ Running
  /\ pc[l] = "ticking" /\ Has(l, "nodes", "read")
  /\ Cardinality(probes) + Len(nodes) <= MaxChecks      \* bound
  /\ probes' = probes \cup
       {[loop |-> l, place |-> k, id |-> nodes[k], result |-> "pending"] :
          k \in Places}
  /\ Goto(l, "idle")
  /\ line' = [line EXCEPT !["nodes"] = Leave(@, l)]
  /\ UNCHANGED <<nodes, health, arg, start, at, threads>>

(* One round: the node list is copied under its guard, a task is spawned   *)
(* for each of its nodes, and then send_replace blocks the thread.         *)
Round(l) ==
  /\ Running
  /\ pc[l] = "ticking" /\ Has(l, "nodes", "read")
  /\ Cardinality(probes) + Len(nodes) <= MaxChecks      \* bound
  /\ probes' = probes \cup
       {[loop |-> l, place |-> k, id |-> nodes[k], result |-> "pending"] :
          k \in Places}
  /\ Goto(l, "blocked")
  /\ line' = [line EXCEPT !["nodes"] = Leave(@, l)]
  /\ UNCHANGED <<nodes, health, arg, start, at, threads>>

(* The checker answers or the timeout ends it; then health.write.          *)
Answer(probe, result) ==
  /\ Running
  /\ probe.result = "pending"
  /\ probes' = (probes \ {probe}) \cup {[probe EXCEPT !.result = result]}
  /\ Ask("health", Task(probe), "write")
  /\ UNCHANGED <<nodes, health, pc, arg, start, at, threads>>

Outcome(probe, h) == IF probe.result = "ok" THEN Succeeded(h) ELSE Failed(h)

(* Faulty: the entry of the node is created if it is missing. *)
RecordOrInsert(probe) ==
  /\ Running
  /\ probe.result # "pending" /\ Has(Task(probe), "health", "write")
  /\ health' = [health EXCEPT ![probe.id] =
                  Outcome(probe, IF @ = None THEN Fresh ELSE @)]
  /\ probes' = probes \ {probe}
  /\ line' = [line EXCEPT !["health"] = Leave(@, Task(probe))]
  /\ UNCHANGED <<nodes, pc, arg, start, at, threads>>

(* The result counts if the node is still in the map, and the task ends.   *)
Record(probe) ==
  /\ Running
  /\ probe.result # "pending" /\ Has(Task(probe), "health", "write")
  /\ health' = [health EXCEPT ![probe.id] =
                  IF @ = None THEN None ELSE Outcome(probe, @)]
  /\ probes' = probes \ {probe}
  /\ line' = [line EXCEPT !["health"] = Leave(@, Task(probe))]
  /\ UNCHANGED <<nodes, pc, arg, start, at, threads>>

-----------------------------------------------------------------------------
Call(c) ==
  \/ Get(c) \/ HealthStatus(c) \/ Stats(c)
  \/ \E h \in Hashes : GetHealthy(c, h)
  \/ \E id \in UpdateIds : AddNode(c, id) \/ RemoveNode(c, id) \/ UpdateWeight(c, id)

(* What a call does after it was made. *)
Proceed(c) ==
  \/ GetReturn(c) \/ StatsHealth(c) \/ ReadReturn(c) \/ EnterHealth(c)
  \/ SearchHit(c) \/ SearchNext(c) \/ SearchFail(c) \/ GetHealthyReturn(c)
  \/ Push(c) \/ Insert(c) \/ Retain(c) \/ Erase(c) \/ Reweigh(c) \/ NodeNotFound(c)

Recording == \E probe \in probes : Record(probe)

Next ==
  \/ \E c \in Callers : Call(c) \/ Proceed(c) \/ Cancel(c)
  \/ \E l \in Loops : StartHealthChecks(l) \/ Round(l)
  \/ \E probe \in probes, result \in {"ok", "failed"} : Answer(probe, result)
  \/ Recording

Spec == Init /\ [][Next]_vars

-----------------------------------------------------------------------------
Healthy(id) == health[id] # None /\ health[id].status = "Healthy"

(* get_healthy returns the first healthy node clockwise from the key, and  *)
(* fails only if no node of the ring is healthy.  This is so at the moment *)
(* it returns, whatever was checked, added or removed while it waited and  *)
(* searched, because it keeps the read guard (health.rs 143-171).          *)
PickIsFirstHealthy ==
  \A c \in Callers :
    /\ pc[c] = "found" => Healthy(Candidate(c, at[c]))
    /\ pc[c] = "failed" => at[c] = Len(Points)
    /\ pc[c] \in {"searching", "found", "failed"} =>
         \A k \in 0 .. at[c] - 1 : ~Healthy(Candidate(c, k))

(* A status is never at odds with the series of results it is drawn from:  *)
(* a node that failed unhealthy_threshold times in a row is not Healthy,   *)
(* one that succeeded healthy_threshold times in a row is not Unhealthy,   *)
(* and only one of the two series runs (health.rs 273-303).                *)
StatusFollowsSeries ==
  \A id \in Ids : health[id] # None =>
    LET h == health[id]
    IN  /\ h.successes = 0 \/ h.failures = 0
        /\ h.successes > 0 /\ h.successes >= HealthyThreshold => h.status = "Healthy"
        /\ h.failures > 0 /\ h.failures >= UnhealthyThreshold => h.status = "Unhealthy"

(* No call of rebuild_ring is ever given the node list it waits for: its   *)
(* own caller keeps the write guard.  So no update of the nodes reaches    *)
(* the ring (health.rs 174-223).                                           *)
RebuildNeverRuns ==
  \A c \in Callers : pc[c] = "rebuilding" => ~Has(c, "nodes", "read")

(* A dropped or finished call, and a finished check, holds no lock and     *)
(* waits in no line; and a task that is in the line of a lock is at a      *)
(* place in the code where it asked for it.                                *)
LinesAreLive ==
  LET callers(labels) == {c \in Callers : pc[c] \in labels}
      checks == {Task(probe) : probe \in {p \in probes : p.result # "pending"}}
  IN  /\ InLine(line["ring"]) = callers({"getting", "entering", "searching",
                                   "found", "failed", "tallying", "counting"})
      /\ InLine(line["health"]) \subseteq checks \cup
           callers({"searching", "found", "failed", "reading", "counting",
                    "inserting", "erasing", "rebuilding"})
      /\ InLine(line["nodes"]) = {l \in Loops : pc[l] = "ticking"} \cup
           callers({"adding", "removing", "weighing",
                    "inserting", "erasing", "rebuilding"})

(* A check that ends after its node was removed does not bring the node    *)
(* back: only add_node puts an id into the health map (health.rs 269-270). *)
OnlyAddNodeInserts ==
  [][\A id \in Ids : health[id] = None /\ health'[id] # None
       => \E c \in Callers : pc[c] = "inserting" /\ arg[c] = id]_vars

WaitsForLock(t) ==
  \E lock \in DOMAIN line, mode \in {"read", "write"} :
    Request(t, mode) \in DOMAIN line[lock] /\ ~Has(t, lock, mode)

Stuck(t) == t \in Callers /\ pc[t] = "rebuilding"

(* A loop or a check was given every lock it asked for, but no worker      *)
(* thread is left to run it.                                               *)
Starved(t) == t \notin Callers /\ ~WaitsForLock(t) /\ ~Running

CanGoOn(t) == ~WaitsForLock(t) /\ ~Starved(t)

(* No two tasks wait for each other.  Only two kinds of task can hold a    *)
(* lock for good: an update stuck in rebuild_ring, and a loop or a check   *)
(* that was given its lock when rounds had blocked the last worker thread. *)
(* Whoever else is served first by the health map can go on; whoever else  *)
(* is served first by the node list, and whoever is by the ring, can go on *)
(* or is in the line of the health map.  get never waits for a lock        *)
(* (health.rs 136-223, 255-269, 308).                                      *)
OnlyUpdatesAndRoundsBlock ==
  /\ \A first \in First(line["health"]) :
       CanGoOn(first.task) \/ Stuck(first.task) \/ Starved(first.task)
  /\ \A first \in First(line["nodes"]) :
       \/ CanGoOn(first.task) \/ Stuck(first.task) \/ Starved(first.task)
       \/ first.task \in InLine(line["health"])
  /\ \A first \in First(line["ring"]) :
       CanGoOn(first.task) \/ first.task \in InLine(line["health"])
  /\ \A c \in Callers : pc[c] = "getting" => ~WaitsForLock(c)

(* How many entries of a node list have an id: new and add_node accept one *)
(* that is there already.                                                  *)
Copies(s, id) == Cardinality({k \in DOMAIN s : s[k] = id})

(* A loop of health checks gives each entry of the node list one result    *)
(* and is then blocked.  A node no update touches is therefore Healthy     *)
(* only after as many loops were started as healthy_threshold asks for, if *)
(* it is listed once: with the default of two, one call of                 *)
(* start_health_checks makes no such node Healthy, ever, and get_healthy   *)
(* keeps failing (health.rs 24-31, 254-309).                               *)
HealthyNeedsLoops ==
  \A id \in Ids \ UpdateIds : Healthy(id) =>
    Cardinality(Blocked) * Copies(RingIds, id) >= HealthyThreshold

=============================================================================
