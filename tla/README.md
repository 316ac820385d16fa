# shardring in TLA+

Specifications of the `shardring` crate (`src/shardring`): consistent-hash
rings with bounded loads, health checks, live migration, Maglev tables, jump
hash, and what the crate says about its own rings.
Every module is translated from the Rust source; paths below are relative to
`src/shardring/src/`. `PROJECT.json` maps each definition to the lines it
stands for.

    tlc -config CompactRing.cfg MCCompactRing.tla     # one of the runs below
    tlapm BoundedRingProofs.tla                       # the proofs of a module

## 1. The system

| Component | State | Operations | Concurrency |
|---|---|---|---|
| `CompactRing` (`ring.rs`) | sorted points (hash, node index), node list; immutable | `new`, `get`, `get_with_hash`, `get_n`, `to_bytes`, `from_bytes` | none; but many processes build "the same" ring |
| `BoundedRing` (`bounded.rs`) | a `CompactRing`, one atomic load per node, one atomic total, a health map behind a `std` `RwLock` | `get`, `get_n`, `acquire`, `release`, `set_healthy` | shared by threads; check and increment are separate |
| `HealthAwareRing` (`health.rs`) | ring, health map, node list, each behind a fair `tokio` `RwLock`; a `watch` channel | `get`, `get_healthy`, `add_node`, `remove_node`, `update_weight`, `health_status`, `all_health`, `stats`, `start_health_checks` | async tasks; futures may be dropped at any await |
| `DualRing` (`migration.rs`) | two rings, a configuration, counters behind a lock | `new`, `get`, `get_with_datacenter`, `get_shadow`, `update_config`, `set_rollout`, `reset_metrics` | calls share `&self`; reconfiguration needs `&mut self` |
| `MaglevTable` (`maglev.rs`) | a table of virtual nodes; immutable once built | `new`, `get`, `get_n`, `load_distribution` | none |
| `JumpHash` (`jump.rs`) | none | `hash`, `hash_u64` | none; but answers for different counts must agree |
| `AtomicMetrics` (`lib.rs`) | nine relaxed atomics | `record_*`, `avg_get_latency_ns`, `avg_healthy_get_latency_ns` | shared by threads; sum and count are separate |
| planning (`adaptive.rs`, `stats` in `ring.rs`, `generate_migration_plan` in `migration.rs`) | none | `analyze_ring_efficiency`, `recommend_ring_config`, `generate_migration_plan` | none; an operator follows the advice |
| builders, hash functions | – | – | see section 7 |

`BoundedRing` and `HealthAwareRing` read the points and nodes of a
`CompactRing` and repeat its binary search; `DualRing` calls `get` on one of
its two rings; a snapshot (`to_bytes`) travels from one process to another.

What makes each component correct:

- **CompactRing**: every node has a point and every point a node; a lookup
  finds the next point clockwise; processes with the same nodes agree; a change
  of the node set moves little; a damaged snapshot is refused; `get_n` ends and
  gives a preference list.
- **BoundedRing**: the counters are exact under any interleaving; what `get`
  returns is healthy; `get` fails only if nothing is healthy; loads respect the
  cap as far as the code can make them; `get_n` returns enough distinct nodes;
  what is counted and never released, or released and never counted, is known.
- **HealthAwareRing**: no deadlock; a search sees one health map; a status
  follows the results; a late result does not revive a removed node; a dropped
  future leaves no lock behind.
- **DualRing**: traffic moves in one direction while a rollout grows; the ends
  of a rollout are exact; a key does not flip.
- **MaglevTable**: building ends; shares are balanced and follow the weights;
  every slot is owned.
- **JumpHash**: the bucket exists; another number of buckets moves only the keys
  it must; the loop ends.
- **AtomicMetrics**: an average is one that the calls so far can explain.
- **Planning**: a plan accounts for the keys it says will move; following a
  report improves what it complains about. (It does not: see `findings`.)

The hard behaviours (interleavings, lock cycles, cancellation, collisions,
boundaries) are listed line by line under `hazards` in `PROJECT.json`, each
with the properties that would catch it.

## 2. Modules

| Module | Models | Extends / uses |
|---|---|---|
| `RingLookup` | points, sort order, binary search, `StartIndex`, owner; the clockwise reference `StartsAtSuccessor`; what a lookup takes for granted (`ValidPoints`) | – |
| `RingLookupProofs` | proofs about it, and the lemmas the proofs about rings share: least elements, sums over finite sets, quotients | `RingLookup` |
| `CompactRing` | `new` in several processes, snapshots, agreement | `RingLookup` |
| `RingPlanning`, `MCCompactRing` | statistics, reports, recommendations and migration plans, and an operator who follows them | `CompactRing` |
| `CompactRingProofs` | which rings processes hold, and all properties of one ring and of two | `RingPlanning`, `RingLookupProofs` |
| `RingWalk`, `MCRingWalk` | the loop of `get_n`, a point per step | `RingLookup` |
| `RingWalkProofs` | its inductive invariant | `RingWalk`, `RingLookupProofs` |
| `Admission` | abstract: what `BoundedRing` promises | – |
| `BoundedRing`, `MCBoundedRing` | `get`, `acquire`, `release`, `set_healthy`, an atomic operation per step | `RingLookup`, refines `Admission` |
| `BoundedGetN`, `MCBoundedGetN` | `get_n` as a loop of calls of `get`, the disabled ring, callers that release what they were given | `BoundedRing` |
| `BoundedReadme`, `MCBoundedReadme` | a client that follows the READMEs | `BoundedRing` |
| `BoundedRingProofs` | inductive invariants of `get` and of `get_n`, refinement, bounds on the loads | `BoundedGetN`, `RingLookupProofs` |
| `FairRwLock` | `tokio::sync::RwLock` (external) | – |
| `HealthAwareRing`, `MCHealthAwareRing` | calls, updates, checks, cancellation | `RingLookup`, `FairRwLock` |
| `HealthAwareRingProofs` | invariants of the lines and of the searches, that no two tasks wait for each other, and the results a node can have been given | `HealthAwareRing` |
| `MaglevTable`, `MCMaglevTable` | filling the table, lookups, shares | – |
| `MaglevTableProofs` | its inductive invariant, permutations of prime sizes, shares | `MaglevTable` |
| `DualRing`, `MCDualRing` | rollout decisions, reconfiguration, counters | – |
| `JumpHash`, `JumpHashProofs` | calls of jump hash, a round of the loop per step; its inductive invariant | – |
| `AtomicMetrics`, `MCAtomicMetrics` | recording threads and a reader | – |
| `MetricsProofs` | the two components that count what they serve: inductive invariants of the rollout and of the averages | `DualRing`, `AtomicMetrics`, `RingLookupProofs` |

Definitions commented "Faulty" are plausible bugs of the definition that
follows them. Nothing uses them; substituted for that definition they make the
property named in `PROJECT.json` (`mutants`) fail.

### How state and actions correspond to the code

**RingLookup.** A point is `CompactPointV2`. `StartIndex` is
`binary_search_by_key` followed by `Ok(i) => i, Err(i) => i % len`. Rust leaves
open which of several equal elements an exact match returns; the crate uses
`usize::is_multiple_of`, so it needs a compiler whose search is the branchless
one, which ends on the last of them. `LastMatch` says so; with an older
toolchain it would be another index.

**CompactRing.** `hashOf` is an arbitrary function from seeds `{id}-{i}` to a
small range of hashes, so all collisions occur. `ring[p]` is the result of the
last `new` or `from_bytes` of process `p`. The points per node are computed as
in lines 88-108, in exact arithmetic. `SortPoints` puts each point at the
number of points before it (`Before`), which is what a sort by a total order
does; it says so instead of calling the library's `SortSeq`, whose definition
the provers cannot open. A snapshot is a sequence of fields, one
per `take` of `ByteReader`, of which the reader gets all but the last few.

**RingPlanning.** `Issues(p)` is the report on the ring of process `p`; `Tune`
is an operator who rebuilds that ring with the configuration recommended for
the suggested target. Comparisons of real numbers are squared into comparisons
of integers; the collision probability grows with the number of pairs of points
and is compared as such. `HashCount`, `HashDelta` and `KeysMoved` are the plan
between the rings of two processes that have the same node list. The sampled
keys of `estimate_keys_moved` are all hashes.

**RingWalk.** `Call` is lines 169-182 of `get_n`, `Collect` and `Skip` the two
ways through the loop body, `Return` its exit.

**BoundedRing.** A worker is a thread; `pc` says which atomic operation is
next. `Get` takes the read guard and reads the total (the guard fixes `up`, so
one step loses nothing); `ProbeAccept`/`ProbeNext` read one load; `FallBack` and
`Scan*` are `find_least_loaded`; `AddLoad`, `AddTotal` are the two additions of
`LoadTracker::acquire`; `Release`, `DropTotal` the two subtractions. `held[r]`
is the node a request has been given. `Relaxed` operations on one variable are
coherent and no decision depends on the order of two variables beyond program
order as the steps have it; reorderings across the two counters are not
explored. `f64` products are exact rationals.

**BoundedGetN.** `call[w]` is the call of `get_n` worker `w` is in: its phase,
the result so far, and `always`, the nodes that were up throughout it (history).
The steps of `get` inside the loop are those of `BoundedRing`; each counts a
request, for which the model takes a token of `Routed`. `untold` are the
requests that stay counted and that no caller knows of. `owed[n]` are callers
that were given node `n` without a request having been counted (the tail of
`get_n`, a disabled ring); `ReleaseOwed` is such a caller that releases the node
as the README says, and `stolen[n]` counts it. Every read of the health map in
the tail takes and drops the lock, and is a step.

**HealthAwareRing.** A lock is the line of its requests (`FairRwLock`), served
in order, readers together; a task that queues behind itself waits forever. A
step runs from one await to the next. `Cancel` drops the future of a call at an
await. `rebuild_ring` never gets past line 215 (`RebuildNeverRuns`), so the ring
is a constant. After its first round a health-check loop blocks its thread
(line 308): label `"blocked"`. Loops and checks go on while worker threads are
left (`Running`); callers may be run by other threads, such as the one inside
`block_on`, so they do not depend on that. The number of worker threads,
`threads`, is any of `ThreadCounts` and never changes: a variable, so that one
run has several. Reports hold their guards, and nothing else of them
is modelled. A node that is listed twice is checked twice in a round.
`Without` is the `retain` of `remove_node`: each place kept is put at its rank
among those kept. It says so instead of calling the library's `SelectSeq`, whose
definition the provers cannot open; `MCHealthAwareRing` compares the two.

**MaglevTable.** `turn` is the `for` loop, `next[v]` is `next_idx`, a step
visits one slot. `perm[v]` is any offset and skip the two hashes may give.
`Panic` is the remainder by 0 or by `size - 1 = 0`.

**DualRing.** A call is one step: rings and configuration change only through
`&mut self`. A ratio is an integer out of `Full`; `Full` itself occurs, because
`u64::MAX as f64` and the greatest hashes round to the same number. `NaN` is a
value that compares with nothing. `moved` (the requests
served by the new ring since the configuration last went back) is a history
variable.

**JumpHash.** The initial state picks the numbers `(key >> 33) + 1` the
generator draws for the key; a call reads them from the first. `stops` are the
values `b` takes, `last` is the call before. The widths of the integers are
constants; `Signed` is `as i64`. The product is an exact integer division. The
code rounds `2^31 / r` and the product to `f64`, so its floor is sometimes
another (63 instead of 64 for `b + 1 = 49`, `r = 49 * 2^25`), and the buckets of
the model are not those of the code one by one. The properties and proofs use
only that each draw moves a call on by at least one bucket: `r` is at most 2^31,
the rounded quotient at least 1, and `b + 1` exact up to 2^53 buckets.

**AtomicMetrics.** `left[t]` are the additions a call has not made yet, in any
order, since they are relaxed; so are the two loads of `report`. `begun` is a
history of the calls.

## 3. Runs

| Run | Checks | Shows |
|---|---|---|
| `CompactRing` | `EveryNodePlaced`, `LookupIsSuccessor`, `RestoredIsBuilt`, `AgreeUnlessContested`, `CollisionsFollowListOrder`, `MovesAreExplained` | processes agree on every hash except at collisions of points of different nodes, where the order of the node list decides; a cut snapshot is refused; a new node takes hashes from old ones, and old ones exchange hashes only when their numbers of points changed |
| | `PlanExplainsMoves`, `TuningOnlyAdds` | a migration plan accounts for the keys that move; following a report only ever adds points, so it never helps against collisions or memory |
| `RingWalk` | `PreferenceOrder`, `CompleteWhenDone`, `CallReturns` | `get_n` on every ring of up to three nodes and four points |
| `BoundedConcurrent` | `Accounting`, `PickIsUp`, `FailsOnlyWhenAllDown`, `ImplementsAdmission`, `CallsReturn` | exact counters, healthy picks, refinement, termination |
| `BoundedSequential` | `GetNComplete`, `CountersExplained`, `PickIsFirstWithRoom`, `WithinBoundUnlessStolen` | one thread: what `get_n` returns, by how much the counters are off after its callers released what they were given, and that each request is placed within `ceil(factor * mean)` |
| `BoundedOvershoot` | `OvershootIsBounded` | n threads: at most n - 1 more |
| `BoundedConcurrentCap` | `CapIsRespected` – **violated** | the README's cap does not hold for two threads |
| `BoundedReadme` | `IdleMeansUnloaded` – **violated** | the README's usage leaks a load per request |
| `HealthAwareRing` | `PickIsFirstHealthy`, `StatusFollowsSeries`, `RebuildNeverRuns`, `LinesAreLive`, `OnlyUpdatesAndRoundsBlock`, `HealthyNeedsLoops`, `OnlyAddNodeInserts` | locks, searches, late results and dropped futures; updates wait for themselves, checks and loops for worker threads that are gone, and nothing else holds a lock for good; one call of `start_health_checks` makes no node Healthy |
| `MaglevTable` | `Balanced`, `SharesFollowWeights`, `PrimeSizesPermute`, `BuiltMeansReached`, `GetNIsWalk`, `BuildReturns` | all offsets and skips at sizes 1 to 5 |
| `DualRing` | `SidesOnlyAdvance`, `RolloutEndsAreExact` | any sequence of calls and reconfigurations |
| `JumpHash` | `BucketExists`, `MovesToNewBuckets`, `CallsEnd` | every sequence of draws, every two counts of buckets |
| `AtomicMetrics` | `ReportWithinRead` | averages of two counters that move meanwhile |

The type invariants of the modules with proofs are proved there and are part of
no run.

What the violated ones, and some of the properties that hold, mean for the code
is under `findings` in `PROJECT.json`.

## 4. Bounds, and why they are enough

- **CompactRing**: 3 hashes, 3 ids, up to 2 points per node and two targets, of
  which the second is what the report suggests for the first and gives lists of
  two nodes more points. Every pattern of collision among up to 4 points,
  wrap-around included. Index range 3 stands for 2^16, so that one list is too
  long. Two processes, because agreement and plans are about pairs. A snapshot
  loses 0, 1 or 5 fields: nothing, part of the points, all of them and more. The
  thresholds of the report are small enough that some rings have each issue but
  "below minimum", which `new` cannot produce with a minimum of 1.
- **RingWalk**: all sorted point sequences of length up to 4 over 4 hashes and
  up to 3 nodes; n from 0 to 4.
- **BoundedRing**: load factor 5/4. Two threads, two routed requests, a manual
  one and a stray id in `BoundedConcurrent` reach every step of one thread
  between any two of the other; the proofs cover all sizes. Three
  routed requests, a manual one and three nodes in `BoundedSequential` reach the
  rounding of the cap; `get_n` is asked for 2 nodes and for more than there are,
  with two probes, so that a call may count the same node twice; one node at a
  time is released uncounted, which wraps a counter. In
  `BoundedOvershoot` the mean of five nodes stays below 1 for four requests, so
  the bound is reached (three requests on one node) and a fourth would break it.
  `LoadRange` 16 stands for 2^64 and is reached only from below zero.
- **HealthAwareRing**: two callers, three loops, two or three worker threads,
  two nodes of which one comes and goes, a node list of at most 3 (duplicates
  occur). A round starts only if no more than 2 checks are then under way
  (`MaxChecks`): results of two loops for one node are recorded in any order,
  and a node that no update touches becomes Healthy, after two loops of three
  threads. With as many loops as threads the last thread goes, while a check
  has its place in the line of the health map and calls queue behind it, or a
  loop has that of the node list.
- **MaglevTable**: sizes 3 and 5 (prime), 4 (composite), 1 and 2, up to three
  virtual nodes, so that a table has fewer slots than virtual nodes, as many, or
  more.
- **DualRing**: one key, since keys share nothing but counters; two
  datacenters; rollouts below 0.0, inside, at 1.0 and above, and NaN; two calls
  between resets of the counters.
- **JumpHash**: draws out of 1 to 3, i64 of -6 to 5, u32 up to 3: every sequence
  of draws, counts that fit u32, i64 and only u64, products that saturate.
- **AtomicMetrics**: two threads, three calls with two latencies, counters that
  wrap at 16 (they do not within these calls). Threads are symmetric.

## 5. Fairness

Weak fairness is assumed only of steps that never wait: the loop of `get_n`,
the steps of a thread inside `get`, `acquire` or `release` (no lock is awaited
there once the read guard is held), the loop that fills a Maglev table. The
loop of jump hash and the return from it are the same kind of step. No fairness
is assumed of calls being made, of health changing, or of locks beyond their
queueing; the properties of `HealthAwareRing` need none.

`CHECK_DEADLOCK FALSE` is set where the system may stop: all requests placed and
nothing released (`AdmitSpec`), every task waiting for an update that waits for
itself (`HealthAwareRing`), a table that is built or refused (`MaglevTable`).

## 6. What is proved

For every value of the constants that satisfies the named assumptions:

| Theorem | Property | Argument |
|---|---|---|
| `RestoredRingsAreBuilt` | `RestoredIsBuilt` | `RingsOK`: a process that holds a ring holds the one `new` builds from its nodes and target, and those were accepted. `new` establishes it, a call of `new` on the operator's advice too; for `from_bytes`, all fields of a snapshot are read or an error is returned, and what was written is what is read (`SnapshotReadsBack`), also of a ring that came from a snapshot itself. All the following theorems rest on `RingsOK` |
| `RingsAreValid` | invariant | what the modules about one ring assume of its points, from `RingsOK` and `NodesArePlaced` |
| `NodesArePlaced`, `LookupsFindSuccessors` | `EveryNodePlaced`, `LookupIsSuccessor` | the positions of the points before a point are counted by a bijection (`SortSorts`), so sorting permutes the points and leaves them sorted; every node has at least one seed, and each seed one point (`AllPointsFromSeeds`) |
| `CollisionsSplitByOrder` | `CollisionsFollowListOrder` | equal hashes are adjacent and ordered by index; an exact match is the last of them, an insertion point the first |
| `RingsAgree` | `AgreeUnlessContested` | the number of points of a node depends on its weight and on the sum and number of weights only, and a list in another order has the same sum (`SumRenamed`); so both rings have points on the same hashes, both lookups end on the same hash, and if one node alone is there it is the same |
| `PlansExplainMoves`, `MovesHaveReasons` | `PlanExplainsMoves`, `MovesAreExplained` | `MoveNeedsCounts`: a ring that gives a node no fewer points has all its old points (`PointsCarryOver`), so if the loser kept its points and the winner won none, each owner's point is in both rings; both lookups then end on the same hash, where the order of the list decides, and adding a node keeps the order of the others |
| `AdviceOnlyAdds` | `TuningOnlyAdds` | a suggested target is tighter, and `OptimalHashes` grows with it; so does the number of points of every node after the clamp and the division (`NodeHashesGrow`), and with all of them the number of pairs and the memory; the coefficient of variation falls with the number of points |
| `LookupFindsSuccessor` | `StartsAtSuccessor` | from sortedness: the last match exists, or the insertion point does (least element of a set of naturals); points before it are smaller, points from it on not |
| `WalkTypeOK`, `WalkPreferenceOrder`, `WalkComplete` | `TypeOK`, `PreferenceOrder`, `CompleteWhenDone` of `RingWalk` | `IInv` adds that the points already passed belong to nodes in the result, and that `seen` is exactly the result. Without it a node behind the walk could be missing from the result, and order and completeness would not be preserved by `Collect` |
| `BoundedTypeOK`, `BoundedAccounting`, `BoundedPickIsUp`, `BoundedFailsOnlyWhenAllDown` | invariants of `BoundedRing` | `IInv` adds `JobInv` (what `pc`, `job`, `pick` and `held` say of one request fits together, and no request is the job of two workers) and `ScanInv` (a scan that has passed a healthy node has a result). Accounting needs the first to know that a step changes one set of requests by one element, and `Cardinality(Requests) < LoadRange - 1` so that no counter wraps |
| `BoundedImplementsAdmission` | `ImplementsAdmission` | the request is counted at `AddLoad` or `Acquire` and uncounted at `Release`; every other step leaves `load`, `up` and `Counted` alone |
| `BoundedOvershoot` | `OvershootIsBounded` | the property is not inductive: it does not say what threads on their way will do. `Room` is what the cap will be once every request is counted; a thread claims a node when it has settled for it or chosen it half way through a scan. `ClaimInv` bounds load plus claims by the number of threads above the room, or above what its scanning claimants have read there; a scan ends with a load of at most the mean, which is within the room if the factor is at least 1 (`LowIsRoom`) |
| `GetNInvariant`, `GetNIsComplete`, `CountersAreExplained` | invariant; `GetNComplete`, `CountersExplained` | `GetNInv`: `CallInv` relates the result so far to the nodes that were up throughout the call and to those the tail has looked at; `Explained` is kept modulo `LoadRange`, since releases of what was never counted wrap a counter. Until one happens, all of `IInv` holds |
| `PicksFirstWithRoom` | `PickIsFirstWithRoom` | `AloneInv`: counters and health are those the only thread has seen, so the probes passed were full, and the scan's best is the least so far |
| `PlacesWithinBound` | `WithinBoundUnlessStolen` | `SumInv`: the total is the sum of the loads. `WithinInv`: the node chosen has a load within `Room`, by its probe or, for the least loaded one, by `LowIsRoom`; with the request counted it is within `ceil(factor * mean)` |
| `HealthRebuildNeverRuns` | `RebuildNeverRuns` | `OwnWriteAhead`: the read request of a caller in `rebuild_ring` has the caller's own write request ahead of it in the line of the node list, and nothing removes that but the end of the call. The property alone is not inductive: it does not say why the lock is not granted |
| `HealthPickIsFirstHealthy` | `PickIsFirstHealthy` | `SearchInv`: of two requests in the line of the health map one is ahead of the other, and a search that has looked at a point is served; so no writer is served with it (`Exclusive`), and what it has seen stays so |
| `HealthStatusFollowsSeries`, `HealthOnlyAddNodeInserts` | `StatusFollowsSeries`, `OnlyAddNodeInserts` | `Series`: every entry of the map is well-typed and follows its series; each of the three ways to write the map keeps that |
| `HealthLinesAreLive` | `LinesAreLive` | `Live`, the same for each lock and each task: who is in a line, by what the task is doing |
| `HealthNeedsLoops` | `HealthyNeedsLoops` | `Quotas`: for a node no update touches, the successes counted in its series and its checks under way are together at most what the loops were worth, one for every place of the node in the first list and every loop that has been blocked. A round spawns at most one check for each place, and `ListKept` says that other updates give such a node no further place (`WithoutKeeps`, `AppendKeeps`) |
| `HealthOnlyUpdatesAndRoundsBlock` | `OnlyUpdatesAndRoundsBlock` | `LockInv` adds to `Live` that the ring is only asked for reading, that a task asks a lock once unless it is at `rebuild_ring` (`AskedOnce`, for which a loop must spawn one check for each place: `SpawnedOnce`), and that an update which waits for the health map has been given the node list (`Holding`). So the first of a line is served by that lock; which tasks are in two lines says which of them wait for another one. A loop or a check that waits for no lock still needs a worker thread, and is `Starved` without one; the ring is asked for by callers only, so nobody is there |
| `SharesBalanced`, `BuiltTablesAreReached` | `Balanced`, `BuiltMeansReached` | `IInv` (theorem `Invariance`): the slots a virtual node has passed are owned (`PassedIsTaken`), so a permutation is used up only when all it visits is; owned slots are ones some permutation visits (`TakenIsReached`); and nodes before `turn` have exactly one slot more than the others (`InTurn`) |
| `PrimesPermute` | `PrimeSizesPermute` | two steps along a permutation whose size and skip have no common divisor do not meet before all slots are visited (`SlotsDiffer`), and an injection of a finite set into itself is onto (`SlotsCovered`). All of this needs only that `next_prime` returns a prime; that it returns the least one is shown for the arguments up to 60 that the property names |
| `LoadsFollowWeights` | `SharesFollowWeights` | the list of virtual nodes has `weights[k]` places for node k (`VnodeToNode`), and each place has as many slots as any other, or one more |
| `GetNFollowsWalk` | `GetNIsWalk` | the fold of `get_n` over the walk keeps: the result is distinct, holds exactly the nodes met so far until it is full, in the order met |
| `DualSidesOnlyAdvance`, `DualRolloutEndsAreExact` | `SidesOnlyAdvance`, `RolloutEndsAreExact` | `Numbers` (types; a rollout is a number or NaN) with the property: a call moves all requests the strategy does not tell apart, and a change that grows keeps them there |
| `MetricsReportWithinRead` | `ReportWithinRead` | `Books`: what was counted and what the threads still owe is what was begun, for both fields of both metrics; what they owe is no more than the calls under way have (`SumMonotone`), so what is over is no more than what is counted. `ReportInv`: a field is at least what was over when the average was asked for and, once loaded, at most what has begun; both ends only move apart, as the counters do not wrap. The quotients follow (`QuotientsOrder`) |
| `JumpBucketExists`, `JumpMovesToNewBuckets` | `BucketExists`, `MovesToNewBuckets` | `IInv`: the stops of this call and of the last are walks along the same draws, so they agree as far as both go; stops increase and stay below the count, the next one does not. Monotone placement follows by comparing the two walks |

Assumptions: points that are sorted, not empty and of the nodes there are
(`ValidPoints`: `PointsAssumption`, `RingAssumption`), for `get_n` also of every
node (`RingsAssumption`). `RingsAreValid` and `NodesArePlaced` show this of every
ring a process of `CompactRing` holds, so it is no restriction. Distinct node
names; fewer than 2^64 - 1
requests in flight; for jump hash, that u32 is narrower than i64 and a draw is
at least 1 and at most 2^31. For `CompactRing`: lists of ids and weights
(`BuildsAssumption`), a `clamp` that does not panic (`HashBoundsAssumption`),
targets that are fractions, and a hash for every seed that is asked for
(`SeedsAssumption`, `TargetsAssumption`); nothing is assumed of the hashes, the
number of processes, or how often ids repeat in a list. Where a property needs
distinct ids, it says so.

Four theorems have a hypothesis of their own. `BoundedOvershoot` and
`PlacesWithinBound` ask for a load factor of at least 1 (`FactorDen <=
FactorNum`), as all of the crate's documentation, examples and tests use,
though `BoundedConfig` takes any: below it the bound is false, since a node with
the mean load is above the cap and the fallback takes it (one node, factor 1/2,
its second request). `PicksFirstWithRoom`
and `PlacesWithinBound` are about one thread at a time, as the run
`BoundedSequential` is: between the probe and the count of one thread another
one can take the room. `MetricsReportWithinRead` asks for counters that hold all
that can be added to them (`Wide`): with u64, for latencies that add up to less
than 2^64 ns, about 584 years; once a sum wraps, the average says nothing.

Induction. The library's induction theorems cannot be instantiated here, so
what would be an induction over lists or numbers looks for the least
counterexample (`LeastNat`) in a set written out for the formula at hand. That
is how sums over a node list (`TotalWeight`, the loads of `BoundedRing`), the
list of virtual nodes (`VnodeToNode`), the walks of `GetN` and the divisors of a
prime are treated.

Every invariant and every action property of a passing run is proved, and so is
the refinement. Only model-checked: liveness (`CallReturns`, `CallsReturn`,
`BuildReturns`, `CallsEnd`), which is out of the prover's reach, as is `ENABLED`,
and the two properties that are violated. `PrimeSizesPermute` names the least
primes for the arguments up to 60, and the theorem shows these by trial
division; for every argument it shows that the number returned is a prime.

## 7. Not modelled

- Unknown ids given to `acquire` or `release` (no effect). `get_n` of
  `BoundedRing` called by several threads at once: its steps are those of `get`,
  whose interleavings `BoundedConcurrent` has.
- Repeated ids within one ring, overflow of the sum of weights, a minimum of
  hashes above the maximum (`clamp` panics), snapshots that were altered rather
  than cut, the bytes of a snapshot.
- Weights in `HealthAwareRing`, the values its reports return, `last_check` and
  `last_error`, the receivers of the `watch` channel (no value is ever sent),
  which worker a spawned task wakes on.
- The concatenation of key and datacenter in `HashBased` (`"ab" + "c"` and
  `"a" + "bc"` hash alike).
- Rounding: of `optimal_hashes_for_cv`, of the quotient and the product of jump
  hash, of the floating-point fields of the statistics. `gets_per_sec` and
  `NoOpMetrics`. The logarithm for skewed weights is any factor above 1.
- Builders, except for what they can hand to the constructors. `DefaultHash` and
  `KetamaHash` are arbitrary functions.
- Benchmarks, examples, fuzz targets: clients of the crate.

## 8. Plan

Built in this order: `RingLookup`, `CompactRing`, `RingWalk`, `BoundedRing` with
`Admission`, `HealthAwareRing`, `MaglevTable`, `DualRing`; then `BoundedGetN`,
`JumpHash`, `AtomicMetrics`, `RingPlanning`, and the proofs of section 6. What
would come next:

1. `HealthAwareRing` as written without the two self-waits, as an abstract
   specification of what updates should do; liveness of its lookups then makes
   sense.
2. Proofs about the calls of `BoundedGetN` made by several threads at once, once
   the module has them.
3. The lookups of `BoundedRing` and `HealthAwareRing` inside a rollout of
   `DualRing`, with what callers hold on the ring they are moved away from.
