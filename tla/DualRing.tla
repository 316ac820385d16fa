------------------------------- MODULE DualRing -------------------------------
(***************************************************************************)
(* Moving traffic from one ring to another (shardring/src/migration.rs).   *)
(*                                                                         *)
(* A call takes `&self`, and what it reads, the rings and the              *)
(* configuration, changes only through `&mut self`; the counters are       *)
(* behind one lock and never read by a decision.  So a call is one step.   *)
(*                                                                         *)
(* xxh3 is unknown: the initial state assigns a ratio to what is hashed, a *)
(* key alone or a key followed by a datacenter.  Ratios are multiples of   *)
(* 1 / Full, Full included: `hash as f64 / u64::MAX as f64` is 1.0 for the *)
(* greatest hashes, because both are rounded to 2^64.                      *)
(***************************************************************************)
EXTENDS Integers, Sequences, FiniteSets

CONSTANTS
  Keys, Datacenters,
  NoDatacenter,       \* the `None` of a call that names no datacenter
  NodeLists,          \* the id lists of the rings a DualRing may be given
  Full,               \* the ratio 1.0
  Rollouts,           \* the numbers callers pass as a rollout percentage
  NaN,                \* and the one that compares with none of them
  Allowlists,         \* the datacenter_allowlists callers pass
  MaxRequests         \* bound: calls counted before the metrics are reset

ASSUME RolloutAssumption ==
  /\ Full \in Nat \ {0}
  /\ Rollouts \subseteq Int
  /\ NaN \notin Rollouts
  /\ NoDatacenter \notin Datacenters
  /\ MaxRequests \in Nat

VARIABLES
  ratioOf,            \* the hash of what is hashed, as a ratio
  dual,               \* the result of DualRing::new: where each ring puts a key
  config,             \* MigrationConfig
  metrics,            \* MigrationMetrics, without `errors` that nothing counts
  moved               \* history: requests served by the new ring, while the
                      \* rollout has done nothing but grow since

vars == <<ratioOf, dual, config, metrics, moved>>

Requests == [key : Keys, dc : Datacenters \cup {NoDatacenter}]
Strategies == {"HashBased", "Percentage", "Datacenter"}

Configs == [strategy : Strategies, rollout : Rollouts \cup {NaN},
            allowlist : Allowlists, shadow : BOOLEAN]

NoMetrics == [old |-> 0, new |-> 0, mismatches |-> 0]

-----------------------------------------------------------------------------
(* Comparisons of floats: each is false of NaN. *)
AtLeast(x, y) == x # NaN /\ y # NaN /\ x >= y

(* Faulty: a ratio equal to the rollout is let through. *)
BelowOrAt(ratio, rollout) == rollout # NaN /\ ratio <= rollout

Below(ratio, rollout) == rollout # NaN /\ ratio < rollout

(* f64::clamp(0.0, 1.0), which gives NaN for NaN. *)
Clamp(x) ==
  IF x = NaN THEN NaN ELSE IF x < 0 THEN 0 ELSE IF x > Full THEN Full ELSE x

(* Faulty: the datacenter is always part of what is hashed. *)
HashedWithDc(strategy, r) == r

(* What the hasher is fed: only HashBased adds the datacenter. *)
Hashed(strategy, r) ==
  IF strategy = "HashBased" THEN r ELSE [key |-> r.key, dc |-> NoDatacenter]

ShouldUseNewRing(r) ==
  IF config.strategy = "Datacenter"
    THEN r.dc # NoDatacenter /\ r.dc \in config.allowlist
    ELSE Below(ratioOf[Hashed(config.strategy, r)], config.rollout)

IsFullyMigrated ==
  \/ AtLeast(config.rollout, Full)
  \/ config.strategy = "Datacenter" /\ config.allowlist # {}

-----------------------------------------------------------------------------
Init ==
  /\ ratioOf \in [Requests -> 0 .. Full]
  /\ dual = [outcome |-> "NotBuilt"]
  /\ config \in Configs
  /\ metrics = NoMetrics
  /\ moved = {}

(* Node count mismatch, or node id mismatch at some position. *)
Mismatched(oldIds, newIds) == oldIds # newIds

RejectRings(oldIds, newIds) ==
  /\ Mismatched(oldIds, newIds)
  /\ dual' = [outcome |-> "MigrationInProgress"]
  /\ UNCHANGED <<ratioOf, config, metrics, moved>>

(* Each ring places its keys on its nodes, by its own configuration. *)
AcceptRings(oldIds, newIds) ==
  /\ ~Mismatched(oldIds, newIds)
  /\ \E old \in [Keys -> DOMAIN oldIds], new \in [Keys -> DOMAIN newIds] :
       dual' = [outcome |-> "Ok", old |-> old, new |-> new]
  /\ UNCHANGED <<ratioOf, config, metrics, moved>>

(* DualRing::new, tried until it succeeds. *)
New(oldIds, newIds) ==
  /\ dual.outcome # "Ok"
  /\ \/ RejectRings(oldIds, newIds)
     \/ AcceptRings(oldIds, newIds)

-----------------------------------------------------------------------------
Counted(side) == [metrics EXCEPT ![side] = @ + 1]

(* get, and get_with_datacenter when the request names one. *)
Get(r) ==
  LET side == IF ShouldUseNewRing(r) THEN "new" ELSE "old"
  IN  /\ dual.outcome = "Ok"
      /\ metrics.old + metrics.new < MaxRequests
      /\ metrics' = Counted(side)
      /\ moved' = IF side = "new" THEN moved \cup {r} ELSE moved \ {r}
      /\ UNCHANGED <<ratioOf, dual, config>>

GetShadow(key) ==
  /\ dual.outcome = "Ok"
  /\ config.shadow
  /\ dual.old[key] # dual.new[key]
  /\ metrics.mismatches < MaxRequests
  /\ metrics' = [metrics EXCEPT !.mismatches = @ + 1]
  /\ UNCHANGED <<ratioOf, dual, config, moved>>

(* The new configuration leaves nobody with less than the old one gave. *)
Grows(c, d) ==
  /\ c.strategy = d.strategy
  /\ IF c.strategy = "Datacenter" THEN c.allowlist \subseteq d.allowlist
                                  ELSE AtLeast(d.rollout, c.rollout)

Configure(c) ==
  /\ dual.outcome = "Ok"
  /\ config' = c
  /\ moved' = IF Grows(config, c) THEN moved ELSE {}
  /\ UNCHANGED <<ratioOf, dual, metrics>>

(* update_config takes any rollout; set_rollout clamps it. *)
UpdateConfig(c) == Configure(c)

SetRollout(x) == Configure([config EXCEPT !.rollout = Clamp(x)])

ResetMetrics ==
  /\ dual.outcome = "Ok"
  /\ metrics' = NoMetrics
  /\ UNCHANGED <<ratioOf, dual, config, moved>>

Next ==
  \/ \E oldIds \in NodeLists, newIds \in NodeLists : New(oldIds, newIds)
  \/ \E r \in Requests : Get(r)
  \/ \E key \in Keys : GetShadow(key)
  \/ \E c \in Configs : UpdateConfig(c)
  \/ \E x \in Rollouts \cup {NaN} : SetRollout(x)
  \/ ResetMetrics

Spec == Init /\ [][Next]_vars

-----------------------------------------------------------------------------
(* Two requests that a strategy does not tell apart. *)
SameFor(strategy, r, s) ==
  CASE strategy = "HashBased"  -> r = s
    [] strategy = "Percentage" -> r.key = s.key
    [] strategy = "Datacenter" -> r.dc = s.dc

(* Whatever was served by the new ring stays there as long as every change *)
(* of the configuration keeps the strategy and only lets more in: a        *)
(* rollout that is raised in steps, by set_rollout or by update_config,    *)
(* below 0.0 and above 1.0 too, never sends traffic back (migration.rs     *)
(* 80-100, 154-164).                                                       *)
SidesOnlyAdvance ==
  \A r \in moved, s \in Requests :
    SameFor(config.strategy, r, s) => ShouldUseNewRing(s)

(* The ends of a rollout are exact.  At 0 and below nothing is counted for *)
(* the new ring; and once is_fully_migrated holds nothing is counted for   *)
(* the old one, so that it may be dropped, except with the strategy        *)
(* Datacenter, and except for a ratio that was rounded to 1.0 while the    *)
(* rollout is 1.0 and not more (migration.rs 80-100, 188-193).             *)
RolloutEndsAreExact ==
  [][config.strategy # "Datacenter" =>
       /\ AtLeast(0, config.rollout) => metrics'.new <= metrics.new
       /\ IsFullyMigrated =>
            \/ metrics'.old <= metrics.old
            \/ config.rollout = Full /\ \E r \in Requests : ratioOf[r] = Full]_vars
=============================================================================
