----------------------------- MODULE MetricsProofs -----------------------------
(***************************************************************************)
(* Theorems about the two components that count what they serve.           *)
(*                                                                         *)
(* DualRing, for any keys, datacenters, allowlists, rollouts and hashes.   *)
(* SidesOnlyAdvance is inductive with the types of the numbers: a call     *)
(* adds a request that the configuration sends to the new ring, and with   *)
(* it all it does not tell apart; a change that grows keeps them there.    *)
(*                                                                         *)
(* AtomicMetrics, for any number of threads, calls and latencies, as long  *)
(* as the sum of the latencies is below 2^64.  What was begun is what was  *)
(* counted and what the threads still owe; what they owe is no more than   *)
(* the calls under way.                                                    *)
(***************************************************************************)
EXTENDS DualRing, AtomicMetrics, RingLookupProofs

(* The numbers; of the metrics only how they compare is needed. *)
Numbers ==
  /\ ratioOf \in [Requests -> 0 .. Full]
  /\ config \in [strategy : Strategies, rollout : Int \cup {NaN},
                 allowlist : Allowlists, shadow : BOOLEAN]
  /\ metrics \in [old : Nat, new : Nat, mismatches : Nat]
  /\ moved \subseteq Requests

LEMMA HashedIsRequest ==
  ASSUME NEW strategy, NEW r \in Requests
  PROVE  Hashed(strategy, r) \in Requests
BY DEF Hashed, Requests

LEMMA ClampIsNumber == \A x \in Rollouts \cup {NaN} : Clamp(x) \in Int \cup {NaN}
BY RolloutAssumption DEF Clamp

LEMMA ConfigureNumbers ==
  ASSUME Numbers, NEW c, Configure(c),
         c \in [strategy : Strategies, rollout : Int \cup {NaN},
                allowlist : Allowlists, shadow : BOOLEAN]
  PROVE  Numbers'
BY DEF Numbers, Configure

LEMMA ConfigsAreTyped ==
  Configs \subseteq [strategy : Strategies, rollout : Int \cup {NaN},
                     allowlist : Allowlists, shadow : BOOLEAN]
BY RolloutAssumption DEF Configs

LEMMA InitNumbers == ASSUME Init PROVE Numbers
BY ConfigsAreTyped DEF Init, Numbers, NoMetrics

LEMMA RolloutTyped ==
  ASSUME Numbers, NEW x \in Rollouts \cup {NaN}
  PROVE  [config EXCEPT !.rollout = Clamp(x)]
           \in [strategy : Strategies, rollout : Int \cup {NaN},
                allowlist : Allowlists, shadow : BOOLEAN]
BY ClampIsNumber DEF Numbers

(* A step configures, or it leaves the configuration alone. *)
Configures(c) ==
  /\ Configure(c)
  /\ c \in [strategy : Strategies, rollout : Int \cup {NaN},
            allowlist : Allowlists, shadow : BOOLEAN]

LEMMA NextKinds ==
  ASSUME Numbers, [Next]_vars
  PROVE  \/ \E r \in Requests : Get(r)
         \/ \E c : Configures(c)
         \/ /\ UNCHANGED <<ratioOf, config, moved>>
            /\ metrics' = metrics \/ metrics' = NoMetrics
                 \/ metrics' = [metrics EXCEPT !.mismatches = @ + 1]
<1>1. ASSUME NEW oldIds, NEW newIds, New(oldIds, newIds)
      PROVE  UNCHANGED <<ratioOf, config, metrics, moved>>
  BY <1>1 DEF New, RejectRings, AcceptRings
<1>2. ASSUME NEW key, GetShadow(key)
      PROVE  /\ UNCHANGED <<ratioOf, config, moved>>
             /\ metrics' = [metrics EXCEPT !.mismatches = @ + 1]
  BY <1>2 DEF GetShadow
<1>3. ASSUME NEW c \in Configs, UpdateConfig(c) PROVE Configures(c)
  BY <1>3, ConfigsAreTyped DEF UpdateConfig, Configures
<1>4. ASSUME NEW x \in Rollouts \cup {NaN}, SetRollout(x)
      PROVE  \E c : Configures(c)
  BY <1>4, RolloutTyped DEF SetRollout, Configures
<1>5. CASE ResetMetrics
  BY <1>5 DEF ResetMetrics
<1>6. CASE UNCHANGED vars
  BY <1>6 DEF vars
<1> QED BY <1>1, <1>2, <1>3, <1>4, <1>5, <1>6 DEF Next

LEMMA NumbersStep ==
  ASSUME Numbers, [Next]_vars
  PROVE  Numbers'
<1>1. ASSUME NEW r \in Requests, Get(r) PROVE Numbers'
  BY <1>1 DEF Get, Counted, Numbers
<1>2. ASSUME NEW c, Configures(c) PROVE Numbers'
  BY <1>2, ConfigureNumbers DEF Configures
<1>3. ASSUME UNCHANGED <<ratioOf, config, moved>>,
             metrics' = metrics \/ metrics' = NoMetrics
                \/ metrics' = [metrics EXCEPT !.mismatches = @ + 1]
      PROVE  Numbers'
  <2>1. metrics' \in [old : Nat, new : Nat, mismatches : Nat]
    BY <1>3 DEF Numbers, NoMetrics
  <2> QED BY <1>3, <2>1 DEF Numbers
<1> QED BY <1>1, <1>2, <1>3, NextKinds

-----------------------------------------------------------------------------
(* Requests a strategy does not tell apart go to the same side. *)
LEMMA SameSide ==
  ASSUME Numbers, NEW r \in Requests, NEW s \in Requests,
         SameFor(config.strategy, r, s), ShouldUseNewRing(r)
  PROVE  ShouldUseNewRing(s)
<1>1. config.strategy \in {"HashBased", "Percentage", "Datacenter"}
  BY DEF Numbers, Strategies
<1> QED BY <1>1 DEF SameFor, ShouldUseNewRing, Hashed

(* What the new ring serves it serves after a change that grows.           *)
LEMMA GrowingKeeps ==
  ASSUME Numbers, NEW c, Configures(c), Grows(config, c),
         NEW s \in Requests, ShouldUseNewRing(s)
  PROVE  ShouldUseNewRing(s)'
<1>1. /\ config' = c /\ ratioOf' = ratioOf
      /\ c.strategy = config.strategy /\ c.rollout \in Int \cup {NaN}
  BY DEF Configures, Configure, Grows
<1>2. CASE config.strategy = "Datacenter"
  BY <1>1, <1>2 DEF Grows, ShouldUseNewRing
<1>3. CASE config.strategy # "Datacenter"
  <2> DEFINE ratio == ratioOf[Hashed(config.strategy, s)]
  <2>1. ratio \in 0 .. Full
    BY HashedIsRequest DEF Numbers
  <2>2. config.rollout \in Int /\ ratio < config.rollout
    BY <1>3 DEF ShouldUseNewRing, Below, Numbers
  <2>3. c.rollout # NaN /\ c.rollout >= config.rollout
    BY <1>3 DEF Grows, AtLeast
  <2>4. c.rollout \in Int
    BY <1>1, <2>3
  <2>5. ratio < c.rollout
    BY <2>1, <2>2, <2>3, <2>4, RolloutAssumption
  <2> QED BY <1>1, <1>3, <2>3, <2>5 DEF ShouldUseNewRing, Below
<1> QED BY <1>2, <1>3

LEMMA SidesStep ==
  ASSUME Numbers, SidesOnlyAdvance, [Next]_vars
  PROVE  SidesOnlyAdvance'
<1>1. ASSUME NEW r \in Requests, Get(r) PROVE SidesOnlyAdvance'
  <2>1. config' = config /\ ratioOf' = ratioOf
    BY <1>1 DEF Get
  <2>2. \A q \in moved' : q \in moved \/ (q \in Requests /\ ShouldUseNewRing(q))
    BY <1>1 DEF Get
  <2>3. \A s \in Requests : ShouldUseNewRing(s)' <=> ShouldUseNewRing(s)
    BY <2>1 DEF ShouldUseNewRing
  <2>4. \A q \in moved', s \in Requests :
          SameFor(config.strategy, q, s) => ShouldUseNewRing(s)
    BY <2>2, SameSide DEF SidesOnlyAdvance
  <2> QED BY <2>1, <2>3, <2>4 DEF SidesOnlyAdvance, SameFor
<1>2. ASSUME NEW c, Configures(c) PROVE SidesOnlyAdvance'
  <2>1. CASE Grows(config, c)
    <3>1. moved' = moved /\ config'.strategy = config.strategy
      BY <1>2, <2>1 DEF Configures, Configure, Grows
    <3>2. \A s \in Requests : ShouldUseNewRing(s) => ShouldUseNewRing(s)'
      BY <1>2, <2>1, GrowingKeeps
    <3> QED BY <3>1, <3>2 DEF SidesOnlyAdvance, SameFor
  <2>2. CASE ~Grows(config, c)
    BY <1>2, <2>2 DEF Configures, Configure, SidesOnlyAdvance
  <2> QED BY <2>1, <2>2
<1>3. CASE UNCHANGED <<ratioOf, config, moved>>
  BY <1>3 DEF SidesOnlyAdvance, SameFor, ShouldUseNewRing
<1> QED BY <1>1, <1>2, <1>3, NextKinds

(* Traffic that was served by the new ring stays there while the rollout   *)
(* does nothing but grow (migration.rs 80-100, 154-164).                   *)
THEOREM DualSidesOnlyAdvance == Spec => []SidesOnlyAdvance
<1>1. Init => Numbers /\ SidesOnlyAdvance
  BY InitNumbers DEF Init, SidesOnlyAdvance
<1>2. Numbers /\ SidesOnlyAdvance /\ [Next]_vars => (Numbers /\ SidesOnlyAdvance)'
  BY NumbersStep, SidesStep
<1> QED BY <1>1, <1>2, PTL DEF Spec

-----------------------------------------------------------------------------
(* The ends of a rollout are exact: nothing is counted for the new ring at *)
(* 0, and nothing for the old one once is_fully_migrated holds, but for    *)
(* the exceptions RolloutEndsAreExact names (migration.rs 80-100, 188-193).*)
THEOREM DualRolloutEndsAreExact == Spec => RolloutEndsAreExact
<1> DEFINE exact ==
      config.strategy # "Datacenter" =>
        /\ AtLeast(0, config.rollout) => metrics'.new <= metrics.new
        /\ IsFullyMigrated =>
             \/ metrics'.old <= metrics.old
             \/ config.rollout = Full /\ \E r \in Requests : ratioOf[r] = Full
<1>1. ASSUME Numbers, [Next]_vars PROVE exact
  <2>1. metrics.old \in Nat /\ metrics.new \in Nat
    BY <1>1 DEF Numbers
  <2>2. ASSUME NEW r \in Requests, Get(r), config.strategy # "Datacenter" PROVE exact
    <3> DEFINE hashed == Hashed(config.strategy, r)
    <3>1. hashed \in Requests /\ ratioOf[hashed] \in 0 .. Full /\ Full \in Nat
      BY <1>1, HashedIsRequest, RolloutAssumption DEF Numbers
    <3>2. ShouldUseNewRing(r) <=> Below(ratioOf[hashed], config.rollout)
      BY <2>2 DEF ShouldUseNewRing
    <3>3. IF ShouldUseNewRing(r) THEN metrics'.old = metrics.old
                                 ELSE metrics'.new = metrics.new
      BY <1>1, <2>2 DEF Get, Counted, Numbers
    <3>4. config.rollout = NaN \/ config.rollout \in Int
      BY <1>1 DEF Numbers
    <3> HIDE DEF hashed
    <3>5. ASSUME AtLeast(0, config.rollout) PROVE ~ShouldUseNewRing(r)
      BY <3>1, <3>2, <3>4, <3>5 DEF Below, AtLeast
    <3>6. ASSUME IsFullyMigrated, ~ShouldUseNewRing(r)
          PROVE  config.rollout = Full /\ ratioOf[hashed] = Full
      <4>1. config.rollout # NaN /\ config.rollout >= Full
        BY <2>2, <3>6 DEF IsFullyMigrated, AtLeast
      <4>2. ~(ratioOf[hashed] < config.rollout)
        BY <3>2, <3>6, <4>1 DEF Below
      <4> QED BY <3>1, <3>4, <4>1, <4>2
    <3> QED BY <2>1, <3>1, <3>3, <3>5, <3>6
  <2>3. ASSUME metrics' = metrics \/ metrics' = NoMetrics
                 \/ metrics' = [metrics EXCEPT !.mismatches = @ + 1]
        PROVE  exact
    <3>1. metrics'.old <= metrics.old /\ metrics'.new <= metrics.new
      BY <1>1, <2>1, <2>3 DEF NoMetrics, Numbers
    <3> QED BY <3>1
  <2>4. ASSUME NEW c, Configures(c) PROVE metrics' = metrics
    BY <2>4 DEF Configures, Configure
  <2>5. CASE config.strategy = "Datacenter"
    BY <2>5
  <2> QED BY <1>1, <2>2, <2>3, <2>4, <2>5, NextKinds
<1>2. Numbers /\ [Next]_vars => [exact]_vars
  BY <1>1
<1> QED BY <1>2, InitNumbers, NumbersStep, PTL DEF Spec, RolloutEndsAreExact
-----------------------------------------------------------------------------
(* AtomicMetrics.  A latency report is made of two fields of each metric:  *)
(* the number of the calls, and their sum.                                 *)
Fields == {"n", "sum"}

CounterOf(m, field) == IF field = "n" THEN Count(m) ELSE Sum(m)

(* What the call of t adds to a field. *)
Share(t, field) == IF field = "n" THEN 1 ELSE doing[t].latency

(* The shares of the calls under way, and those that were not added yet.   *)
Open(m, field) ==
  [t \in Recorders |-> IF doing[t].metric = m THEN Share(t, field) ELSE 0]

Owes(t, m, field) ==
  doing[t].metric = m /\ Add(CounterOf(m, field), Share(t, field)) \in left[t]

Owed(m, field) ==
  [t \in Recorders |-> IF Owes(t, m, field) THEN Share(t, field) ELSE 0]

Shapes ==
  /\ counter = [c \in Counters |-> counter[c]]
  /\ left = [t \in Recorders |-> left[t]]
  /\ doing \in [Recorders -> [metric : Metrics \cup {"none"}, latency : Nat]]
  /\ begun \in [Metrics -> [n : Nat, sum : Nat]]

(* A thread is in no call, or has some additions of one left. *)
Doing(t) ==
  \/ left[t] = {} /\ doing[t] = NoCall
  \/ /\ left[t] # {}
     /\ doing[t].metric \in Metrics /\ doing[t].latency \in Latencies
     /\ left[t] \subseteq LatencyAdds(doing[t].metric, doing[t].latency)

Threads == \A t \in Recorders : Doing(t)

(* The counter of a field and what is owed to it make what was begun, and  *)
(* the calls under way are among those that were begun.                    *)
Book(m, field) ==
  /\ counter[CounterOf(m, field)] \in Nat
  /\ counter[CounterOf(m, field)] + SumOver(Owed(m, field), Recorders) = begun[m][field]
  /\ SumOver(Open(m, field), Recorders) <= begun[m][field]

Books == \A m \in Metrics, field \in Fields : Book(m, field)

(* No more was begun than the bounds allow, with latencies of at most L. *)
Limits(L) ==
  /\ begun["gets"].n + begun["healthy_gets"].n <= MaxCalls
  /\ \A m \in Metrics : begun[m].sum <= begun[m].n * L

(* The counters hold all that can be added to them. *)
Wide(L) ==
  /\ L \in Nat /\ \A latency \in Latencies : latency <= L
  /\ MaxCalls < Word /\ MaxCalls * L < Word

-----------------------------------------------------------------------------
LEMMA SharesTyped ==
  ASSUME Shapes, NEW m, NEW field \in Fields
  PROVE  /\ \A t \in Recorders : Share(t, field) \in Nat
         /\ \A t \in Recorders : Open(m, field)[t] \in Nat /\ Owed(m, field)[t] \in Nat
         /\ \A t \in Recorders : Owed(m, field)[t] <= Open(m, field)[t]
         /\ SumOver(Open(m, field), Recorders) \in Nat
         /\ SumOver(Owed(m, field), Recorders) \in Nat
<1>1. \A t \in Recorders : Share(t, field) \in Nat
  BY DEF Shapes, Share
<1>2. \A t \in Recorders :
        /\ Open(m, field)[t] = IF doing[t].metric = m THEN Share(t, field) ELSE 0
        /\ Owed(m, field)[t] = IF Owes(t, m, field) THEN Share(t, field) ELSE 0
        /\ Owes(t, m, field) => doing[t].metric = m
  BY DEF Open, Owed, Owes
<1>3. \A t \in Recorders :
        /\ Open(m, field)[t] \in Nat /\ Owed(m, field)[t] \in Nat
        /\ Owed(m, field)[t] <= Open(m, field)[t]
  BY <1>1, <1>2
<1>4. IsFiniteSet(Recorders) /\ {} \in SUBSET Recorders /\ 0 \in Nat
  BY MetricsAssumption
<1>5. SumOver(Open(m, field), Recorders) \in Nat
  BY <1>3, <1>4, SumAtLeast
<1>6. SumOver(Owed(m, field), Recorders) \in Nat
  BY <1>3, <1>4, SumAtLeast
<1> QED BY <1>1, <1>3, <1>5, <1>6

(* What was begun fits the counters. *)
LEMMA BegunFits ==
  ASSUME NEW L, Wide(L), Shapes, Limits(L), NEW m \in Metrics, NEW field \in Fields
  PROVE  begun[m][field] \in Nat /\ begun[m][field] < Word
<1>1. begun[m].n \in Nat /\ begun[m].sum \in Nat
  BY DEF Shapes
<1>2. PICK x \in Nat : x = begun[m].n
  BY <1>1
<1>3. PICK y \in Nat : y = begun["gets"].n
  BY DEF Shapes, Metrics
<1>4. PICK z \in Nat : z = begun["healthy_gets"].n
  BY DEF Shapes, Metrics
<1>5. x = y \/ x = z
  BY <1>2, <1>3, <1>4 DEF Metrics
<1>6. x <= MaxCalls /\ MaxCalls \in Nat /\ L \in Nat
  BY <1>3, <1>4, <1>5, MetricsAssumption DEF Limits, Wide
<1>7. x * L <= MaxCalls * L
  <2>1. PICK e \in Nat : MaxCalls = x + e
    <3>1. MaxCalls - x \in Nat /\ MaxCalls = x + (MaxCalls - x)
      BY <1>6
    <3> QED BY <3>1
  <2>2. MaxCalls * L = x * L + e * L /\ e * L \in Nat /\ x * L \in Nat
    BY <1>6, <2>1
  <2> QED BY <2>2
<1>8. PICK s \in Nat : s = begun[m].sum
  BY <1>1
<1>9. s <= x * L
  BY <1>2, <1>8 DEF Limits
<1>10. x < Word /\ s < Word
  <2>1. x * L \in Nat /\ MaxCalls * L \in Nat /\ Word \in Nat
    BY <1>6, MetricsAssumption
  <2> QED BY <1>6, <1>7, <1>9, <2>1 DEF Wide
<1>11. CASE field = "n"
  BY <1>2, <1>10, <1>11
<1>12. CASE field = "sum"
  BY <1>8, <1>10, <1>12
<1> QED BY <1>11, <1>12 DEF Fields

-----------------------------------------------------------------------------
LEMMA CountersApart ==
  ASSUME NEW m \in Metrics, NEW field \in Fields
  PROVE  /\ CounterOf(m, field) \in Counters
         /\ CounterOf(m, field) \notin {"migrations_total", "errors_total", "rebalances_total"}
         /\ \A x \in Metrics : CounterOf(m, field) # Total(x)
         /\ \A x \in Metrics, other \in Fields :
              CounterOf(x, other) = CounterOf(m, field) => x = m /\ other = field
BY DEF CounterOf, Fields, Metrics, Counters, Count, Sum, Total

(* What a thread adds to the counter of a field is its share of it. *)
LEMMA AddIsShare ==
  ASSUME Shapes, NEW t \in Recorders, Doing(t), NEW add \in left[t]
  PROVE  /\ add.counter \in Counters /\ add.amount \in Nat
         /\ doing[t].metric \in Metrics /\ doing[t].latency \in Latencies
         /\ left[t] \subseteq LatencyAdds(doing[t].metric, doing[t].latency)
         /\ \A m \in Metrics, field \in Fields :
              add.counter = CounterOf(m, field)
                => doing[t].metric = m /\ add = Add(CounterOf(m, field), Share(t, field))
<1>1. PICK x : x = doing[t].metric
  OBVIOUS
<1>2. PICK y : y = doing[t].latency
  OBVIOUS
<1>3. x \in Metrics /\ y \in Latencies /\ add \in LatencyAdds(x, y)
  BY <1>1, <1>2 DEF Doing
<1>4. y \in Nat
  BY <1>3, MetricsAssumption
<1>5. \/ add = Add(Total(x), 1)
      \/ add = Add(Sum(x), y)
      \/ add = Add(Count(x), 1)
  BY <1>3 DEF LatencyAdds
<1>6. /\ add.counter \in Counters /\ add.amount \in Nat
      /\ add = Add(add.counter, add.amount)
  BY <1>3, <1>4, <1>5 DEF Add, Counters
<1>7. ASSUME NEW m \in Metrics, NEW field \in Fields, add.counter = CounterOf(m, field)
      PROVE  x = m /\ add = Add(CounterOf(m, field), Share(t, field))
  <2>1. add.counter # Total(x)
    BY <1>3, <1>7, CountersApart
  <2>2. CASE add = Add(Sum(x), y)
    <3>1. add.counter = CounterOf(x, "sum")
      BY <2>2 DEF Add, CounterOf
    <3>2. x = m /\ field = "sum"
      BY <1>3, <1>7, <3>1, CountersApart DEF Fields
    <3>3. Share(t, field) = y
      BY <1>2, <3>2 DEF Share
    <3> QED BY <2>2, <3>2, <3>3 DEF CounterOf
  <2>3. CASE add = Add(Count(x), 1)
    <3>1. add.counter = CounterOf(x, "n")
      BY <2>3 DEF Add, CounterOf
    <3>2. x = m /\ field = "n"
      BY <1>3, <1>7, <3>1, CountersApart DEF Fields
    <3>3. Share(t, field) = 1
      BY <3>2 DEF Share
    <3> QED BY <2>3, <3>2, <3>3 DEF CounterOf
  <2>4. CASE add = Add(Total(x), 1)
    BY <2>1, <2>4 DEF Add
  <2> QED BY <1>5, <2>2, <2>3, <2>4
<1> QED BY <1>1, <1>2, <1>3, <1>6, <1>7 DEF Doing

(* What a step of t does to the book of a field. *)
LEMMA BookMoves ==
  ASSUME Shapes, Shapes', NEW t \in Recorders, NEW m, NEW field \in Fields,
         \A u \in Recorders : u # t => left'[u] = left[u] /\ doing'[u] = doing[u],
         Book(m, field), begun[m][field] \in Nat,
         NEW owed \in Int, Owed(m, field)'[t] = Owed(m, field)[t] + owed,
         NEW open \in Int, Open(m, field)'[t] = Open(m, field)[t] + open,
         NEW added \in Int, NEW more \in Int,
         counter'[CounterOf(m, field)] = counter[CounterOf(m, field)] + added,
         counter'[CounterOf(m, field)] \in Nat,
         begun'[m][field] = begun[m][field] + more,
         added + owed = more, open <= more
  PROVE  Book(m, field)'
<1>1. ASSUME NEW u \in Recorders, u # t
      PROVE  Owed(m, field)'[u] = Owed(m, field)[u] /\ Open(m, field)'[u] = Open(m, field)[u]
  BY <1>1 DEF Owed, Open, Owes, Share
<1>2. \A u \in Recorders : Owed(m, field)[u] \in Int /\ Open(m, field)[u] \in Int
  BY SharesTyped
<1>3. IsFiniteSet(Recorders)
  BY MetricsAssumption
<1>4. SumOver(Owed(m, field)', Recorders) = SumOver(Owed(m, field), Recorders) + owed
  BY <1>1, <1>2, <1>3, SumChanges
<1>5. SumOver(Open(m, field)', Recorders) = SumOver(Open(m, field), Recorders) + open
  BY <1>1, <1>2, <1>3, SumChanges
<1>6. PICK x \in Nat : x = SumOver(Owed(m, field), Recorders)
  BY SharesTyped
<1>7. PICK y \in Nat : y = SumOver(Open(m, field), Recorders)
  BY SharesTyped
<1>8. PICK c \in Nat : c = counter[CounterOf(m, field)]
  BY DEF Book
<1>9. PICK b \in Nat : b = begun[m][field]
  OBVIOUS
<1>10. c + x = b /\ y <= b
  BY <1>6, <1>7, <1>8, <1>9 DEF Book
<1>11. (c + added) + (x + owed) = b + more /\ y + open <= b + more
  BY <1>10
<1>12. /\ counter'[CounterOf(m, field)] + SumOver(Owed(m, field)', Recorders) = begun'[m][field]
       /\ SumOver(Open(m, field)', Recorders) <= begun'[m][field]
  BY <1>4, <1>5, <1>6, <1>7, <1>8, <1>9, <1>11
<1>13. /\ SumOver(Owed(m, field), Recorders)' = SumOver(Owed(m, field)', Recorders)
       /\ SumOver(Open(m, field), Recorders)' = SumOver(Open(m, field)', Recorders)
  BY DEF SumOver, MapThenSumSet, MapThenFoldSet, Owed, Open, Owes, Share
<1> QED BY <1>12, <1>13 DEF Book

LEMMA RecordLatencyBooks ==
  ASSUME Shapes, Shapes', Threads, Books, NEW t \in Recorders, NEW m \in Metrics,
         NEW latency \in Latencies, RecordLatency(t, m, latency)
  PROVE  Books'
<1>1. /\ left[t] = {} /\ doing[t].metric \notin Metrics
      /\ left'[t] = LatencyAdds(m, latency)
      /\ doing'[t] = [metric |-> m, latency |-> latency]
      /\ \A u \in Recorders : u # t => left'[u] = left[u] /\ doing'[u] = doing[u]
      /\ counter' = counter
  <2>1. doing[t] = NoCall
    BY DEF RecordLatency, Threads, Doing
  <2> QED BY <2>1 DEF RecordLatency, Shapes, NoCall, Metrics
<1>2. latency \in Nat
  BY MetricsAssumption
<1>3. begun' = [begun EXCEPT ![m] = [n |-> @.n + 1, sum |-> @.sum + latency]]
  BY DEF RecordLatency
<1> SUFFICES ASSUME NEW x \in Metrics, NEW field \in Fields
             PROVE  Book(x, field)'
  BY DEF Books
<1>4. Book(x, field) /\ begun[x][field] \in Nat /\ counter[CounterOf(x, field)] \in Nat
  <2>1. begun[x].n \in Nat /\ begun[x].sum \in Nat
    BY DEF Shapes
  <2>2. Book(x, field)
    BY DEF Books
  <2>3. begun[x][field] \in Nat
    BY <2>1 DEF Fields
  <2> QED BY <2>2, <2>3 DEF Book
<1>5. Open(x, field)[t] = 0 /\ Owed(x, field)[t] = 0
  BY <1>1 DEF Open, Owed, Owes
<1>6. PICK c \in Nat : c = counter[CounterOf(x, field)]
  BY <1>4
<1>7. counter'[CounterOf(x, field)] = c + 0
  BY <1>1, <1>6
<1>8. CASE x = m
  <2> DEFINE share == IF field = "n" THEN 1 ELSE latency
  <2>1. share \in Nat /\ Share(t, field)' = share
    BY <1>1, <1>2 DEF Share
  <2>2. Add(CounterOf(m, field), share) \in LatencyAdds(m, latency)
    BY DEF LatencyAdds, CounterOf, Fields
  <2>3. Owes(t, m, field)'
    BY <1>1, <2>1, <2>2 DEF Owes
  <2>4. Open(m, field)'[t] = share /\ Owed(m, field)'[t] = share
    BY <1>1, <2>1, <2>3 DEF Open, Owed
  <2>5. begun'[m][field] = begun[m][field] + share
    <3>1. begun'[m] = [n |-> begun[m].n + 1, sum |-> begun[m].sum + latency]
      BY <1>3 DEF Shapes
    <3> QED BY <3>1 DEF Fields
  <2> HIDE DEF share
  <2>6. /\ Owed(m, field)'[t] = Owed(m, field)[t] + share
        /\ Open(m, field)'[t] = Open(m, field)[t] + share
    BY <1>5, <1>8, <2>1, <2>4
  <2>7. 0 + share = share /\ share <= share /\ 0 \in Int /\ share \in Int
    BY <2>1
  <2>8. counter'[CounterOf(m, field)] = counter[CounterOf(m, field)] + 0
    BY <1>6, <1>7, <1>8
  <2>9. counter'[CounterOf(m, field)] \in Nat
    BY <1>7, <1>8
  <2> QED BY <1>1, <1>4, <1>8, <2>5, <2>6, <2>7, <2>8, <2>9, BookMoves
<1>9. CASE x # m
  <2>1. Open(x, field)'[t] = 0 /\ Owed(x, field)'[t] = 0
    BY <1>1, <1>9 DEF Open, Owed, Owes
  <2>2. begun'[x][field] = begun[x][field] + 0
    BY <1>3, <1>4, <1>9 DEF Shapes
  <2>3. /\ Owed(x, field)'[t] = Owed(x, field)[t] + 0
        /\ Open(x, field)'[t] = Open(x, field)[t] + 0
    BY <1>5, <2>1
  <2>4. 0 + 0 = 0 /\ 0 <= 0 /\ 0 \in Int
    OBVIOUS
  <2>5. counter'[CounterOf(x, field)] = counter[CounterOf(x, field)] + 0
    BY <1>6, <1>7
  <2>6. counter'[CounterOf(x, field)] \in Nat
    BY <1>7
  <2> QED BY <1>1, <1>4, <2>2, <2>3, <2>4, <2>5, <2>6, BookMoves
<1> QED BY <1>8, <1>9

(* A counter is between what is over and what was begun.                   *)
LEMMA BooksBound ==
  ASSUME Shapes, Books, NEW m \in Metrics, NEW field \in Fields
  PROVE  /\ counter[CounterOf(m, field)] \in Nat /\ begun[m][field] \in Nat
         /\ counter[CounterOf(m, field)] <= begun[m][field]
         /\ begun[m][field] - SumOver(Open(m, field), Recorders) \in Nat
         /\ begun[m][field] - SumOver(Open(m, field), Recorders)
              <= counter[CounterOf(m, field)]
<1>1. Book(m, field)
  BY DEF Books
<1>2. begun[m][field] \in Nat
  BY DEF Shapes, Fields
<1>3. PICK b \in Nat : b = begun[m][field]
  BY <1>2
<1>4. PICK c \in Nat : c = counter[CounterOf(m, field)]
  BY <1>1 DEF Book
<1>5. PICK x \in Nat : x = SumOver(Owed(m, field), Recorders)
  BY SharesTyped
<1>6. PICK y \in Nat : y = SumOver(Open(m, field), Recorders)
  BY SharesTyped
<1>7. x <= y
  <2>1. \A t \in Recorders : /\ Owed(m, field)[t] \in Int /\ Open(m, field)[t] \in Int
                             /\ Owed(m, field)[t] <= Open(m, field)[t]
    BY SharesTyped
  <2>2. SumOver(Owed(m, field), Recorders) <= SumOver(Open(m, field), Recorders)
    BY <2>1, MetricsAssumption, SumMonotone
  <2> QED BY <1>5, <1>6, <2>2
<1>8. c + x = b /\ y <= b
  BY <1>1, <1>3, <1>4, <1>5, <1>6 DEF Book
<1>9. c <= b /\ b - y \in Nat /\ b - y <= c
  BY <1>7, <1>8
<1> QED BY <1>3, <1>4, <1>6, <1>9

(* A share that is added makes the counter larger, as it does not wrap.    *)
LEMMA ShareFits ==
  ASSUME NEW L, Wide(L), Limits(L), Shapes, Books, NEW t \in Recorders,
         NEW m \in Metrics, NEW field \in Fields, Owes(t, m, field)
  PROVE  (counter[CounterOf(m, field)] + Share(t, field)) % Word
           = counter[CounterOf(m, field)] + Share(t, field)
<1>1. PICK c \in Nat : c = counter[CounterOf(m, field)]
  BY BooksBound
<1>2. PICK s \in Nat : s = Share(t, field)
  BY SharesTyped
<1>3. PICK sum \in Nat : sum = SumOver(Owed(m, field), Recorders)
  BY SharesTyped
<1>4. Cardinality({t}) * s <= sum
  <2>1. IsFiniteSet(Recorders) /\ {t} \in SUBSET Recorders
    BY MetricsAssumption
  <2>2. \A u \in Recorders : Owed(m, field)[u] \in Nat
    BY SharesTyped
  <2>3. \A u \in {t} : s <= Owed(m, field)[u]
    BY <1>2 DEF Owed
  <2> QED BY <1>3, <2>1, <2>2, <2>3, SumAtLeast
<1>5. Cardinality({t}) = 1
  BY FS_Singleton
<1>6. PICK b \in Nat : b = begun[m][field]
  BY BooksBound
<1>7. c + sum = b
  BY <1>1, <1>3, <1>6 DEF Books, Book
<1>8. b < Word
  BY <1>6, BegunFits
<1>9. (c + s) % Word = c + s
  BY <1>4, <1>5, <1>7, <1>8, MetricsAssumption
<1> QED BY <1>1, <1>2, <1>9

(* One addition moves a share from what is owed to the counter, and the    *)
(* last one ends the call.                                                 *)
LEMMA FetchAddBooks ==
  ASSUME NEW L, Wide(L), Limits(L), Shapes, Shapes', Threads, Books,
         NEW t \in Recorders, NEW add \in left[t], FetchAdd(t, add)
  PROVE  Books'
<1>1. /\ left'[t] = left[t] \ {add}
      /\ doing'[t] = IF left[t] = {add} THEN NoCall ELSE doing[t]
      /\ \A u \in Recorders : u # t => left'[u] = left[u] /\ doing'[u] = doing[u]
      /\ counter' = [counter EXCEPT ![add.counter] = (@ + add.amount) % Word]
      /\ begun' = begun
  BY DEF FetchAdd, Shapes
<1>2. NoCall.metric \notin Metrics
  BY DEF NoCall, Metrics
<1>3. Doing(t)
  BY DEF Threads
<1> SUFFICES ASSUME NEW m \in Metrics, NEW field \in Fields
             PROVE  Book(m, field)'
  BY DEF Books
<1>4. Book(m, field) /\ begun[m][field] \in Nat /\ begun[m][field] < Word
  BY BegunFits DEF Books
<1>5. PICK c \in Nat : c = counter[CounterOf(m, field)]
  BY <1>4 DEF Book
<1>6. PICK s \in Nat : s = Share(t, field)
  BY SharesTyped
<1>7. PICK o \in {0, s} : o = Open(m, field)[t]
  BY <1>6 DEF Open
<1>8. Open(m, field)'[t] \in {0, o}
  BY <1>1, <1>2, <1>6, <1>7 DEF Open, Share
<1>9. PICK e \in Int : Open(m, field)'[t] = Open(m, field)[t] + e /\ e <= 0
  <2>1. o \in Nat
    BY <1>6, <1>7
  <2>2. CASE Open(m, field)'[t] = 0
    <3>1. 0 = o + (0 - o) /\ 0 - o \in Int /\ 0 - o <= 0
      BY <2>1
    <3> QED BY <1>7, <2>2, <3>1
  <2>3. CASE Open(m, field)'[t] = o
    BY <1>7, <2>1, <2>3
  <2> QED BY <1>8, <2>2, <2>3
<1>10. begun'[m][field] = begun[m][field] + 0 /\ 0 \in Int
  BY <1>1, <1>4
<1>11. CASE add.counter = CounterOf(m, field)
  <2>1. Owes(t, m, field) /\ add = Add(CounterOf(m, field), Share(t, field))
    BY <1>3, <1>11, AddIsShare DEF Owes
  <2>2. add.amount = s
    BY <1>6, <2>1 DEF Add
  <2>3. ~Owes(t, m, field)'
    <3>1. CASE left[t] = {add}
      BY <1>1, <1>2, <3>1 DEF Owes
    <3>2. CASE left[t] # {add}
      BY <1>1, <2>1, <3>2 DEF Owes, Share
    <3> QED BY <3>1, <3>2
  <2>4. Owed(m, field)[t] = s /\ Owed(m, field)'[t] = 0
    BY <1>6, <2>1, <2>3 DEF Owed
  <2>5. (c + s) % Word = c + s
    BY <1>5, <1>6, <2>1, ShareFits
  <2>6. counter'[CounterOf(m, field)] = c + s
    <3>1. CounterOf(m, field) \in Counters
      BY CountersApart
    <3> QED BY <1>1, <1>5, <1>11, <2>2, <2>5, <3>1 DEF Shapes
  <2>7. /\ Owed(m, field)'[t] = Owed(m, field)[t] + (0 - s)
        /\ s + (0 - s) = 0 /\ 0 - s \in Int /\ s \in Int
    BY <2>4
  <2>8. /\ counter'[CounterOf(m, field)] = counter[CounterOf(m, field)] + s
         /\ counter'[CounterOf(m, field)] \in Nat
    BY <1>5, <2>6
  <2> QED BY <1>1, <1>4, <1>9, <1>10, <2>7, <2>8, BookMoves
<1>12. CASE add.counter # CounterOf(m, field)
  <2>1. Owes(t, m, field) => Owes(t, m, field)' /\ Share(t, field)' = Share(t, field)
    <3> SUFFICES ASSUME Owes(t, m, field)
                 PROVE  Owes(t, m, field)' /\ Share(t, field)' = Share(t, field)
      OBVIOUS
    <3>1. Add(CounterOf(m, field), Share(t, field)) # add
      BY <1>12 DEF Add
    <3>2. left[t] # {add}
      BY <3>1 DEF Owes
    <3> QED BY <1>1, <3>1, <3>2 DEF Owes, Share
  <2>2. Owes(t, m, field)' => Owes(t, m, field)
    BY <1>1, <1>2 DEF Owes, Share
  <2>3. Owed(m, field)'[t] = Owed(m, field)[t]
    BY <2>1, <2>2 DEF Owed
  <2>4. PICK w \in Nat : w = Owed(m, field)[t]
    BY SharesTyped
  <2>5. Owed(m, field)'[t] = Owed(m, field)[t] + 0 /\ 0 + 0 = 0
    BY <2>3, <2>4
  <2>6. counter'[CounterOf(m, field)] = c
    BY <1>1, <1>5, <1>12, CountersApart DEF Shapes
  <2>7. /\ counter'[CounterOf(m, field)] = counter[CounterOf(m, field)] + 0
        /\ counter'[CounterOf(m, field)] \in Nat
    BY <1>5, <2>6
  <2> QED BY <1>1, <1>4, <1>9, <1>10, <2>5, <2>7, BookMoves
<1> QED BY <1>11, <1>12

(* The other steps leave the books alone. *)
LEMMA OtherBooks ==
  ASSUME Books, UNCHANGED <<doing, left, begun>>,
         \A m \in Metrics, field \in Fields :
           counter'[CounterOf(m, field)] = counter[CounterOf(m, field)]
  PROVE  Books'
<1> SUFFICES ASSUME NEW m \in Metrics, NEW field \in Fields
             PROVE  Book(m, field)'
  BY DEF Books
<1>1. Owed(m, field)' = Owed(m, field) /\ Open(m, field)' = Open(m, field)
  BY DEF Owed, Open, Owes, Share
<1>2. /\ SumOver(Owed(m, field), Recorders)' = SumOver(Owed(m, field), Recorders)
      /\ SumOver(Open(m, field), Recorders)' = SumOver(Open(m, field), Recorders)
  BY <1>1 DEF SumOver, MapThenSumSet, MapThenFoldSet
<1> QED BY <1>2 DEF Books, Book

-----------------------------------------------------------------------------
(* The steps, by what they change.                                         *)
Events == {"migrations_total", "errors_total", "rebalances_total"}

ReportSteps ==
  /\ UNCHANGED <<counter, doing, left, begun>>
  /\ (\E m \in Metrics : Ask(m)) \/ LoadCount \/ LoadSum \/ Answer

MetricsSteps ==
  \/ \E t \in Recorders, m \in Metrics, latency \in Latencies : RecordLatency(t, m, latency)
  \/ \E t \in Recorders : \E add \in left[t] : FetchAdd(t, add)
  \/ \E t \in Recorders, c \in Events, amount \in Nat : RecordEvent(t, c, amount)
  \/ ReportSteps
  \/ UNCHANGED metricsVars

LEMMA MetricsNextSteps == ASSUME [MetricsNext]_metricsVars PROVE MetricsSteps
<1>1. ASSUME NEW t \in Recorders, NEW c \in {"migrations_total", "errors_total"},
             RecordEvent(t, c, 1)
      PROVE  MetricsSteps
  BY <1>1 DEF MetricsSteps, Events
<1>2. ASSUME NEW t \in Recorders, NEW amount \in Latencies,
             RecordEvent(t, "rebalances_total", amount)
      PROVE  MetricsSteps
  <2>1. amount \in Nat /\ "rebalances_total" \in Events
    BY MetricsAssumption DEF Events
  <2> QED BY <1>2, <2>1 DEF MetricsSteps
<1>3. ASSUME (\E m \in Metrics : Ask(m)) \/ LoadCount \/ LoadSum \/ Answer
      PROVE  MetricsSteps
  BY <1>3 DEF MetricsSteps, ReportSteps, Ask, LoadCount, LoadSum, Answer
<1> QED BY <1>1, <1>2, <1>3 DEF MetricsNext, MetricsSteps

LEMMA ShapesStep ==
  ASSUME Shapes, MetricsSteps
  PROVE  Shapes'
<1>1. ASSUME NEW t \in Recorders, NEW m \in Metrics, NEW latency \in Latencies,
             RecordLatency(t, m, latency)
      PROVE  Shapes'
  <2>1. latency \in Nat
    BY MetricsAssumption
  <2>2. [metric |-> m, latency |-> latency] \in [metric : Metrics \cup {"none"}, latency : Nat]
    BY <2>1
  <2>3. doing' \in [Recorders -> [metric : Metrics \cup {"none"}, latency : Nat]]
    BY <1>1, <2>2 DEF RecordLatency, Shapes
  <2>4. begun[m].n \in Nat /\ begun[m].sum \in Nat
    BY DEF Shapes
  <2>5. begun[m].n + 1 \in Nat /\ begun[m].sum + latency \in Nat
    BY <2>1, <2>4
  <2>6. begun' \in [Metrics -> [n : Nat, sum : Nat]]
    BY <1>1, <2>5 DEF RecordLatency, Shapes
  <2>7. counter' = counter /\ left' = [left EXCEPT ![t] = LatencyAdds(m, latency)]
    BY <1>1 DEF RecordLatency
  <2> QED BY <2>3, <2>6, <2>7 DEF Shapes
<1>2. ASSUME NEW t \in Recorders, NEW add, FetchAdd(t, add) PROVE Shapes'
  <2>1. NoCall \in [metric : Metrics \cup {"none"}, latency : Nat]
    BY DEF NoCall
  <2>2. doing' \in [Recorders -> [metric : Metrics \cup {"none"}, latency : Nat]]
    BY <1>2, <2>1 DEF FetchAdd, Shapes
  <2>3. begun' = begun /\ counter' = [c \in Counters |-> counter'[c]]
        /\ left' = [u \in Recorders |-> left'[u]]
    BY <1>2 DEF FetchAdd, Shapes
  <2> QED BY <2>2, <2>3 DEF Shapes
<1>3. ASSUME NEW t, NEW c, NEW amount, RecordEvent(t, c, amount) PROVE Shapes'
  BY <1>3 DEF RecordEvent, Shapes
<1>4. CASE ReportSteps \/ UNCHANGED metricsVars
  BY <1>4 DEF ReportSteps, metricsVars, Shapes
<1> QED BY <1>1, <1>2, <1>3, <1>4 DEF MetricsSteps

LEMMA ThreadsStep ==
  ASSUME Shapes, Threads, MetricsSteps
  PROVE  Threads'
<1>1. ASSUME NEW t \in Recorders, NEW m \in Metrics, NEW latency \in Latencies,
             RecordLatency(t, m, latency)
      PROVE  Threads'
  <2>1. /\ left'[t] = LatencyAdds(m, latency)
        /\ doing'[t] = [metric |-> m, latency |-> latency]
        /\ \A u \in Recorders : u # t => left'[u] = left[u] /\ doing'[u] = doing[u]
    BY <1>1 DEF RecordLatency, Shapes
  <2>2. LatencyAdds(m, latency) # {}
    BY DEF LatencyAdds
  <2>3. Doing(t)'
    BY <2>1, <2>2 DEF Doing
  <2> QED BY <2>1, <2>3 DEF Threads, Doing
<1>2. ASSUME NEW t \in Recorders, NEW add \in left[t], FetchAdd(t, add) PROVE Threads'
  <2>1. /\ left'[t] = left[t] \ {add}
        /\ doing'[t] = IF left[t] = {add} THEN NoCall ELSE doing[t]
        /\ \A u \in Recorders : u # t => left'[u] = left[u] /\ doing'[u] = doing[u]
    BY <1>2 DEF FetchAdd, Shapes
  <2>2. Doing(t)
    BY DEF Threads
  <2>3. Doing(t)'
    <3>1. CASE left[t] = {add}
      BY <2>1, <3>1 DEF Doing
    <3>2. CASE left[t] # {add}
      BY <2>1, <2>2, <3>2 DEF Doing
    <3> QED BY <3>1, <3>2
  <2> QED BY <2>1, <2>3 DEF Threads, Doing
<1>3. CASE left' = left /\ doing' = doing
  BY <1>3 DEF Threads, Doing
<1>4. ASSUME NEW t, NEW c, NEW amount, RecordEvent(t, c, amount)
      PROVE  left' = left /\ doing' = doing
  BY <1>4 DEF RecordEvent
<1> QED BY <1>1, <1>2, <1>3, <1>4 DEF MetricsSteps, ReportSteps, metricsVars

LEMMA LimitsStep ==
  ASSUME NEW L, Wide(L), Shapes, Limits(L), MetricsSteps
  PROVE  Limits(L)'
<1>1. ASSUME NEW t \in Recorders, NEW m \in Metrics, NEW latency \in Latencies,
             RecordLatency(t, m, latency)
      PROVE  Limits(L)'
  <2>1. latency \in Nat /\ latency <= L /\ L \in Nat /\ MaxCalls \in Nat
    BY MetricsAssumption DEF Wide
  <2>2. \A x \in Metrics : begun[x].n \in Nat /\ begun[x].sum \in Nat
    BY DEF Shapes
  <2>3. /\ begun'[m].n = begun[m].n + 1 /\ begun'[m].sum = begun[m].sum + latency
        /\ \A x \in Metrics : x # m => begun'[x] = begun[x]
    BY <1>1 DEF RecordLatency, Shapes
  <2>4. begun'["gets"].n + begun'["healthy_gets"].n <= MaxCalls
    <3>1. begun["gets"].n + begun["healthy_gets"].n < MaxCalls
      BY <1>1 DEF RecordLatency, CallsBegun
    <3>2. PICK y \in Nat : y = begun["gets"].n
      BY <2>2 DEF Metrics
    <3>3. PICK z \in Nat : z = begun["healthy_gets"].n
      BY <2>2 DEF Metrics
    <3>4. \/ begun'["gets"].n = y + 1 /\ begun'["healthy_gets"].n = z
          \/ begun'["gets"].n = y /\ begun'["healthy_gets"].n = z + 1
      BY <2>3, <3>2, <3>3 DEF Metrics
    <3> QED BY <2>1, <3>1, <3>2, <3>3, <3>4
  <2>5. begun'[m].sum <= begun'[m].n * L
    <3>1. PICK x \in Nat : x = begun[m].n
      BY <2>2
    <3>2. PICK s \in Nat : s = begun[m].sum
      BY <2>2
    <3>3. s <= x * L
      BY <3>1, <3>2 DEF Limits
    <3>4. (x + 1) * L = x * L + L /\ x * L \in Nat
      BY <2>1
    <3>5. s + latency <= (x + 1) * L
      BY <2>1, <3>3, <3>4
    <3> QED BY <2>3, <3>1, <3>2, <3>5
  <2>6. \A x \in Metrics : begun'[x].sum <= begun'[x].n * L
    BY <2>3, <2>5 DEF Limits
  <2> QED BY <2>4, <2>6 DEF Limits
<1>2. CASE begun' = begun
  BY <1>2 DEF Limits
<1>3. ASSUME NEW t, NEW c, NEW amount, RecordEvent(t, c, amount) PROVE begun' = begun
  BY <1>3 DEF RecordEvent
<1>4. ASSUME NEW t, NEW add, FetchAdd(t, add) PROVE begun' = begun
  BY <1>4 DEF FetchAdd
<1> QED BY <1>1, <1>2, <1>3, <1>4 DEF MetricsSteps, ReportSteps, metricsVars

LEMMA RecordEventElsewhere ==
  ASSUME Shapes, NEW t, NEW c \in Events, NEW amount, RecordEvent(t, c, amount),
         NEW m \in Metrics, NEW field \in Fields
  PROVE  counter'[CounterOf(m, field)] = counter[CounterOf(m, field)]
BY CountersApart DEF RecordEvent, Shapes, Events

LEMMA BooksStep ==
  ASSUME NEW L, Wide(L), Limits(L), Shapes, Threads, Books, MetricsSteps
  PROVE  Books'
<1>1. Shapes'
  BY ShapesStep
<1>2. ASSUME NEW t \in Recorders, NEW c \in Events, NEW amount, RecordEvent(t, c, amount)
      PROVE  Books'
  <2>1. UNCHANGED <<doing, left, begun>>
    BY <1>2 DEF RecordEvent
  <2> QED BY <1>2, <2>1, RecordEventElsewhere, OtherBooks
<1>3. CASE ReportSteps \/ UNCHANGED metricsVars
  BY <1>3, OtherBooks DEF ReportSteps, metricsVars
<1> QED BY <1>1, <1>2, <1>3, RecordLatencyBooks, FetchAddBooks DEF MetricsSteps

-----------------------------------------------------------------------------
(* Counters and what was begun only grow.                                  *)
LEMMA BooksGrow ==
  ASSUME NEW L, Wide(L), Limits(L), Shapes, Threads, Books, MetricsSteps,
         NEW m \in Metrics, NEW field \in Fields
  PROVE  /\ counter[CounterOf(m, field)] <= counter'[CounterOf(m, field)]
         /\ begun[m][field] <= begun'[m][field]
<1>1. PICK c \in Nat : c = counter[CounterOf(m, field)]
  BY BooksBound
<1>2. PICK b \in Nat : b = begun[m][field]
  BY BooksBound
<1>3. c <= c /\ b <= b
  OBVIOUS
<1>4. ASSUME NEW t \in Recorders, NEW x \in Metrics, NEW latency \in Latencies,
             RecordLatency(t, x, latency)
      PROVE  counter'[CounterOf(m, field)] = c /\ b <= begun'[m][field]
  <2>1. counter' = counter
    BY <1>4 DEF RecordLatency
  <2>2. begun'[m] = begun[m]
        \/ begun'[m] = [n |-> begun[m].n + 1, sum |-> begun[m].sum + latency]
    BY <1>4 DEF RecordLatency, Shapes
  <2>3. latency \in Nat
    BY MetricsAssumption
  <2>4. \/ begun'[m][field] = b \/ begun'[m][field] = b + 1
        \/ begun'[m][field] = b + latency
    BY <1>2, <2>2 DEF Fields
  <2>5. b <= begun'[m][field]
    BY <2>3, <2>4
  <2> QED BY <1>1, <2>1, <2>5
<1>5. ASSUME NEW t \in Recorders, NEW add \in left[t], FetchAdd(t, add)
      PROVE  c <= counter'[CounterOf(m, field)] /\ begun'[m][field] = b
  <2>1. begun' = begun
    BY <1>5 DEF FetchAdd
  <2>2. counter' = [counter EXCEPT ![add.counter] = (@ + add.amount) % Word]
    BY <1>5 DEF FetchAdd
  <2>3. CounterOf(m, field) \in Counters
    BY CountersApart
  <2>4. CASE add.counter # CounterOf(m, field)
    <3>1. counter'[CounterOf(m, field)] = c
      BY <1>1, <2>2, <2>3, <2>4 DEF Shapes
    <3> QED BY <1>2, <1>3, <2>1, <3>1
  <2>5. CASE add.counter = CounterOf(m, field)
    <3>1. Doing(t)
      BY DEF Threads
    <3>2. doing[t].metric = m /\ add = Add(CounterOf(m, field), Share(t, field))
      BY <2>5, <3>1, AddIsShare
    <3>3. add.amount = Share(t, field) /\ Owes(t, m, field)
      BY <3>2 DEF Add, Owes
    <3>4. PICK s \in Nat : s = Share(t, field)
      BY SharesTyped
    <3>5. counter'[CounterOf(m, field)] = (c + s) % Word
      BY <1>1, <2>2, <2>3, <2>5, <3>3, <3>4 DEF Shapes
    <3>6. (c + s) % Word = c + s
      BY <1>1, <3>3, <3>4, ShareFits
    <3>7. c <= c + s
      OBVIOUS
    <3> QED BY <1>2, <2>1, <3>5, <3>6, <3>7
  <2> QED BY <2>4, <2>5
<1>6. ASSUME NEW t \in Recorders, NEW e \in Events, NEW amount \in Nat,
             RecordEvent(t, e, amount)
      PROVE  counter'[CounterOf(m, field)] = c /\ begun'[m][field] = b
  <2>1. begun' = begun
    BY <1>6 DEF RecordEvent
  <2> QED BY <1>1, <1>2, <1>6, <2>1, RecordEventElsewhere
<1>7. CASE ReportSteps \/ UNCHANGED metricsVars
  BY <1>1, <1>2, <1>3, <1>7 DEF ReportSteps, metricsVars
<1> QED BY <1>1, <1>2, <1>3, <1>4, <1>5, <1>6, <1>7 DEF MetricsSteps

(* The calls that had made all their additions are what was begun less     *)
(* what is under way.                                                      *)
LEMMA FinishedIs ==
  ASSUME Shapes, Books, NEW m \in Metrics
  PROVE  /\ Finished(m) = [n |-> Finished(m).n, sum |-> Finished(m).sum]
         /\ \A field \in Fields : Finished(m)[field] \in Nat
              /\ Finished(m)[field] <= counter[CounterOf(m, field)]
<1> DEFINE open == {t \in Recorders : doing[t].metric = m}
<1>1. IsFiniteSet(Recorders) /\ open \in SUBSET Recorders
  BY MetricsAssumption
<1>2. Finished(m) = [n   |-> begun[m].n - Cardinality(open),
                     sum |-> begun[m].sum - SumOver(Open(m, "sum"), Recorders)]
  <2> DEFINE latency == [t \in Recorders |-> IF t \in open THEN doing[t].latency ELSE 0]
  <2>1. latency = Open(m, "sum")
    BY DEF Open, Share
  <2>2. Finished(m) = [n   |-> begun[m].n - Cardinality(open),
                       sum |-> begun[m].sum - SumOver(latency, Recorders)]
    BY Zenon DEF Finished, SumOver
  <2> HIDE DEF latency, open
  <2> QED BY <2>1, <2>2
<1>3. Cardinality(open) = SumOver(Open(m, "n"), Recorders)
  <2>1. \A t \in Recorders : Open(m, "n")[t] = IF t \in open THEN 1 ELSE 0
    BY DEF Open, Share
  <2> HIDE DEF open
  <2> QED BY <1>1, <2>1, SumCounts
<1> HIDE DEF open
<1>4. \A field \in Fields :
        Finished(m)[field] = begun[m][field] - SumOver(Open(m, field), Recorders)
  BY <1>2, <1>3 DEF Fields
<1> QED BY <1>2, <1>4, BooksBound

-----------------------------------------------------------------------------
(* What a reader has loaded, or will load, is between the calls that were  *)
(* over when it began and the calls that have begun.                       *)
Reports ==
  [phase : {"idle", "reading"}, metric : Metrics \cup {"none"},
   floor : [n : Int, sum : Int], unread : SUBSET {"count", "sum"},
   count : Int, sum : Int]

Loaded(field) == IF field = "n" THEN report.count ELSE report.sum

Unread(field) == (IF field = "n" THEN "count" ELSE "sum") \in report.unread

Within(field) ==
  /\ report.floor[field] \in Nat
  /\ IF Unread(field)
       THEN report.floor[field] <= counter[CounterOf(report.metric, field)]
       ELSE /\ Loaded(field) \in Nat
            /\ report.floor[field] <= Loaded(field)
            /\ Loaded(field) <= begun[report.metric][field]

Reading ==
  /\ report.phase = "reading"
  /\ report.metric \in Metrics
  /\ \A field \in Fields : Within(field)

ReportInv ==
  /\ report \in Reports
  /\ Reading \/ (report.phase = "idle" /\ report.unread = {})

LEMMA ReportStands ==
  ASSUME NEW L, Wide(L), Limits(L), Shapes, Threads, Books, MetricsSteps, ReportInv,
         report' = report
  PROVE  ReportInv'
<1>1. ASSUME Reading PROVE Reading'
  <2> SUFFICES ASSUME NEW field \in Fields PROVE Within(field)'
    BY <1>1 DEF Reading
  <2>1. report.metric \in Metrics /\ Within(field)
    BY <1>1 DEF Reading
  <2>2. PICK m \in Metrics : m = report.metric
    BY <2>1
  <2>3. PICK c \in Nat : c = counter[CounterOf(m, field)]
    BY BooksBound
  <2>4. PICK b \in Nat : b = begun[m][field]
    BY BooksBound
  <2>5. Shapes' /\ Books'
    BY ShapesStep, BooksStep
  <2>6. PICK d \in Nat : d = counter'[CounterOf(m, field)]
    BY <2>5 DEF Book, Books
  <2>7. PICK e \in Nat : e = begun'[m][field]
    BY <2>5 DEF Shapes, Fields
  <2>8. c <= d /\ b <= e
    BY <2>3, <2>4, <2>6, <2>7, BooksGrow
  <2>9. PICK low \in Nat : low = report.floor[field]
    BY <2>1 DEF Within
  <2>10. CASE Unread(field)
    <3>1. low <= c
      BY <2>1, <2>2, <2>3, <2>9, <2>10 DEF Within
    <3>2. low <= d
      BY <2>8, <3>1
    <3>3. Unread(field)'
      BY <2>10 DEF Unread
    <3> QED BY <2>2, <2>6, <2>9, <3>2, <3>3 DEF Within
  <2>11. CASE ~Unread(field)
    <3>1. PICK v \in Nat : v = Loaded(field)
      BY <2>1, <2>11 DEF Within
    <3>2. low <= v /\ v <= b
      BY <2>1, <2>2, <2>4, <2>9, <2>11, <3>1 DEF Within
    <3>3. v <= e
      BY <2>8, <3>2
    <3>4. ~Unread(field)' /\ Loaded(field)' = v
      BY <2>11, <3>1 DEF Unread, Loaded
    <3> QED BY <2>2, <2>7, <2>9, <3>1, <3>2, <3>3, <3>4 DEF Within
  <2> QED BY <2>10, <2>11
<1> QED BY <1>1 DEF ReportInv

(* What the reader of a field finds once it has loaded it. *)
LEMMA LoadsWithin ==
  ASSUME Shapes, Books, Reading, NEW field \in Fields,
         ~Unread(field)', report'.metric = report.metric, report'.floor = report.floor,
         Loaded(field)' = counter[CounterOf(report.metric, field)], Unread(field),
         counter' = counter, begun' = begun
  PROVE  Within(field)'
<1>1. PICK m \in Metrics : m = report.metric
  BY DEF Reading
<1>2. PICK c \in Nat : c = counter[CounterOf(m, field)]
  BY BooksBound
<1>3. c <= begun[m][field]
  BY <1>2, BooksBound
<1>4. report.floor[field] \in Nat /\ report.floor[field] <= c
  BY <1>1, <1>2 DEF Reading, Within
<1> QED BY <1>1, <1>2, <1>3, <1>4 DEF Within

LEMMA StaysWithin ==
  ASSUME Reading, NEW field \in Fields, Unread(field)' <=> Unread(field),
         Loaded(field)' = Loaded(field),
         report'.metric = report.metric, report'.floor = report.floor,
         counter' = counter, begun' = begun
  PROVE  Within(field)'
BY DEF Reading, Within

LEMMA AskStep ==
  ASSUME Shapes, Books, NEW m \in Metrics, Ask(m)
  PROVE  ReportInv'
<1>1. report' = [phase |-> "reading", metric |-> m, floor |-> Finished(m),
                 unread |-> {"count", "sum"}, count |-> 0, sum |-> 0]
  BY DEF Ask, NoReport
<1>2. Finished(m) \in [n : Int, sum : Int]
  <2>1. Finished(m)["n"] \in Int /\ Finished(m)["sum"] \in Int
    BY FinishedIs DEF Fields
  <2>2. Finished(m) = [n |-> Finished(m).n, sum |-> Finished(m).sum]
    BY FinishedIs
  <2> QED BY <2>1, <2>2
<1>3. report' \in Reports
  BY <1>1, <1>2 DEF Reports
<1>4. counter' = counter
  BY DEF Ask
<1>5. ASSUME NEW field \in Fields PROVE Within(field)'
  <2>1. Unread(field)'
    BY <1>1 DEF Unread
  <2>2. report'.metric = m /\ report'.floor = Finished(m)
    BY <1>1
  <2> QED BY <1>4, <2>1, <2>2, FinishedIs DEF Within
<1>6. Reading'
  BY <1>1, <1>5 DEF Reading
<1> QED BY <1>3, <1>6 DEF ReportInv, Reports

LEMMA LoadCountStep ==
  ASSUME Shapes, Books, ReportInv, LoadCount
  PROVE  ReportInv'
<1>1. Reading
  BY DEF ReportInv, LoadCount
<1>2. PICK m \in Metrics : m = report.metric
  BY <1>1 DEF Reading
<1>3. /\ report' = [report EXCEPT !.count = counter[CounterOf(m, "n")],
                                  !.unread = @ \ {"count"}]
      /\ "count" \in report.unread /\ counter' = counter /\ begun' = begun
  BY <1>2 DEF LoadCount, CounterOf
<1>4. counter[CounterOf(m, "n")] \in Nat
  BY BooksBound DEF Fields
<1>5. report' \in Reports
  <2>1. report \in Reports /\ report.unread \ {"count"} \in SUBSET {"count", "sum"}
    BY DEF ReportInv, Reports
  <2>2. PICK u \in SUBSET {"count", "sum"} : u = report.unread \ {"count"}
    BY <2>1
  <2>3. PICK c \in Int : c = counter[CounterOf(m, "n")]
    BY <1>4
  <2>4. report' = [report EXCEPT !.count = c, !.unread = u]
    BY <1>3, <2>2, <2>3
  <2> QED BY <2>1, <2>4 DEF Reports
<1>6. /\ report'.phase = report.phase /\ report'.metric = report.metric
      /\ report'.floor = report.floor /\ report'.sum = report.sum
      /\ report'.count = counter[CounterOf(m, "n")]
      /\ report'.unread = report.unread \ {"count"}
  BY <1>3 DEF ReportInv, Reports
<1>7. Within("n")'
  <2>1. "n" \in Fields
    BY DEF Fields
  <2>2. Unread("n") /\ ~Unread("n")'
    BY <1>3, <1>6 DEF Unread
  <2>3. Loaded("n")' = counter[CounterOf(report.metric, "n")]
    BY <1>2, <1>6 DEF Loaded
  <2> QED BY <1>1, <1>3, <1>6, <2>1, <2>2, <2>3, LoadsWithin
<1>8. Within("sum")'
  <2>1. "sum" \in Fields
    BY DEF Fields
  <2>2. Unread("sum")' <=> Unread("sum")
    BY <1>6 DEF Unread
  <2>3. Loaded("sum")' = Loaded("sum")
    BY <1>6 DEF Loaded
  <2> QED BY <1>1, <1>3, <1>6, <2>1, <2>2, <2>3, StaysWithin
<1>9. Reading'
  BY <1>1, <1>6, <1>7, <1>8 DEF Reading, Fields
<1> QED BY <1>5, <1>9 DEF ReportInv

LEMMA LoadSumStep ==
  ASSUME Shapes, Books, ReportInv, LoadSum
  PROVE  ReportInv'
<1>1. Reading
  BY DEF ReportInv, LoadSum
<1>2. PICK m \in Metrics : m = report.metric
  BY <1>1 DEF Reading
<1>3. /\ report' = [report EXCEPT !.sum = counter[CounterOf(m, "sum")],
                                  !.unread = @ \ {"sum"}]
      /\ "sum" \in report.unread /\ counter' = counter /\ begun' = begun
  BY <1>2 DEF LoadSum, CounterOf
<1>4. counter[CounterOf(m, "sum")] \in Nat
  BY BooksBound DEF Fields
<1>5. report' \in Reports
  <2>1. report \in Reports /\ report.unread \ {"sum"} \in SUBSET {"count", "sum"}
    BY DEF ReportInv, Reports
  <2>2. PICK u \in SUBSET {"count", "sum"} : u = report.unread \ {"sum"}
    BY <2>1
  <2>3. PICK c \in Int : c = counter[CounterOf(m, "sum")]
    BY <1>4
  <2>4. report' = [report EXCEPT !.sum = c, !.unread = u]
    BY <1>3, <2>2, <2>3
  <2> QED BY <2>1, <2>4 DEF Reports
<1>6. /\ report'.phase = report.phase /\ report'.metric = report.metric
      /\ report'.floor = report.floor /\ report'.count = report.count
      /\ report'.sum = counter[CounterOf(m, "sum")]
      /\ report'.unread = report.unread \ {"sum"}
  BY <1>3 DEF ReportInv, Reports
<1>7. Within("sum")'
  <2>1. "sum" \in Fields
    BY DEF Fields
  <2>2. Unread("sum") /\ ~Unread("sum")'
    BY <1>3, <1>6 DEF Unread
  <2>3. Loaded("sum")' = counter[CounterOf(report.metric, "sum")]
    BY <1>2, <1>6 DEF Loaded
  <2> QED BY <1>1, <1>3, <1>6, <2>1, <2>2, <2>3, LoadsWithin
<1>8. Within("n")'
  <2>1. "n" \in Fields
    BY DEF Fields
  <2>2. Unread("n")' <=> Unread("n")
    BY <1>6 DEF Unread
  <2>3. Loaded("n")' = Loaded("n")
    BY <1>6 DEF Loaded
  <2> QED BY <1>1, <1>3, <1>6, <2>1, <2>2, <2>3, StaysWithin
<1>9. Reading'
  BY <1>1, <1>6, <1>7, <1>8 DEF Reading, Fields
<1> QED BY <1>5, <1>9 DEF ReportInv

LEMMA NoReportIs == NoReport \in Reports /\ NoReport.phase = "idle" /\ NoReport.unread = {}
BY DEF NoReport, Reports

LEMMA ReportStep ==
  ASSUME NEW L, Wide(L), Limits(L), Shapes, Threads, Books, ReportInv, MetricsSteps
  PROVE  ReportInv'
<1>1. CASE report' = report
  BY <1>1, ReportStands
<1>2. CASE Answer
  BY <1>2, NoReportIs DEF Answer, ReportInv
<1>3. CASE (\E t \in Recorders, m \in Metrics, latency \in Latencies :
                RecordLatency(t, m, latency))
           \/ (\E t \in Recorders : \E add \in left[t] : FetchAdd(t, add))
           \/ (\E t \in Recorders, c \in Events, amount \in Nat : RecordEvent(t, c, amount))
           \/ UNCHANGED metricsVars
  <2>1. report' = report
    BY <1>3 DEF RecordLatency, FetchAdd, RecordEvent, metricsVars
  <2> QED BY <1>1, <2>1
<1>4. CASE ReportSteps
  BY <1>2, <1>4, AskStep, LoadCountStep, LoadSumStep DEF ReportSteps
<1> QED BY <1>3, <1>4 DEF MetricsSteps

-----------------------------------------------------------------------------
MetricsInv(L) == Shapes /\ Threads /\ Books /\ Limits(L) /\ ReportInv

LEMMA InitMetricsInv ==
  ASSUME NEW L, Wide(L), MetricsInit
  PROVE  MetricsInv(L)
<1>1. /\ doing = [t \in Recorders |-> NoCall]
      /\ left = [t \in Recorders |-> {}]
      /\ counter = [c \in Counters |-> 0]
      /\ begun = [m \in Metrics |-> [n |-> 0, sum |-> 0]]
      /\ report = NoReport
  BY DEF MetricsInit
<1>2. NoCall \in [metric : Metrics \cup {"none"}, latency : Nat]
  BY DEF NoCall
<1>3. Shapes
  BY <1>1, <1>2 DEF Shapes
<1>4. Threads
  BY <1>1 DEF Threads, Doing
<1>5. ASSUME NEW m \in Metrics, NEW field \in Fields PROVE Book(m, field)
  <2>1. \A t \in Recorders : Open(m, field)[t] = 0 /\ Owed(m, field)[t] = 0
    BY <1>1 DEF Open, Owed, Owes, NoCall, Metrics
  <2>2. SumOver(Open(m, field), Recorders) = 0 /\ SumOver(Owed(m, field), Recorders) = 0
    BY <2>1, SumOfZeros, MetricsAssumption
  <2>3. counter[CounterOf(m, field)] = 0 /\ begun[m][field] = 0
    BY <1>1, CountersApart DEF Fields
  <2> QED BY <2>2, <2>3 DEF Book
<1>6. Limits(L)
  <2>1. \A m \in Metrics : begun[m].n = 0 /\ begun[m].sum = 0
    BY <1>1
  <2>2. MaxCalls \in Nat /\ L \in Nat /\ 0 * L = 0
    BY MetricsAssumption DEF Wide
  <2> QED BY <2>1, <2>2 DEF Limits, Metrics
<1>7. ReportInv
  BY <1>1, NoReportIs DEF ReportInv
<1> QED BY <1>3, <1>4, <1>5, <1>6, <1>7 DEF MetricsInv, Books

(* A quotient grows with the dividend and falls with the divisor. *)
LEMMA QuotientsOrder ==
  ASSUME NEW a \in Nat, NEW b \in Nat, a <= b,
         NEW c \in Nat \ {0}, NEW d \in Nat \ {0}, d <= c
  PROVE  a \div c <= b \div d
<1>1. PICK q \in Nat : q = a \div c
  BY QuotientIs
<1>2. q <= q
  OBVIOUS
<1>3. q * c <= a
  BY <1>1, <1>2, QuotientIs
<1>4. q * d <= q * c
  <2>1. PICK e \in Nat : c = d + e
    <3>1. c - d \in Nat /\ c = d + (c - d)
      OBVIOUS
    <3> QED BY <3>1
  <2>2. q * c = q * d + q * e /\ q * e \in Nat /\ q * d \in Nat
    BY <2>1
  <2> QED BY <2>2
<1>5. q * d <= b
  <2>1. q * c \in Nat /\ q * d \in Nat
    OBVIOUS
  <2> QED BY <1>3, <1>4, <2>1
<1>6. q <= b \div d
  BY <1>5, QuotientIs
<1> QED BY <1>1, <1>6

LEMMA InvReport ==
  ASSUME NEW L, MetricsInv(L)
  PROVE  ReportWithinRead
<1> SUFFICES ASSUME Answered PROVE ReportWithinRead
  BY DEF ReportWithinRead
<1>1. Reading /\ Shapes
  BY DEF MetricsInv, ReportInv, Answered
<1>2. PICK m \in Metrics : m = report.metric
  BY <1>1 DEF Reading
<1>3. ASSUME NEW field \in Fields
      PROVE  /\ report.floor[field] \in Nat /\ Loaded(field) \in Nat
             /\ begun[m][field] \in Nat
             /\ report.floor[field] <= Loaded(field)
             /\ Loaded(field) <= begun[m][field]
  BY <1>1, <1>2 DEF Reading, Within, Unread, Answered, Shapes, Fields
<1>4. PICK ln \in Nat, k \in Nat, mn \in Nat :
        ln = report.floor.n /\ k = report.count /\ mn = begun[m].n /\ ln <= k /\ k <= mn
  BY <1>3 DEF Fields, Loaded
<1>5. PICK ls \in Nat, s \in Nat, ms \in Nat :
        ls = report.floor.sum /\ s = report.sum /\ ms = begun[m].sum /\ ls <= s /\ s <= ms
  BY <1>3 DEF Fields, Loaded
<1>6. CASE k = 0
  <2>1. ln = 0
    BY <1>4, <1>6
  <2> QED BY <1>4, <1>6, <2>1 DEF ReportWithinRead
<1>7. CASE k # 0
  <2>1. k \in Nat \ {0} /\ mn \in Nat \ {0}
    BY <1>4, <1>7
  <2>2. ls \div mn <= s \div k
    BY <1>4, <1>5, <2>1, QuotientsOrder
  <2>3. ASSUME ln > 0 PROVE s \div k <= ms \div ln
    <3>1. ln \in Nat \ {0}
      BY <2>3
    <3> QED BY <1>4, <1>5, <2>1, <3>1, QuotientsOrder
  <2> QED BY <1>2, <1>4, <1>5, <1>7, <2>2, <2>3 DEF ReportWithinRead
<1> QED BY <1>6, <1>7

(* However the additions of the recorders and the loads of the reader      *)
(* interleave, an answered average is explained by the calls that were     *)
(* over when it was asked for and those that had begun since, as long as   *)
(* the counters do not wrap (lib.rs 256-269, 290-304).                     *)
THEOREM MetricsReportWithinRead ==
  ASSUME NEW L, Wide(L)
  PROVE  MetricsSpec => []ReportWithinRead
<1>1. MetricsInit => MetricsInv(L)
  BY InitMetricsInv
<1>2. MetricsInv(L) /\ [MetricsNext]_metricsVars => MetricsInv(L)'
  BY MetricsNextSteps, ShapesStep, ThreadsStep, BooksStep, LimitsStep, ReportStep
     DEF MetricsInv
<1>3. MetricsInv(L) => ReportWithinRead
  BY InvReport
<1> QED BY <1>1, <1>2, <1>3, PTL DEF MetricsSpec
=============================================================================
