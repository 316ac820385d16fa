------------------------------ MODULE AtomicMetrics ------------------------------
(***************************************************************************)
(* AtomicMetrics (shardring/src/lib.rs, module metrics): threads that      *)
(* record events by adding to several counters, and one that asks for an   *)
(* average meanwhile, which it computes from two of them.                  *)
(*                                                                         *)
(* All operations are relaxed: the additions of one call reach the others  *)
(* in any order, and so do the two loads of a reader.  The metric "gets"   *)
(* is fed by record_get, "healthy_gets" by record_get_healthy.             *)
(***************************************************************************)
EXTENDS Integers, FiniteSetsExt

CONSTANTS
  Recorders,        \* threads that record
  Latencies,        \* latency_ns of a call, and nodes_affected
  MaxCalls,         \* bound: the calls that record a latency
  MaxEvents,        \* bound: a counter of events below it may be raised
  Word              \* 2^64: the counters wrap

ASSUME MetricsAssumption ==
  /\ IsFiniteSet(Recorders)
  /\ Latencies \subseteq Nat
  /\ MaxCalls \in Nat /\ MaxEvents \in Nat
  /\ Word \in Nat \ {0}

VARIABLES
  counter,          \* the atomics of AtomicMetrics
  doing,            \* doing[t]: the call t is in
  left,             \* left[t]: the additions it has not made yet
  begun,            \* begun[m]: calls so far and the sum of their latencies
  report            \* the call of a reader

metricsVars == <<counter, doing, left, begun, report>>

Metrics == {"gets", "healthy_gets"}

Total(m) == IF m = "gets" THEN "gets_total" ELSE "healthy_gets_total"
Count(m) == IF m = "gets" THEN "gets_latency_count" ELSE "healthy_gets_latency_count"

(* Faulty: both averages are computed from the sum of one metric. *)
SumOfGets(m) == "gets_latency_sum"

Sum(m) == IF m = "gets" THEN "gets_latency_sum" ELSE "healthy_gets_latency_sum"

Counters ==
  {Total(m) : m \in Metrics} \cup {Sum(m) : m \in Metrics} \cup {Count(m) : m \in Metrics}
    \cup {"migrations_total", "rebalances_total", "errors_total"}

Add(c, amount) == [counter |-> c, amount |-> amount]

(* record_get and record_get_healthy *)
LatencyAdds(m, latency) ==
  {Add(Total(m), 1), Add(Sum(m), latency), Add(Count(m), 1)}

NoCall == [metric |-> "none", latency |-> 0]

NoReport ==
  [phase |-> "idle", metric |-> "none", floor |-> [n |-> 0, sum |-> 0],
   unread |-> {}, count |-> 0, sum |-> 0]

MetricsInit ==
  /\ counter = [c \in Counters |-> 0]
  /\ doing = [t \in Recorders |-> NoCall]
  /\ left = [t \in Recorders |-> {}]
  /\ begun = [m \in Metrics |-> [n |-> 0, sum |-> 0]]
  /\ report = NoReport

-----------------------------------------------------------------------------
CallsBegun == begun["gets"].n + begun["healthy_gets"].n

(* record_get, record_get_healthy *)
RecordLatency(t, m, latency) ==
  /\ left[t] = {}
  /\ CallsBegun < MaxCalls
  /\ doing' = [doing EXCEPT ![t] = [metric |-> m, latency |-> latency]]
  /\ left' = [left EXCEPT ![t] = LatencyAdds(m, latency)]
  /\ begun' = [begun EXCEPT ![m] = [n |-> @.n + 1, sum |-> @.sum + latency]]
  /\ UNCHANGED <<counter, report>>

(* record_migration, record_rebalance, record_error: one addition, which   *)
(* no report of an average depends on.                                     *)
RecordEvent(t, c, amount) ==
  /\ left[t] = {}
  /\ counter[c] < MaxEvents
  /\ counter' = [counter EXCEPT ![c] = (@ + amount) % Word]
  /\ UNCHANGED <<doing, left, begun, report>>

(* One fetch_add of the call, in whatever order. *)
FetchAdd(t, add) ==
  /\ add \in left[t]
  /\ counter' = [counter EXCEPT ![add.counter] = (@ + add.amount) % Word]
  /\ left' = [left EXCEPT ![t] = @ \ {add}]
  /\ doing' = [doing EXCEPT ![t] = IF left[t] = {add} THEN NoCall ELSE @]
  /\ UNCHANGED <<begun, report>>

(* What the calls of metric m add up to that have made all additions.      *)
Finished(m) ==
  LET open == {t \in Recorders : doing[t].metric = m}
      latency == [t \in Recorders |-> IF t \in open THEN doing[t].latency ELSE 0]
  IN  [n   |-> begun[m].n - Cardinality(open),
       sum |-> begun[m].sum - MapThenSumSet(LAMBDA t : latency[t], Recorders)]

(* avg_get_latency_ns, avg_healthy_get_latency_ns *)
Ask(m) ==
  /\ report.phase = "idle"
  /\ report' = [NoReport EXCEPT !.phase = "reading", !.metric = m,
                                !.floor = Finished(m), !.unread = {"count", "sum"}]
  /\ UNCHANGED <<counter, doing, left, begun>>

LoadCount ==
  /\ "count" \in report.unread
  /\ report' = [report EXCEPT !.count = counter[Count(report.metric)],
                              !.unread = @ \ {"count"}]
  /\ UNCHANGED <<counter, doing, left, begun>>

LoadSum ==
  /\ "sum" \in report.unread
  /\ report' = [report EXCEPT !.sum = counter[Sum(report.metric)],
                              !.unread = @ \ {"sum"}]
  /\ UNCHANGED <<counter, doing, left, begun>>

Answered == report.phase = "reading" /\ report.unread = {}

Answer ==
  /\ Answered
  /\ report' = NoReport
  /\ UNCHANGED <<counter, doing, left, begun>>

MetricsNext ==
  \/ \E t \in Recorders, m \in Metrics, latency \in Latencies : RecordLatency(t, m, latency)
  \/ \E t \in Recorders : \E add \in left[t] : FetchAdd(t, add)
  \/ \E t \in Recorders, c \in {"migrations_total", "errors_total"} : RecordEvent(t, c, 1)
  \/ \E t \in Recorders, amount \in Latencies : RecordEvent(t, "rebalances_total", amount)
  \/ \E m \in Metrics : Ask(m)
  \/ LoadCount \/ LoadSum \/ Answer

MetricsSpec == MetricsInit /\ [][MetricsNext]_metricsVars

-----------------------------------------------------------------------------
(* An average is computed from a count and a sum of different moments, and *)
(* may exceed every latency recorded; but it lies between what the calls   *)
(* that were over when it was asked for and the calls that had begun when  *)
(* it was answered can explain, None is only answered if no call was over, *)
(* and with no call under way it is exact (lib.rs 256-269, 290-304).       *)
ReportWithinRead ==
  Answered =>
    LET least == report.floor
        most == begun[report.metric]
        average == report.sum \div report.count
    IN  IF report.count = 0 THEN least.n = 0
        ELSE /\ least.sum \div most.n <= average
             /\ least.n > 0 => average <= most.sum \div least.n

=============================================================================
