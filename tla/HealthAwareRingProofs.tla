------------------------- MODULE HealthAwareRingProofs -------------------------
(***************************************************************************)
(* Theorems about HealthAwareRing, for any number of callers, loops, nodes *)
(* and points and any thresholds.                                          *)
(*                                                                         *)
(* Two facts about the lines of the locks carry the argument.  In the line *)
(* of the node list the read request of a caller is behind its own write   *)
(* request, so it is never served.  Of two requests in the line of the     *)
(* health map one is ahead of the other, so a reader and a writer are not  *)
(* served together, and what a search has seen stays so until it ends.     *)
(***************************************************************************)
EXTENDS HealthAwareRing, FiniteSetTheorems, TLAPS

Locks == {"ring", "health", "nodes"}

(* What the proofs need of the types. *)
Shape ==
  /\ line = [lock \in Locks |-> line[lock]]
  /\ pc = [t \in Callers \cup Loops |-> pc[t]]
  /\ start = [c \in Callers |-> start[c]]
  /\ at \in [Callers -> Nat]

(* Of two requests one is ahead of the other. *)
Ordered(queue) ==
  \A r, q \in DOMAIN queue : r = q \/ r \in queue[q] \/ q \in queue[r]

-----------------------------------------------------------------------------
LEMMA JoinLine ==
  ASSUME NEW queue, NEW t, NEW mode
  PROVE  /\ \A r : r \in DOMAIN Join(queue, t, mode)
                     <=> r \in DOMAIN queue \/ r = Request(t, mode)
         /\ \A r \in DOMAIN queue : Join(queue, t, mode)[r] = queue[r]
         /\ \A r \in DOMAIN Join(queue, t, mode) : r \notin DOMAIN queue
              => \A q \in DOMAIN queue : q \in Join(queue, t, mode)[r]
BY DEF Join

LEMMA LeaveLine ==
  ASSUME NEW queue, NEW t
  PROVE  /\ \A r : r \in DOMAIN Leave(queue, t) <=> r \in DOMAIN queue /\ r.task # t
         /\ \A r \in DOMAIN Leave(queue, t) : \A q :
              q \in Leave(queue, t)[r] <=> q \in queue[r] /\ q.task # t
BY DEF Leave

LEMMA JoinOrdered ==
  ASSUME NEW queue, NEW t, NEW mode, Ordered(queue)
  PROVE  Ordered(Join(queue, t, mode))
<1> DEFINE joined == Join(queue, t, mode)
<1>1. /\ \A r : r \in DOMAIN joined <=> r \in DOMAIN queue \/ r = Request(t, mode)
      /\ \A r \in DOMAIN queue : joined[r] = queue[r]
      /\ \A r \in DOMAIN joined : r \notin DOMAIN queue
           => \A q \in DOMAIN queue : q \in joined[r]
  BY JoinLine
<1> HIDE DEF joined
<1>2. Ordered(joined)
  BY <1>1 DEF Ordered
<1> QED BY <1>2 DEF joined

LEMMA LeaveOrdered ==
  ASSUME NEW queue, NEW t, Ordered(queue)
  PROVE  Ordered(Leave(queue, t))
<1> DEFINE left == Leave(queue, t)
<1>1. /\ \A r : r \in DOMAIN left <=> r \in DOMAIN queue /\ r.task # t
      /\ \A r \in DOMAIN left : \A q : q \in left[r] <=> q \in queue[r] /\ q.task # t
  BY LeaveLine
<1> HIDE DEF left
<1>2. Ordered(left)
  BY <1>1 DEF Ordered
<1> QED BY <1>2 DEF left

(* What is served stays served while others come and go. *)
LEMMA GrantedStays ==
  ASSUME NEW queue, NEW t, NEW mode, Granted(queue, t, mode)
  PROVE  /\ \A u, other : Granted(Join(queue, u, other), t, mode)
         /\ \A u : u # t => Granted(Leave(queue, u), t, mode)
<1>1. Request(t, mode).task = t
  BY DEF Request
<1>2. ASSUME NEW u, NEW other PROVE Granted(Join(queue, u, other), t, mode)
  BY JoinLine DEF Granted
<1>3. ASSUME NEW u, u # t PROVE Granted(Leave(queue, u), t, mode)
  <2>1. Request(t, mode) \in DOMAIN Leave(queue, u)
    BY <1>1, <1>3, LeaveLine DEF Granted
  <2> QED BY <2>1, LeaveLine DEF Granted
<1> QED BY <1>2, <1>3

(* Readers and writers are not served together. *)
LEMMA Exclusive ==
  ASSUME NEW queue, NEW t, NEW u, Ordered(queue),
         Granted(queue, t, "write"), Granted(queue, u, "read")
  PROVE  FALSE
<1>1. Request(t, "write").mode = "write" /\ Request(u, "read").mode = "read"
  BY DEF Request
<1>2. Request(t, "write") # Request(u, "read")
  BY <1>1
<1> QED BY <1>1, <1>2 DEF Granted, Ordered
-----------------------------------------------------------------------------
(* The kinds of steps, by what they do to the lines.                       *)
Ends(c) == Finish(c) /\ UNCHANGED <<nodes, health, probes>>

AsksRing(c) ==
  /\ pc[c] = "idle"
  /\ \E label \in {"getting", "entering", "tallying"} : Goto(c, label)
  /\ Ask("ring", c, "read")
  /\ start' = start \/ \E i : start' = [start EXCEPT ![c] = i]
  /\ UNCHANGED <<health, at, probes>>

AsksHealth(c) ==
  /\ \/ pc[c] = "idle" /\ Goto(c, "reading")
     \/ pc[c] = "entering" /\ Goto(c, "searching")
     \/ pc[c] = "tallying" /\ Goto(c, "counting")
  /\ Ask("health", c, "read")
  /\ UNCHANGED <<health, start, at, probes>>

Searches(c) == SearchHit(c) \/ SearchNext(c) \/ SearchFail(c)

AsksNodes(c) ==
  /\ pc[c] = "idle"
  /\ \E label \in {"adding", "removing", "weighing"} : Goto(c, label)
  /\ Ask("nodes", c, "write")
  /\ UNCHANGED <<health, start, at, probes>>

Edits(c) ==
  /\ \/ pc[c] = "adding" /\ Goto(c, "inserting")
     \/ pc[c] = "removing" /\ Goto(c, "erasing")
  /\ Has(c, "nodes", "write")
  /\ Ask("health", c, "write")
  /\ UNCHANGED <<health, start, at, probes>>

Rebuilds(c) ==
  /\ pc[c] \in {"inserting", "erasing", "weighing"}
  /\ Goto(c, "rebuilding")
  /\ Ask("nodes", c, "read")
  /\ \/ health' = health
     \/ pc[c] = "inserting" /\ Has(c, "health", "write")
          /\ health' = [health EXCEPT ![arg[c]] = Fresh]
     \/ pc[c] = "erasing" /\ Has(c, "health", "write")
          /\ health' = [health EXCEPT ![arg[c]] = None]
  /\ UNCHANGED <<start, at, probes>>

CallerSteps(c) ==
  Ends(c) \/ AsksRing(c) \/ AsksHealth(c) \/ Searches(c)
    \/ AsksNodes(c) \/ Edits(c) \/ Rebuilds(c)

Steps ==
  \/ \E c \in Callers : CallerSteps(c)
  \/ \E l \in Loops : StartHealthChecks(l) \/ Round(l)
  \/ \E probe \in probes, result \in {"ok", "failed"} : Answer(probe, result)
  \/ \E probe \in probes : Record(probe)
  \/ UNCHANGED vars

LEMMA CallSteps ==
  ASSUME NEW c \in Callers, Call(c) PROVE CallerSteps(c)
<1>1. CASE Get(c)
  BY <1>1 DEF Get, CallerSteps, AsksRing
<1>2. CASE HealthStatus(c)
  BY <1>2 DEF HealthStatus, CallerSteps, AsksHealth
<1>3. CASE Stats(c)
  BY <1>3 DEF Stats, CallerSteps, AsksRing
<1>4. ASSUME NEW h \in Hashes, GetHealthy(c, h) PROVE CallerSteps(c)
  BY <1>4 DEF GetHealthy, CallerSteps, AsksRing
<1>5. ASSUME NEW id \in UpdateIds, AddNode(c, id) \/ RemoveNode(c, id) \/ UpdateWeight(c, id)
      PROVE  CallerSteps(c)
  BY <1>5 DEF AddNode, RemoveNode, UpdateWeight, Update, CallerSteps, AsksNodes
<1> QED BY <1>1, <1>2, <1>3, <1>4, <1>5 DEF Call

LEMMA ProceedSteps ==
  ASSUME NEW c \in Callers, Proceed(c) \/ Cancel(c) PROVE CallerSteps(c)
<1>1. CASE GetReturn(c) \/ GetHealthyReturn(c) \/ ReadReturn(c) \/ NodeNotFound(c) \/ Cancel(c)
  BY <1>1 DEF GetReturn, GetHealthyReturn, ReadReturn, NodeNotFound, Cancel,
              CallerSteps, Ends
<1>2. CASE EnterHealth(c) \/ StatsHealth(c)
  BY <1>2 DEF EnterHealth, StatsHealth, CallerSteps, AsksHealth
<1>3. CASE SearchHit(c) \/ SearchNext(c) \/ SearchFail(c)
  BY <1>3 DEF CallerSteps, Searches
<1>4. CASE Push(c) \/ Retain(c)
  BY <1>4 DEF Push, Retain, CallerSteps, Edits
<1>5. CASE Insert(c) \/ Erase(c) \/ Reweigh(c)
  BY <1>5 DEF Insert, Erase, Reweigh, CallerSteps, Rebuilds
<1> QED BY <1>1, <1>2, <1>3, <1>4, <1>5 DEF Proceed

LEMMA NextSteps == ASSUME [Next]_vars PROVE Steps
BY CallSteps, ProceedSteps DEF Next, Recording, Steps

-----------------------------------------------------------------------------
(* What asking for a lock and leaving all of them do to each line. *)
LEMMA AskLine ==
  ASSUME Shape, NEW lock \in Locks, NEW t, NEW mode, Ask(lock, t, mode)
  PROVE  /\ line' = [other \in Locks |-> line'[other]]
         /\ line'[lock] = Join(line[lock], t, mode)
         /\ \A other \in Locks : other # lock => line'[other] = line[other]
BY DEF Shape, Ask

LEMMA LeaveLines ==
  ASSUME Shape, NEW c, LeaveAll(c)
  PROVE  /\ line' = [other \in Locks |-> line'[other]]
         /\ \A lock \in Locks : line'[lock] = Leave(line[lock], c)
BY DEF Shape, LeaveAll

LEMMA ShapeStep ==
  ASSUME Shape, [Next]_vars
  PROVE  Shape'
<1>1. Steps
  BY NextSteps
<1>2. line' = [lock \in Locks |-> line'[lock]]
  <2>1. ASSUME NEW c \in Callers, CallerSteps(c) PROVE line' = [lock \in Locks |-> line'[lock]]
    <3>1. CASE Ends(c)
      BY <3>1, LeaveLines DEF Ends, Finish
    <3>2. CASE Searches(c)
      BY <3>2 DEF Searches, SearchHit, SearchNext, SearchFail, Shape
    <3>3. CASE AsksRing(c)
      BY <3>3, AskLine DEF AsksRing, Locks
    <3>4. CASE AsksHealth(c)
      BY <3>4, AskLine DEF AsksHealth, Locks
    <3>5. CASE AsksNodes(c)
      BY <3>5, AskLine DEF AsksNodes, Locks
    <3>6. CASE Edits(c)
      BY <3>6, AskLine DEF Edits, Locks
    <3>7. CASE Rebuilds(c)
      BY <3>7, AskLine DEF Rebuilds, Locks
    <3> QED BY <2>1, <3>1, <3>2, <3>3, <3>4, <3>5, <3>6, <3>7 DEF CallerSteps
  <2>2. ASSUME NEW l \in Loops, StartHealthChecks(l) PROVE line' = [lock \in Locks |-> line'[lock]]
    BY <2>2, AskLine DEF StartHealthChecks, Locks
  <2>3. ASSUME NEW l \in Loops, Round(l) PROVE line' = [lock \in Locks |-> line'[lock]]
    BY <2>3 DEF Round, Shape
  <2>4. ASSUME NEW probe, NEW result, Answer(probe, result)
        PROVE  line' = [lock \in Locks |-> line'[lock]]
    BY <2>4, AskLine DEF Answer, Locks
  <2>5. ASSUME NEW probe, Record(probe) PROVE line' = [lock \in Locks |-> line'[lock]]
    BY <2>5 DEF Record, Shape
  <2>6. CASE UNCHANGED vars
    BY <2>6 DEF vars, Shape
  <2> QED BY <1>1, <2>1, <2>2, <2>3, <2>4, <2>5, <2>6 DEF Steps
<1>3. /\ pc' = [t \in Callers \cup Loops |-> pc'[t]]
      /\ start' = [c \in Callers |-> start'[c]]
      /\ at' \in [Callers -> Nat]
  <2> DEFINE typed == /\ pc' = [t \in Callers \cup Loops |-> pc'[t]]
                      /\ start' = [c \in Callers |-> start'[c]]
                      /\ at' \in [Callers -> Nat]
  <2>1. ASSUME NEW c \in Callers, CallerSteps(c) PROVE typed
    <3>1. CASE Ends(c)
      BY <3>1 DEF Ends, Finish, Goto, Shape
    <3>2. CASE Searches(c)
      BY <3>2 DEF Searches, SearchHit, SearchNext, SearchFail, Goto, Shape
    <3>3. CASE AsksRing(c)
      BY <3>3 DEF AsksRing, Goto, Shape
    <3>4. CASE AsksHealth(c) \/ AsksNodes(c) \/ Edits(c) \/ Rebuilds(c)
      BY <3>4 DEF AsksHealth, AsksNodes, Edits, Rebuilds, Goto, Shape
    <3> QED BY <2>1, <3>1, <3>2, <3>3, <3>4 DEF CallerSteps
  <2>2. ASSUME NEW l \in Loops, StartHealthChecks(l) \/ Round(l) PROVE typed
    BY <2>2 DEF StartHealthChecks, Round, Goto, Shape
  <2>3. ASSUME NEW probe, NEW result, Answer(probe, result) \/ Record(probe) PROVE typed
    BY <2>3 DEF Answer, Record, Shape
  <2>4. CASE UNCHANGED vars
    BY <2>4 DEF vars, Shape
  <2> QED BY <1>1, <2>1, <2>2, <2>3, <2>4 DEF Steps
<1> QED BY <1>2, <1>3 DEF Shape

-----------------------------------------------------------------------------
(* In the line of the node list, whoever is about to ask for the read      *)
(* guard has asked for the write guard, and a caller's read request is     *)
(* behind its write request.                                               *)
OwnWriteAhead ==
  \A c \in Callers :
    /\ pc[c] \in {"adding", "removing", "weighing", "inserting", "erasing"}
         => Request(c, "write") \in DOMAIN line["nodes"]
    /\ Request(c, "read") \in DOMAIN line["nodes"]
         => Request(c, "write") \in line["nodes"][Request(c, "read")]

(* Loops are not callers, and join and leave without touching a caller.    *)
LEMMA OthersLeaveOwnWrite ==
  ASSUME OwnWriteAhead, NEW u, u \notin Callers,
         \A c \in Callers : pc'[c] = pc[c],
         \/ line'["nodes"] = Leave(line["nodes"], u)
         \/ line'["nodes"] = Join(line["nodes"], u, "read")
  PROVE  OwnWriteAhead'
<1> SUFFICES ASSUME NEW c \in Callers
             PROVE  /\ pc'[c] \in {"adding", "removing", "weighing", "inserting", "erasing"}
                         => Request(c, "write") \in DOMAIN line'["nodes"]
                    /\ Request(c, "read") \in DOMAIN line'["nodes"]
                         => Request(c, "write") \in line'["nodes"][Request(c, "read")]
  BY DEF OwnWriteAhead
<1>1. /\ Request(c, "write").task = c /\ Request(c, "read").task = c
      /\ Request(c, "read") # Request(u, "read") /\ Request(c, "write") # Request(u, "read")
  BY DEF Request
<1>2. CASE line'["nodes"] = Leave(line["nodes"], u)
  BY <1>1, <1>2, LeaveLine DEF OwnWriteAhead
<1>3. CASE line'["nodes"] = Join(line["nodes"], u, "read")
  BY <1>1, <1>3, JoinLine DEF OwnWriteAhead
<1> QED BY <1>2, <1>3

LEMMA OwnWriteAheadStep ==
  ASSUME Shape, OwnWriteAhead, [Next]_vars
  PROVE  OwnWriteAhead'
<1> USE DEF Locks
<1>1. Steps
  BY NextSteps
<1>2. ASSUME NEW c \in Callers, CallerSteps(c) PROVE OwnWriteAhead'
  <2> SUFFICES ASSUME NEW d \in Callers
               PROVE  /\ pc'[d] \in {"adding", "removing", "weighing", "inserting", "erasing"}
                           => Request(d, "write") \in DOMAIN line'["nodes"]
                      /\ Request(d, "read") \in DOMAIN line'["nodes"]
                           => Request(d, "write") \in line'["nodes"][Request(d, "read")]
    BY DEF OwnWriteAhead
  <2>1. /\ pc[d] \in {"adding", "removing", "weighing", "inserting", "erasing"}
             => Request(d, "write") \in DOMAIN line["nodes"]
        /\ Request(d, "read") \in DOMAIN line["nodes"]
             => Request(d, "write") \in line["nodes"][Request(d, "read")]
    BY DEF OwnWriteAhead
  <2>2. /\ Request(d, "write").task = d /\ Request(d, "read").task = d
        /\ Request(d, "read") # Request(c, "write")
        /\ Request(d, "read") = Request(c, "read") => d = c
    BY DEF Request
  <2>3. d # c => pc'[d] = pc[d]
    <3>1. \/ \E label : Goto(c, label)
          \/ pc' = pc
      BY <1>2 DEF CallerSteps, Ends, Finish, AsksRing, AsksHealth, Searches, SearchHit,
                  SearchNext, SearchFail, AsksNodes, Edits, Rebuilds
    <3> QED BY <3>1 DEF Goto, Shape
  <2>4. CASE Ends(c)
    <3>1. line'["nodes"] = Leave(line["nodes"], c) /\ pc'[c] = "idle"
      BY <2>4, LeaveLines DEF Ends, Finish, Goto, Shape
    <3> QED BY <2>1, <2>2, <2>3, <3>1, LeaveLine
  <2>5. CASE AsksRing(c) \/ AsksHealth(c) \/ Searches(c)
    <3>1. line'["nodes"] = line["nodes"]
      BY <2>5, AskLine DEF AsksRing, AsksHealth, Searches, SearchHit, SearchNext, SearchFail
    <3>2. pc'[c] \notin {"adding", "removing", "weighing", "inserting", "erasing"}
      <4>1. \/ \E label \in {"getting", "entering", "tallying", "reading", "searching",
                             "counting", "found", "failed"} : Goto(c, label)
            \/ pc[c] = "searching" /\ pc' = pc
        BY <2>5 DEF AsksRing, AsksHealth, Searches, SearchHit, SearchNext, SearchFail, Searching
      <4> QED BY <4>1 DEF Goto, Shape
    <3> QED BY <2>1, <2>3, <3>1, <3>2
  <2>6. CASE AsksNodes(c)
    <3>1. line'["nodes"] = Join(line["nodes"], c, "write")
      BY <2>6, AskLine DEF AsksNodes
    <3> QED BY <2>1, <2>2, <2>3, <3>1, JoinLine
  <2>7. CASE Edits(c)
    <3>1. line'["nodes"] = line["nodes"]
      BY <2>7, AskLine DEF Edits
    <3>2. pc[c] \in {"adding", "removing"}
      BY <2>7 DEF Edits
    <3> QED BY <2>1, <2>3, <3>1, <3>2
  <2>8. CASE Rebuilds(c)
    <3>1. line'["nodes"] = Join(line["nodes"], c, "read")
      BY <2>8, AskLine DEF Rebuilds
    <3>2. pc[c] \in {"inserting", "erasing", "weighing"} /\ pc'[c] = "rebuilding"
      BY <2>8 DEF Rebuilds, Goto, Shape
    <3> QED BY <2>1, <2>2, <2>3, <3>1, <3>2, JoinLine
  <2> QED BY <1>2, <2>4, <2>5, <2>6, <2>7, <2>8 DEF CallerSteps
<1>3. ASSUME NEW l \in Loops, StartHealthChecks(l) \/ Round(l) PROVE OwnWriteAhead'
  <2>1. l \notin Callers
    BY TasksAssumption
  <2>2. \A c \in Callers : pc'[c] = pc[c]
    BY <1>3, <2>1 DEF StartHealthChecks, Round, Goto, Shape
  <2>3. \/ line'["nodes"] = Leave(line["nodes"], l)
        \/ line'["nodes"] = Join(line["nodes"], l, "read")
    BY <1>3, AskLine DEF StartHealthChecks, Round, Shape
  <2> QED BY <2>1, <2>2, <2>3, OthersLeaveOwnWrite
<1>4. ASSUME NEW probe, NEW result, Answer(probe, result) \/ Record(probe)
      PROVE  OwnWriteAhead'
  <2>1. pc' = pc /\ line'["nodes"] = line["nodes"]
    BY <1>4, AskLine DEF Answer, Record, Shape
  <2> QED BY <2>1 DEF OwnWriteAhead
<1>5. CASE UNCHANGED vars
  BY <1>5 DEF vars, OwnWriteAhead
<1> QED BY <1>1, <1>2, <1>3, <1>4, <1>5 DEF Steps

LEMMA InitShape == ASSUME Init PROVE Shape /\ OwnWriteAhead
BY DEF Init, Shape, OwnWriteAhead, Locks, Nobody

(* rebuild_ring never gets the guard of the node list, as its caller keeps *)
(* the write guard (health.rs 174-223).                                    *)
THEOREM HealthRebuildNeverRuns == Spec => []RebuildNeverRuns
<1>1. Init => Shape /\ OwnWriteAhead
  BY InitShape
<1>2. Shape /\ OwnWriteAhead /\ [Next]_vars => (Shape /\ OwnWriteAhead)'
  BY ShapeStep, OwnWriteAheadStep
<1>3. OwnWriteAhead => RebuildNeverRuns
  <2>1. \A c : Request(c, "write").mode = "write"
    BY DEF Request
  <2> QED BY <2>1 DEF OwnWriteAhead, RebuildNeverRuns, Has, Granted
<1> QED BY <1>1, <1>2, <1>3, PTL DEF Spec

-----------------------------------------------------------------------------
(* How the health map changes: by a writer, in one of three ways.          *)
Inserts(c) == pc[c] = "inserting" /\ health' = [health EXCEPT ![arg[c]] = Fresh]

Erases(c) == pc[c] = "erasing" /\ health' = [health EXCEPT ![arg[c]] = None]

Counts(probe) ==
  health' = [health EXCEPT ![probe.id] = IF @ = None THEN None ELSE Outcome(probe, @)]

HealthWrite ==
  /\ \E t : Granted(line["health"], t, "write")
  /\ \/ \E c \in Callers : Inserts(c) \/ Erases(c)
     \/ \E probe : Counts(probe)

LEMMA HealthWrites == ASSUME [Next]_vars PROVE health' = health \/ HealthWrite
<1>1. Steps
  BY NextSteps
<1>2. ASSUME NEW c \in Callers, CallerSteps(c) PROVE health' = health \/ HealthWrite
  <2>1. CASE Rebuilds(c)
    BY <2>1 DEF Rebuilds, Has, HealthWrite, Inserts, Erases
  <2>2. CASE ~Rebuilds(c)
    BY <1>2, <2>2 DEF CallerSteps, Ends, AsksRing, AsksHealth, Searches, SearchHit,
                      SearchNext, SearchFail, AsksNodes, Edits
  <2> QED BY <2>1, <2>2
<1>3. ASSUME NEW probe, Record(probe) PROVE HealthWrite
  BY <1>3 DEF Record, Has, HealthWrite, Counts
<1>4. ASSUME NEW l \in Loops, StartHealthChecks(l) \/ Round(l) PROVE health' = health
  BY <1>4 DEF StartHealthChecks, Round
<1>5. ASSUME NEW probe, NEW result, Answer(probe, result) PROVE health' = health
  BY <1>5 DEF Answer
<1> QED BY <1>1, <1>2, <1>3, <1>4, <1>5 DEF Steps, vars

NodeHealth == [status : {"Unknown", "Healthy", "Unhealthy"},
               successes : Nat, failures : Nat]

HealthTyped == health \in [Ids -> NodeHealth \cup {None}]

(* StatusFollowsSeries, of one entry. *)
Follows(h) ==
  /\ h.successes = 0 \/ h.failures = 0
  /\ h.successes > 0 /\ h.successes >= HealthyThreshold => h.status = "Healthy"
  /\ h.failures > 0 /\ h.failures >= UnhealthyThreshold => h.status = "Unhealthy"

Series == HealthTyped /\ \A id \in Ids : health[id] # None => Follows(health[id])

LEMMA FreshFollows == Fresh \in NodeHealth /\ Follows(Fresh)
BY DEF Fresh, NodeHealth, Follows

LEMMA OutcomeFollows ==
  ASSUME NEW h \in NodeHealth, Follows(h), NEW probe
  PROVE  Outcome(probe, h) \in NodeHealth /\ Follows(Outcome(probe, h))
<1>1. /\ h.status \in {"Unknown", "Healthy", "Unhealthy"}
      /\ h.successes \in Nat /\ h.failures \in Nat
  BY DEF NodeHealth
<1>2. Succeeded(h) \in NodeHealth /\ Follows(Succeeded(h))
  BY <1>1, HealthConfigAssumption DEF Succeeded, Follows, NodeHealth
<1>3. Failed(h) \in NodeHealth /\ Follows(Failed(h))
  BY <1>1, HealthConfigAssumption DEF Failed, Follows, NodeHealth
<1> QED BY <1>2, <1>3 DEF Outcome

LEMMA SeriesStep ==
  ASSUME Series, [Next]_vars
  PROVE  Series'
<1>1. ASSUME NEW c, Inserts(c) PROVE Series'
  BY <1>1, FreshFollows DEF Inserts, Series, HealthTyped
<1>2. ASSUME NEW c, Erases(c) PROVE Series'
  BY <1>2 DEF Erases, Series, HealthTyped
<1>3. ASSUME NEW probe, Counts(probe) PROVE Series'
  <2>1. ASSUME NEW id \in Ids
        PROVE  /\ health'[id] \in NodeHealth \cup {None}
               /\ health'[id] # None => Follows(health'[id])
    <3>1. CASE id = probe.id /\ health[id] # None
      <4>1. health[id] \in NodeHealth /\ Follows(health[id])
        BY <3>1 DEF Series, HealthTyped
      <4>2. health'[id] = Outcome(probe, health[id])
        BY <1>3, <3>1 DEF Counts, Series, HealthTyped
      <4> QED BY <4>1, <4>2, OutcomeFollows
    <3>2. CASE ~(id = probe.id /\ health[id] # None)
      <4>1. health'[id] = health[id]
        BY <1>3, <3>2 DEF Counts, Series, HealthTyped
      <4> QED BY <4>1 DEF Series, HealthTyped
    <3> QED BY <3>1, <3>2
  <2>2. health' = [id \in Ids |-> health'[id]]
    BY <1>3 DEF Counts, Series, HealthTyped
  <2> QED BY <2>1, <2>2 DEF Series, HealthTyped
<1> QED BY <1>1, <1>2, <1>3, HealthWrites DEF HealthWrite, Series, HealthTyped

LEMMA InitSeries == ASSUME Init PROVE Series
BY FreshFollows DEF Init, Initial, Series, HealthTyped

(* A status is never at odds with the series of results it is drawn from,  *)
(* for any thresholds (health.rs 273-303).                                 *)
THEOREM HealthStatusFollowsSeries == Spec => []StatusFollowsSeries
<1>1. Series => StatusFollowsSeries
  BY DEF Series, StatusFollowsSeries, Follows
<1> QED BY <1>1, InitSeries, SeriesStep, PTL DEF Spec

(* Only add_node puts an id into the health map, so the result of a check  *)
(* does not bring a removed node back (health.rs 269-270).                 *)
THEOREM HealthOnlyAddNodeInserts == Spec => OnlyAddNodeInserts
<1>1. ASSUME Series, [Next]_vars, NEW id \in Ids, health[id] = None, health'[id] # None
      PROVE  \E c \in Callers : pc[c] = "inserting" /\ arg[c] = id
  <2>1. health \in [Ids -> NodeHealth \cup {None}]
    BY <1>1 DEF Series, HealthTyped
  <2>2. ASSUME NEW c \in Callers, Inserts(c) PROVE arg[c] = id
    BY <1>1, <2>1, <2>2 DEF Inserts
  <2>3. ASSUME NEW c \in Callers, Erases(c) PROVE FALSE
    BY <1>1, <2>1, <2>3 DEF Erases
  <2>4. ASSUME NEW probe, Counts(probe) PROVE FALSE
    BY <1>1, <2>1, <2>4 DEF Counts
  <2> QED BY <1>1, <2>2, <2>3, <2>4, HealthWrites DEF HealthWrite, Inserts
<1>2. Series /\ [Next]_vars =>
        [\A id \in Ids : health[id] = None /\ health'[id] # None
           => \E c \in Callers : pc[c] = "inserting" /\ arg[c] = id]_vars
  BY <1>1
<1> QED BY <1>2, InitSeries, SeriesStep, PTL DEF Spec, OnlyAddNodeInserts

-----------------------------------------------------------------------------
(* A search that has looked at a point has the read guard.                 *)
Settled(c) ==
  \/ pc[c] \in {"found", "failed"}
  \/ pc[c] = "searching" /\ at[c] > 0

Served(c) ==
  /\ Settled(c) => Granted(line["health"], c, "read")
  /\ pc[c] \notin {"searching", "found", "failed"} => at[c] = 0

(* PickIsFirstHealthy, of one caller. *)
Right(c) ==
  /\ pc[c] = "found" => Healthy(Candidate(c, at[c]))
  /\ pc[c] = "failed" => at[c] = Len(Points)
  /\ pc[c] \in {"searching", "found", "failed"} =>
       \A k \in 0 .. at[c] - 1 : ~Healthy(Candidate(c, k))

SearchInv == Ordered(line["health"]) /\ \A c \in Callers : Served(c) /\ Right(c)

Unmoved(d) == pc'[d] = pc[d] /\ at'[d] = at[d] /\ start'[d] = start[d]

LEMMA OthersUnmoved ==
  ASSUME Shape, NEW c \in Callers, CallerSteps(c), NEW d \in Callers, d # c
  PROVE  Unmoved(d)
<1>1. pc'[d] = pc[d]
  <2>1. (\E label : Goto(c, label)) \/ pc' = pc
    BY DEF CallerSteps, Ends, Finish, AsksRing, AsksHealth, Searches, SearchHit,
           SearchNext, SearchFail, AsksNodes, Edits, Rebuilds
  <2> QED BY <2>1 DEF Goto, Shape
<1>2. at'[d] = at[d]
  BY DEF CallerSteps, Ends, Finish, AsksRing, AsksHealth, Searches, SearchHit,
         SearchNext, SearchFail, AsksNodes, Edits, Rebuilds, Shape
<1>3. start'[d] = start[d]
  BY DEF CallerSteps, Ends, Finish, AsksRing, AsksHealth, Searches, SearchHit,
         SearchNext, SearchFail, AsksNodes, Edits, Rebuilds, Shape
<1> QED BY <1>1, <1>2, <1>3 DEF Unmoved

(* What a task that is not a searching caller does to the health map's     *)
(* line: it leaves only as a served writer, or without anyone noticing.    *)
HealthLine(u) ==
  \/ line'["health"] = line["health"]
  \/ \E mode : line'["health"] = Join(line["health"], u, mode)
  \/ line'["health"] = Leave(line["health"], u)

(* Whoever does not move, while someone else does, stays right.            *)
LEMMA StillRight ==
  ASSUME Shape, SearchInv, NEW d \in Callers, Unmoved(d),
         NEW u, HealthLine(u),
         health' = health \/ HealthWrite,
         u # d \/ Granted(line["health"], u, "write")
  PROVE  Served(d)' /\ Right(d)'
<1>1. at[d] \in Nat
  BY DEF Shape
<1>2. Served(d) /\ Right(d) /\ Ordered(line["health"])
  BY DEF SearchInv
<1>3. \A k : Candidate(d, k)' = Candidate(d, k)
  BY DEF Candidate, Unmoved
<1>4. CASE Settled(d)
  <2>1. Granted(line["health"], d, "read")
    BY <1>2, <1>4 DEF Served
  <2>2. \A t : ~Granted(line["health"], t, "write")
    BY <1>2, <2>1, Exclusive
  <2>3. health' = health /\ u # d
    BY <2>2 DEF HealthWrite
  <2>4. Granted(line'["health"], d, "read")
    BY <2>1, <2>3, GrantedStays DEF HealthLine
  <2>5. Served(d)'
    BY <1>2, <2>4 DEF Served, Settled, Unmoved
  <2>6. \A id : Healthy(id)' <=> Healthy(id)
    BY <2>3 DEF Healthy
  <2>7. Right(d)'
    BY <1>2, <1>3, <2>6 DEF Right, Unmoved
  <2> QED BY <2>5, <2>7
<1>5. CASE ~Settled(d)
  <2>1. Served(d)'
    BY <1>2, <1>5 DEF Served, Settled, Unmoved
  <2>2. pc[d] \notin {"found", "failed"} /\ (pc[d] = "searching" => at[d] = 0)
    BY <1>1, <1>5 DEF Settled
  <2>3. Right(d)'
    BY <2>2 DEF Right, Unmoved
  <2> QED BY <2>1, <2>3
<1> QED BY <1>4, <1>5

(* The caller that moves. *)
LEMMA MoverRight ==
  ASSUME Shape, SearchInv, NEW c \in Callers, CallerSteps(c)
  PROVE  Served(c)' /\ Right(c)'
<1>1. at[c] \in Nat /\ Served(c) /\ Right(c)
  BY DEF Shape, SearchInv
<1>2. ASSUME pc'[c] \notin {"found", "failed"}, at'[c] = 0
      PROVE  Served(c)' /\ Right(c)'
  BY <1>2 DEF Served, Settled, Right
<1>3. CASE Ends(c)
  BY <1>2, <1>3 DEF Ends, Finish, Goto, Shape
<1>4. CASE AsksRing(c) \/ AsksHealth(c) \/ AsksNodes(c) \/ Edits(c) \/ Rebuilds(c)
  <2>1. /\ pc[c] \in {"idle", "entering", "tallying", "adding", "removing",
                      "inserting", "erasing", "weighing"}
        /\ at' = at
        /\ \E label \in {"getting", "entering", "tallying", "reading", "searching",
                         "counting", "adding", "removing", "weighing", "inserting",
                         "erasing", "rebuilding"} : Goto(c, label)
    BY <1>4 DEF AsksRing, AsksHealth, AsksNodes, Edits, Rebuilds
  <2>2. at[c] = 0
    BY <1>1, <2>1 DEF Served
  <2>3. pc'[c] \notin {"found", "failed"}
    BY <2>1 DEF Goto, Shape
  <2> QED BY <1>2, <2>1, <2>2, <2>3
<1>5. CASE Searches(c)
  <2>1. /\ pc[c] = "searching" /\ Granted(line["health"], c, "read")
        /\ line' = line /\ health' = health /\ start' = start
    BY <1>5 DEF Searches, SearchHit, SearchNext, SearchFail, Searching, Has
  <2>2. /\ \A k : Candidate(c, k)' = Candidate(c, k)
        /\ \A id : Healthy(id)' <=> Healthy(id)
    BY <2>1 DEF Candidate, Healthy
  <2>3. \A k \in 0 .. at[c] - 1 : ~Healthy(Candidate(c, k))
    BY <1>1, <2>1 DEF Right
  <2>4. CASE SearchHit(c)
    <3>1. pc'[c] = "found" /\ at'[c] = at[c] /\ Healthy(Candidate(c, at[c]))
      BY <2>4 DEF SearchHit, Goto, Shape, IsHealthy, Healthy
    <3>2. Right(c)'
      BY <2>2, <2>3, <3>1 DEF Right
    <3> QED BY <2>1, <3>1, <3>2 DEF Served, Settled
  <2>5. CASE SearchNext(c)
    <3>1. pc'[c] = "searching" /\ at'[c] = at[c] + 1 /\ ~Healthy(Candidate(c, at[c]))
      BY <2>1, <2>5 DEF SearchNext, Shape, IsHealthy, Healthy
    <3>2. \A k \in 0 .. at'[c] - 1 : k \in 0 .. at[c] - 1 \/ k = at[c]
      BY <1>1, <3>1
    <3>3. Right(c)'
      BY <2>2, <2>3, <3>1, <3>2 DEF Right
    <3> QED BY <2>1, <3>1, <3>3 DEF Served, Settled
  <2>6. CASE SearchFail(c)
    <3>1. pc'[c] = "failed" /\ at'[c] = at[c] /\ at[c] = Len(Points)
      BY <2>6 DEF SearchFail, Goto, Shape
    <3>2. Right(c)'
      BY <2>2, <2>3, <3>1 DEF Right
    <3> QED BY <2>1, <3>1, <3>2 DEF Served, Settled
  <2> QED BY <1>5, <2>4, <2>5, <2>6 DEF Searches
<1> QED BY <1>3, <1>4, <1>5 DEF CallerSteps

LEMMA SearchInvStep ==
  ASSUME Shape, SearchInv, [Next]_vars
  PROVE  SearchInv'
<1> USE DEF Locks
<1>1. Steps /\ (health' = health \/ HealthWrite)
  BY NextSteps, HealthWrites
<1>2. ASSUME NEW u, HealthLine(u) PROVE Ordered(line["health"])'
  BY <1>2, JoinOrdered, LeaveOrdered DEF HealthLine, SearchInv
<1>3. ASSUME NEW c \in Callers, CallerSteps(c) PROVE SearchInv'
  <2>1. HealthLine(c)
    <3>1. CASE Ends(c)
      BY <3>1, LeaveLines DEF Ends, Finish, HealthLine
    <3>2. CASE Searches(c)
      BY <3>2 DEF Searches, SearchHit, SearchNext, SearchFail, HealthLine
    <3>3. CASE AsksHealth(c) \/ Edits(c)
      BY <3>3, AskLine DEF AsksHealth, Edits, HealthLine
    <3>4. CASE AsksRing(c) \/ AsksNodes(c) \/ Rebuilds(c)
      BY <3>4, AskLine DEF AsksRing, AsksNodes, Rebuilds, HealthLine
    <3> QED BY <1>3, <3>1, <3>2, <3>3, <3>4 DEF CallerSteps
  <2>2. \A d \in Callers : d # c => Served(d)' /\ Right(d)'
    BY <1>1, <1>3, <2>1, OthersUnmoved, StillRight
  <2> QED BY <1>2, <1>3, <2>1, <2>2, MoverRight DEF SearchInv
<1>4. ASSUME NEW u, HealthLine(u), \A d \in Callers : Unmoved(d),
             u \notin Callers \/ Granted(line["health"], u, "write")
      PROVE  SearchInv'
  BY <1>1, <1>2, <1>4, StillRight DEF SearchInv
<1>5. ASSUME NEW l \in Loops, StartHealthChecks(l) \/ Round(l) PROVE SearchInv'
  <2>1. l \notin Callers
    BY TasksAssumption
  <2>2. line'["health"] = line["health"] /\ at' = at /\ start' = start
    BY <1>5, AskLine DEF StartHealthChecks, Round, Shape
  <2>3. \A d \in Callers : pc'[d] = pc[d]
    BY <1>5, <2>1 DEF StartHealthChecks, Round, Goto, Shape
  <2> QED BY <1>4, <2>1, <2>2, <2>3 DEF HealthLine, Unmoved
<1>6. ASSUME NEW probe, Record(probe) PROVE SearchInv'
  <2>1. /\ line'["health"] = Leave(line["health"], Task(probe))
        /\ Granted(line["health"], Task(probe), "write")
        /\ pc' = pc /\ at' = at /\ start' = start
    BY <1>6 DEF Record, Has, Shape
  <2> QED BY <1>4, <2>1 DEF HealthLine, Unmoved
<1>7. ASSUME NEW probe, NEW result, Answer(probe, result) PROVE SearchInv'
  <2>1. /\ line'["health"] = Join(line["health"], Task(probe), "write")
        /\ health' = health /\ pc' = pc /\ at' = at /\ start' = start
    BY <1>7, AskLine DEF Answer
  <2>2. \A d, k : Candidate(d, k)' = Candidate(d, k)
    BY <2>1 DEF Candidate
  <2>3. ASSUME NEW d \in Callers PROVE Served(d)' /\ Right(d)'
    <3>1. Served(d) /\ Right(d)
      BY DEF SearchInv
    <3>2. Served(d)'
      BY <2>1, <3>1, GrantedStays DEF Served, Settled
    <3>3. Right(d)'
      BY <2>1, <2>2, <3>1 DEF Right, Healthy
    <3> QED BY <3>2, <3>3
  <2>4. Ordered(line["health"])'
    BY <1>2, <2>1 DEF HealthLine
  <2> QED BY <2>3, <2>4 DEF SearchInv
<1>8. CASE UNCHANGED vars
  <2>1. \A d \in Callers : (Served(d)' <=> Served(d)) /\ (Right(d)' <=> Right(d))
    BY <1>8 DEF vars, Served, Settled, Right, Healthy, Candidate
  <2> QED BY <1>8, <2>1 DEF vars, SearchInv
<1> QED BY <1>1, <1>3, <1>5, <1>6, <1>7, <1>8 DEF Steps

LEMMA InitSearchInv == ASSUME Init PROVE SearchInv
BY DEF Init, Nobody, SearchInv, Ordered, Served, Settled, Right

(* get_healthy returns the first healthy node clockwise, and fails only if *)
(* none is healthy, at the moment it returns (health.rs 143-171).          *)
THEOREM HealthPickIsFirstHealthy == Spec => []PickIsFirstHealthy
<1>1. Init => Shape /\ SearchInv
  BY InitShape, InitSearchInv
<1>2. Shape /\ SearchInv /\ [Next]_vars => (Shape /\ SearchInv)'
  BY ShapeStep, SearchInvStep
<1>3. SearchInv => PickIsFirstHealthy
  BY DEF SearchInv, Right, PickIsFirstHealthy
<1> QED BY <1>1, <1>2, <1>3, PTL DEF Spec

-----------------------------------------------------------------------------
(* Who is in the lines. *)
LEMMA InLineJoin ==
  ASSUME NEW queue, NEW t, NEW mode
  PROVE  \A u : u \in InLine(Join(queue, t, mode)) <=> u \in InLine(queue) \/ u = t
<1>1. Request(t, mode).task = t
  BY DEF Request
<1> QED BY <1>1, JoinLine DEF InLine

LEMMA InLineLeave ==
  ASSUME NEW queue, NEW t
  PROVE  \A u : u \in InLine(Leave(queue, t)) <=> u \in InLine(queue) /\ u # t
BY LeaveLine DEF InLine

AtRing == {"getting", "entering", "searching", "found", "failed", "tallying", "counting"}

AtHealth == {"searching", "found", "failed", "reading", "counting",
             "inserting", "erasing", "rebuilding"}

AtNodes == {"adding", "removing", "weighing", "inserting", "erasing", "rebuilding"}

RingLive ==
  \A u : u \in InLine(line["ring"]) <=> u \in Callers /\ pc[u] \in AtRing

NodesLive ==
  \A u : u \in InLine(line["nodes"])
           <=> \/ u \in Loops /\ pc[u] = "ticking"
               \/ u \in Callers /\ pc[u] \in AtNodes

Checks == {Task(probe) : probe \in {p \in probes : p.result # "pending"}}

HealthLive ==
  \A u : u \in InLine(line["health"])
           => u \in Checks \/ (u \in Callers /\ pc[u] \in AtHealth)

ProbesTyped ==
  \A p \in probes :
    p = [loop |-> p.loop, place |-> p.place, id |-> p.id, result |-> p.result]

Live == RingLive /\ NodesLive /\ HealthLive /\ ProbesTyped

LEMMA CallerLive ==
  ASSUME Shape, Live, NEW c \in Callers, CallerSteps(c)
  PROVE  Live'
<1> USE DEF Locks
<1>1. \A u \in Callers \cup Loops : u # c => pc'[u] = pc[u]
  <2>1. (\E label : Goto(c, label)) \/ pc' = pc
    BY DEF CallerSteps, Ends, Finish, AsksRing, AsksHealth, Searches, SearchHit,
           SearchNext, SearchFail, AsksNodes, Edits, Rebuilds
  <2> QED BY <2>1 DEF Goto, Shape
<1>2. probes' = probes /\ c \notin Loops
  BY TasksAssumption DEF CallerSteps, Ends, AsksRing, AsksHealth, Searches, SearchHit,
     SearchNext, SearchFail, AsksNodes, Edits, Rebuilds
<1>3. Checks' = Checks /\ ProbesTyped'
  BY <1>2 DEF Checks, Task, Live, ProbesTyped
<1>4. RingLive /\ NodesLive /\ HealthLive
  BY DEF Live
<1>5. CASE Ends(c)
  <2>1. pc'[c] = "idle" /\ \A lock \in Locks : line'[lock] = Leave(line[lock], c)
    BY <1>5, LeaveLines DEF Ends, Finish, Goto, Shape
  <2>2. \A lock \in Locks : \A u : u \in InLine(line'[lock]) <=> u \in InLine(line[lock]) /\ u # c
    BY <2>1, InLineLeave
  <2>3. RingLive'
    BY <1>1, <1>4, <2>1, <2>2 DEF RingLive, AtRing
  <2>4. NodesLive'
    BY <1>1, <1>2, <1>4, <2>1, <2>2 DEF NodesLive, AtNodes
  <2>5. HealthLive'
    BY <1>1, <1>3, <1>4, <2>1, <2>2 DEF HealthLive
  <2> QED BY <1>3, <2>3, <2>4, <2>5 DEF Live
<1>6. CASE AsksRing(c)
  <2>1. /\ line'["ring"] = Join(line["ring"], c, "read")
        /\ line'["health"] = line["health"] /\ line'["nodes"] = line["nodes"]
    BY <1>6, AskLine DEF AsksRing
  <2>2. pc[c] = "idle" /\ pc'[c] \in {"getting", "entering", "tallying"}
    BY <1>6 DEF AsksRing, Goto, Shape
  <2>3. RingLive'
    BY <1>1, <1>4, <2>1, <2>2, InLineJoin DEF RingLive, AtRing
  <2>4. NodesLive'
    BY <1>1, <1>2, <1>4, <2>1, <2>2 DEF NodesLive, AtNodes
  <2>5. HealthLive'
    BY <1>1, <1>3, <1>4, <2>1, <2>2 DEF HealthLive, AtHealth
  <2> QED BY <1>3, <2>3, <2>4, <2>5 DEF Live
<1>7. CASE AsksHealth(c) \/ Edits(c)
  <2>1. /\ \E mode : line'["health"] = Join(line["health"], c, mode)
        /\ line'["ring"] = line["ring"] /\ line'["nodes"] = line["nodes"]
    BY <1>7, AskLine DEF AsksHealth, Edits
  <2>2. \/ pc[c] = "idle" /\ pc'[c] = "reading"
        \/ pc[c] = "entering" /\ pc'[c] = "searching"
        \/ pc[c] = "tallying" /\ pc'[c] = "counting"
        \/ pc[c] = "adding" /\ pc'[c] = "inserting"
        \/ pc[c] = "removing" /\ pc'[c] = "erasing"
    BY <1>7 DEF AsksHealth, Edits, Goto, Shape
  <2>3. RingLive'
    BY <1>1, <1>4, <2>1, <2>2 DEF RingLive, AtRing
  <2>4. NodesLive'
    BY <1>1, <1>2, <1>4, <2>1, <2>2 DEF NodesLive, AtNodes
  <2>5. HealthLive'
    BY <1>1, <1>3, <1>4, <2>1, <2>2, InLineJoin DEF HealthLive, AtHealth
  <2> QED BY <1>3, <2>3, <2>4, <2>5 DEF Live
<1>8. CASE Searches(c)
  <2>1. line' = line /\ pc[c] = "searching" /\ pc'[c] \in {"searching", "found", "failed"}
    BY <1>8 DEF Searches, SearchHit, SearchNext, SearchFail, Searching, Goto, Shape
  <2>2. RingLive' /\ HealthLive'
    BY <1>1, <1>3, <1>4, <2>1 DEF RingLive, AtRing, HealthLive, AtHealth
  <2>3. NodesLive'
    BY <1>1, <1>2, <1>4, <2>1 DEF NodesLive, AtNodes
  <2> QED BY <1>3, <2>2, <2>3 DEF Live
<1>9. CASE AsksNodes(c) \/ Rebuilds(c)
  <2>1. /\ \E mode : line'["nodes"] = Join(line["nodes"], c, mode)
        /\ line'["ring"] = line["ring"] /\ line'["health"] = line["health"]
    BY <1>9, AskLine DEF AsksNodes, Rebuilds
  <2>2. \/ pc[c] = "idle" /\ pc'[c] \in {"adding", "removing", "weighing"}
        \/ pc[c] \in {"inserting", "erasing", "weighing"} /\ pc'[c] = "rebuilding"
    BY <1>9 DEF AsksNodes, Rebuilds, Goto, Shape
  <2>3. RingLive'
    BY <1>1, <1>4, <2>1, <2>2 DEF RingLive, AtRing
  <2>4. NodesLive'
    BY <1>1, <1>2, <1>4, <2>1, <2>2, InLineJoin DEF NodesLive, AtNodes
  <2>5. HealthLive'
    BY <1>1, <1>3, <1>4, <2>1, <2>2 DEF HealthLive, AtHealth
  <2> QED BY <1>3, <2>3, <2>4, <2>5 DEF Live
<1> QED BY <1>5, <1>6, <1>7, <1>8, <1>9 DEF CallerSteps

LEMMA LoopLive ==
  ASSUME Shape, Live, NEW l \in Loops, StartHealthChecks(l) \/ Round(l)
  PROVE  Live'
<1> USE DEF Locks
<1>1. /\ l \notin Callers
      /\ \A u \in Callers \cup Loops : u # l => pc'[u] = pc[u]
      /\ line'["ring"] = line["ring"] /\ line'["health"] = line["health"]
  BY TasksAssumption, AskLine DEF StartHealthChecks, Round, Goto, Shape
<1>2. RingLive /\ NodesLive /\ HealthLive /\ ProbesTyped
  BY DEF Live
<1>3. RingLive'
  BY <1>1, <1>2 DEF RingLive
<1>4. /\ ProbesTyped'
      /\ \A u \in Checks : u \in Checks'
  <2>1. CASE StartHealthChecks(l)
    BY <1>2, <2>1 DEF StartHealthChecks, ProbesTyped, Checks, Task
  <2>2. CASE Round(l)
    BY <1>2, <2>2 DEF Round, ProbesTyped, Checks, Task
  <2> QED BY <2>1, <2>2
<1>5. HealthLive'
  BY <1>1, <1>2, <1>4 DEF HealthLive
<1>6. CASE StartHealthChecks(l)
  <2>1. line'["nodes"] = Join(line["nodes"], l, "read") /\ pc'[l] = "ticking"
    BY <1>6, AskLine DEF StartHealthChecks, Goto, Shape
  <2>2. NodesLive'
    BY <1>1, <1>2, <2>1, InLineJoin DEF NodesLive
  <2> QED BY <1>3, <1>4, <1>5, <2>2 DEF Live
<1>7. CASE Round(l)
  <2>1. line'["nodes"] = Leave(line["nodes"], l) /\ pc'[l] = "blocked"
    BY <1>7 DEF Round, Goto, Shape
  <2>2. NodesLive'
    BY <1>1, <1>2, <2>1, InLineLeave DEF NodesLive
  <2> QED BY <1>3, <1>4, <1>5, <2>2 DEF Live
<1> QED BY <1>6, <1>7

LEMMA ProbeLive ==
  ASSUME Shape, Live, NEW probe \in probes,
         (\E result \in {"ok", "failed"} : Answer(probe, result)) \/ Record(probe)
  PROVE  Live'
<1> USE DEF Locks
<1>1. pc' = pc /\ line'["ring"] = line["ring"] /\ line'["nodes"] = line["nodes"]
  BY AskLine DEF Answer, Record, Shape
<1>2. RingLive' /\ NodesLive'
  BY <1>1 DEF Live, RingLive, NodesLive
<1>3. HealthLive /\ ProbesTyped
  BY DEF Live
<1>4. CASE Record(probe)
  <2>1. /\ line'["health"] = Leave(line["health"], Task(probe))
        /\ probes' = probes \ {probe}
    BY <1>4 DEF Record, Shape
  <2>2. \A u \in Checks : u # Task(probe) => u \in Checks'
    BY <2>1 DEF Checks
  <2>3. HealthLive'
    BY <1>1, <1>3, <2>1, <2>2, InLineLeave DEF HealthLive
  <2> QED BY <1>2, <1>3, <2>1, <2>3 DEF Live, ProbesTyped
<1>5. ASSUME NEW result \in {"ok", "failed"}, Answer(probe, result) PROVE Live'
  <2> DEFINE answered == [probe EXCEPT !.result = result]
  <2>1. /\ line'["health"] = Join(line["health"], Task(probe), "write")
        /\ probe.result = "pending"
        /\ probes' = (probes \ {probe}) \cup {answered}
    BY <1>5, AskLine DEF Answer
  <2>2. answered = [loop |-> probe.loop, place |-> probe.place, id |-> probe.id,
                    result |-> result]
    BY <1>3 DEF ProbesTyped
  <2>3. Task(answered) = Task(probe) /\ answered.result # "pending"
    BY <2>2 DEF Task
  <2>4. ProbesTyped'
    BY <1>3, <2>1, <2>2 DEF ProbesTyped
  <2> HIDE DEF answered
  <2>5. \A u \in Checks : u \in Checks'
    BY <2>1 DEF Checks
  <2>6. Task(probe) \in Checks'
    BY <2>1, <2>3 DEF Checks
  <2>7. HealthLive'
    BY <1>1, <1>3, <2>1, <2>5, <2>6, InLineJoin DEF HealthLive
  <2> QED BY <1>2, <2>4, <2>7 DEF Live
<1> QED BY <1>4, <1>5

LEMMA LiveStep ==
  ASSUME Shape, Live, [Next]_vars
  PROVE  Live'
<1>1. CASE UNCHANGED vars
  BY <1>1 DEF vars, Live, RingLive, NodesLive, HealthLive, ProbesTyped, Checks, Task
<1> QED BY <1>1, NextSteps, CallerLive, LoopLive, ProbeLive DEF Steps

LEMMA InitLive == ASSUME Init PROVE Live
<1>1. InLine(Nobody) = {}
  BY DEF InLine, Nobody
<1> QED BY <1>1 DEF Init, Live, RingLive, NodesLive, HealthLive, ProbesTyped,
                    AtRing, AtNodes, Locks

(* A dropped or finished call, and a finished check, is in no line, and    *)
(* who is in a line is where the code asks for the lock (health.rs 136-306)*)
THEOREM HealthLinesAreLive == Spec => []LinesAreLive
<1>1. Init => Shape /\ Live
  BY InitShape, InitLive
<1>2. Shape /\ Live /\ [Next]_vars => (Shape /\ Live)'
  BY ShapeStep, LiveStep
<1>3. Live => LinesAreLive
  BY DEF Live, RingLive, NodesLive, HealthLive, Checks, AtRing, AtHealth, AtNodes,
         LinesAreLive
<1> QED BY <1>1, <1>2, <1>3, PTL DEF Spec
-----------------------------------------------------------------------------
(***************************************************************************)
(* No two tasks wait for each other.  Who is first in a line is served by  *)
(* that lock, as a task asks each lock once, except in rebuild_ring.  It   *)
(* remains to see that it waits for no other lock: the ring is only ever   *)
(* read, and an update that waits for the health map has been served by    *)
(* the node list.                                                          *)
(***************************************************************************)
(* The ring is read by all, so that nobody waits for it. *)
RingReads ==
  \A r \in DOMAIN line["ring"] :
    r.mode = "read" /\ \A ahead \in line["ring"][r] : ahead.mode = "read"

(* A task asks a lock once, and only rebuild_ring asks again. *)
AskedOnce(lock) ==
  \A r, q \in DOMAIN line[lock] :
    r.task = q.task =>
      r = q \/ (lock = "nodes" /\ r.task \in Callers /\ pc[r.task] = "rebuilding")

(* An update that has gone on to the health map holds the node list. *)
Holding ==
  \A c \in Callers :
    pc[c] \in {"inserting", "erasing"} => Granted(line["nodes"], c, "write")

(* A loop spawns one check for each place, before it is blocked. *)
SpawnedOnce ==
  /\ \A p \in probes : /\ p.loop \in Loops /\ p.place \in 1 .. MaxNodes
                       /\ pc[p.loop] = "blocked"
  /\ \A p, q \in probes : p.loop = q.loop /\ p.place = q.place => p = q

-----------------------------------------------------------------------------
(* How a line changes. *)
Leaves(lock) == \E u : line'[lock] = Leave(line[lock], u)

Enters(lock) ==
  \E u, mode : u \notin InLine(line[lock]) /\ line'[lock] = Join(line[lock], u, mode)

Moves(lock) == line'[lock] = line[lock] \/ Leaves(lock) \/ Enters(lock)

Returns == \E c \in Callers : pc'[c] = "rebuilding" /\ line'["nodes"] = Join(line["nodes"], c, "read")

(* Tasks of checks are neither callers nor loops. *)
LEMMA ChecksApart ==
  ASSUME SpawnedOnce, NEW probe \in probes
  PROVE  Task(probe) \notin Callers \cup Loops
BY TasksAssumption DEF SpawnedOnce, Task

LEMMA CallerMoves ==
  ASSUME Shape, Live, SpawnedOnce, NEW c \in Callers, CallerSteps(c)
  PROVE  /\ Moves("ring") /\ Moves("health")
         /\ Moves("nodes") \/ Returns
<1> USE DEF Locks
<1>1. RingLive /\ NodesLive /\ HealthLive
  BY DEF Live
<1>2. c \notin Loops /\ c \notin Checks
  BY TasksAssumption, ChecksApart DEF Checks
<1>3. CASE Ends(c)
  BY <1>3, LeaveLines DEF Ends, Finish, Moves, Leaves
<1>4. CASE Searches(c)
  BY <1>4 DEF Searches, SearchHit, SearchNext, SearchFail, Moves
<1>5. CASE AsksRing(c)
  <2>1. c \notin InLine(line["ring"])
    BY <1>1, <1>5 DEF RingLive, AsksRing, AtRing
  <2> QED BY <1>5, <2>1, AskLine DEF AsksRing, Moves, Enters
<1>6. CASE AsksHealth(c) \/ Edits(c)
  <2>1. pc[c] \notin AtHealth
    BY <1>6 DEF AsksHealth, Edits, AtHealth
  <2>2. c \notin InLine(line["health"])
    BY <1>1, <1>2, <2>1 DEF HealthLive
  <2> QED BY <1>6, <2>2, AskLine DEF AsksHealth, Edits, Moves, Enters
<1>7. CASE AsksNodes(c)
  <2>1. c \notin InLine(line["nodes"])
    BY <1>1, <1>2, <1>7 DEF NodesLive, AsksNodes, AtNodes
  <2> QED BY <1>7, <2>1, AskLine DEF AsksNodes, Moves, Enters
<1>8. CASE Rebuilds(c)
  <2>1. pc'[c] = "rebuilding"
    BY <1>8 DEF Rebuilds, Goto, Shape
  <2> QED BY <1>8, <2>1, AskLine DEF Rebuilds, Moves, Returns
<1> QED BY <1>3, <1>4, <1>5, <1>6, <1>7, <1>8 DEF CallerSteps

LEMMA LoopMoves ==
  ASSUME Shape, Live, NEW l \in Loops, StartHealthChecks(l) \/ Round(l)
  PROVE  Moves("ring") /\ Moves("health") /\ Moves("nodes")
<1> USE DEF Locks
<1>1. l \notin Callers /\ NodesLive
  BY TasksAssumption DEF Live
<1>2. CASE StartHealthChecks(l)
  <2>1. l \notin InLine(line["nodes"])
    BY <1>1, <1>2 DEF NodesLive, StartHealthChecks
  <2> QED BY <1>2, <2>1, AskLine DEF StartHealthChecks, Moves, Enters
<1>3. CASE Round(l)
  <2>1. /\ line'["nodes"] = Leave(line["nodes"], l)
        /\ line'["ring"] = line["ring"] /\ line'["health"] = line["health"]
    BY <1>3 DEF Round, Shape
  <2> QED BY <2>1 DEF Moves, Leaves
<1> QED BY <1>2, <1>3

LEMMA ProbeMoves ==
  ASSUME Shape, Live, SpawnedOnce, NEW probe \in probes,
         (\E result \in {"ok", "failed"} : Answer(probe, result)) \/ Record(probe)
  PROVE  Moves("ring") /\ Moves("health") /\ Moves("nodes")
<1> USE DEF Locks
<1>1. CASE Record(probe)
  <2>1. /\ line'["health"] = Leave(line["health"], Task(probe))
        /\ line'["ring"] = line["ring"] /\ line'["nodes"] = line["nodes"]
    BY <1>1 DEF Record, Shape
  <2> QED BY <2>1 DEF Moves, Leaves
<1>2. ASSUME NEW result, Answer(probe, result)
      PROVE  Moves("ring") /\ Moves("health") /\ Moves("nodes")
  <2>1. Task(probe) \notin Callers
    BY ChecksApart
  <2>2. Task(probe) \notin Checks
    BY <1>2 DEF Answer, Checks, Task, SpawnedOnce
  <2>3. Task(probe) \notin InLine(line["health"])
    BY <2>1, <2>2 DEF Live, HealthLive
  <2> QED BY <1>2, <2>3, AskLine DEF Answer, Moves, Enters
<1> QED BY <1>1, <1>2

LEMMA AllMove ==
  ASSUME Shape, Live, SpawnedOnce, [Next]_vars
  PROVE  /\ Moves("ring") /\ Moves("health")
         /\ Moves("nodes") \/ Returns
<1>1. CASE UNCHANGED vars
  BY <1>1 DEF vars, Moves
<1> QED BY <1>1, NextSteps, CallerMoves, LoopMoves, ProbeMoves DEF Steps

-----------------------------------------------------------------------------
(* The ring is only ever asked for reading. *)
LEMMA RingReadsStep ==
  ASSUME Shape, RingReads, [Next]_vars
  PROVE  RingReads'
<1> USE DEF Locks
<1>1. Steps
  BY NextSteps
<1>2. ASSUME NEW u, line'["ring"] = Leave(line["ring"], u) PROVE RingReads'
  BY <1>2, LeaveLine DEF RingReads
<1>3. ASSUME NEW u, line'["ring"] = Join(line["ring"], u, "read") PROVE RingReads'
  BY <1>3 DEF RingReads, Join, Request
<1>4. ASSUME line'["ring"] = line["ring"] PROVE RingReads'
  BY <1>4 DEF RingReads
<1>5. ASSUME NEW c \in Callers, CallerSteps(c) PROVE RingReads'
  <2>1. CASE Ends(c)
    BY <1>2, <2>1, LeaveLines DEF Ends, Finish
  <2>2. CASE AsksRing(c)
    BY <1>3, <2>2, AskLine DEF AsksRing
  <2>3. CASE Searches(c)
    BY <1>4, <2>3 DEF Searches, SearchHit, SearchNext, SearchFail
  <2>4. CASE AsksHealth(c) \/ AsksNodes(c) \/ Edits(c) \/ Rebuilds(c)
    BY <1>4, <2>4, AskLine DEF AsksHealth, AsksNodes, Edits, Rebuilds
  <2> QED BY <1>5, <2>1, <2>2, <2>3, <2>4 DEF CallerSteps
<1>6. ASSUME NEW l \in Loops, StartHealthChecks(l) \/ Round(l) PROVE RingReads'
  BY <1>4, <1>6, AskLine DEF StartHealthChecks, Round, Shape
<1>7. ASSUME NEW probe, NEW result, Answer(probe, result) \/ Record(probe) PROVE RingReads'
  BY <1>4, <1>7, AskLine DEF Answer, Record, Shape
<1>8. CASE UNCHANGED vars
  BY <1>4, <1>8 DEF vars
<1> QED BY <1>1, <1>5, <1>6, <1>7, <1>8 DEF Steps

(* Who is at rebuild_ring stays there until its call is dropped. *)
LEMMA RebuildingStays ==
  ASSUME Shape, [Next]_vars, NEW d \in Callers, pc[d] = "rebuilding"
  PROVE  pc'[d] \in {"rebuilding", "idle"}
<1>1. Steps
  BY NextSteps
<1>2. ASSUME NEW c \in Callers, CallerSteps(c) PROVE pc'[d] \in {"rebuilding", "idle"}
  <2>1. CASE Ends(c)
    BY <2>1 DEF Ends, Finish, Goto, Shape
  <2>2. CASE ~Ends(c)
    <3>1. pc[c] # "rebuilding"
      BY <1>2, <2>2 DEF CallerSteps, AsksRing, AsksHealth, Searches, SearchHit,
         SearchNext, SearchFail, Searching, AsksNodes, Edits, Rebuilds
    <3> QED BY <1>2, <3>1, OthersUnmoved DEF Unmoved
  <2> QED BY <2>1, <2>2
<1>3. ASSUME NEW l \in Loops, StartHealthChecks(l) \/ Round(l) PROVE pc'[d] = "rebuilding"
  BY <1>3, TasksAssumption DEF StartHealthChecks, Round, Goto, Shape
<1>4. ASSUME NEW probe, NEW result, Answer(probe, result) \/ Record(probe)
      PROVE  pc'[d] = "rebuilding"
  BY <1>4 DEF Answer, Record
<1> QED BY <1>1, <1>2, <1>3, <1>4 DEF Steps, vars

(* A line in which each task asks once stays so as it moves.  In that of   *)
(* the node list, whoever asks again is at rebuild_ring.                   *)
LEMMA OnceMoves ==
  ASSUME NEW lock, AskedOnce(lock), Moves(lock),
         \A d \in Callers :
           lock = "nodes" /\ pc[d] = "rebuilding" /\ d \in InLine(line'[lock])
             => pc'[d] = "rebuilding"
  PROVE  AskedOnce(lock)'
<1> SUFFICES ASSUME NEW r \in DOMAIN line'[lock], NEW q \in DOMAIN line'[lock],
                    r.task = q.task, r # q
             PROVE  lock = "nodes" /\ r.task \in Callers /\ pc'[r.task] = "rebuilding"
  BY DEF AskedOnce
<1>1. r.task \in InLine(line'[lock])
  BY DEF InLine
<1>2. ASSUME r \in DOMAIN line[lock], q \in DOMAIN line[lock]
      PROVE  lock = "nodes" /\ r.task \in Callers /\ pc'[r.task] = "rebuilding"
  BY <1>1, <1>2 DEF AskedOnce
<1>3. CASE line'[lock] = line[lock]
  BY <1>2, <1>3
<1>4. ASSUME NEW u, line'[lock] = Leave(line[lock], u)
      PROVE  r \in DOMAIN line[lock] /\ q \in DOMAIN line[lock]
  BY <1>4, LeaveLine
<1>5. ASSUME NEW u, NEW mode, u \notin InLine(line[lock]),
             line'[lock] = Join(line[lock], u, mode)
      PROVE  r \in DOMAIN line[lock] /\ q \in DOMAIN line[lock]
  <2>1. Request(u, mode).task = u
    BY DEF Request
  <2>2. \A x \in DOMAIN line[lock] : x.task # u
    BY <1>5 DEF InLine
  <2>3. \A x \in DOMAIN line'[lock] : x \in DOMAIN line[lock] \/ x = Request(u, mode)
    BY <1>5, JoinLine
  <2> QED BY <2>1, <2>2, <2>3
<1> QED BY <1>2, <1>3, <1>4, <1>5 DEF Moves, Leaves, Enters

LEMMA AskedOnceStep ==
  ASSUME Shape, Live, SpawnedOnce, [Next]_vars,
         AskedOnce("ring"), AskedOnce("health"), AskedOnce("nodes")
  PROVE  AskedOnce("ring")' /\ AskedOnce("health")' /\ AskedOnce("nodes")'
<1>1. /\ Moves("ring") /\ Moves("health")
      /\ Moves("nodes") \/ Returns
  BY AllMove
<1>2. AskedOnce("ring")' /\ AskedOnce("health")'
  BY <1>1, OnceMoves
<1>3. ASSUME NEW d \in Callers, pc[d] = "rebuilding", d \in InLine(line'["nodes"])
      PROVE  pc'[d] = "rebuilding"
  <2>1. d \notin Loops /\ NodesLive'
    BY LiveStep, TasksAssumption DEF Live
  <2>2. pc'[d] \in AtNodes
    BY <1>3, <2>1 DEF NodesLive
  <2> QED BY <1>3, <2>2, RebuildingStays DEF AtNodes
<1>4. ASSUME Moves("nodes") PROVE AskedOnce("nodes")'
  BY <1>3, <1>4, OnceMoves
<1>5. ASSUME Returns PROVE AskedOnce("nodes")'
  <2>1. PICK c \in Callers :
          pc'[c] = "rebuilding" /\ line'["nodes"] = Join(line["nodes"], c, "read")
    BY <1>5 DEF Returns
  <2>2. ASSUME NEW r \in DOMAIN line'["nodes"], NEW q \in DOMAIN line'["nodes"],
               r.task = q.task, r # q
        PROVE  r.task \in Callers /\ pc'[r.task] = "rebuilding"
    <3>1. Request(c, "read").task = c
      BY DEF Request
    <3>2. \A x \in DOMAIN line'["nodes"] :
            x \in DOMAIN line["nodes"] \/ x = Request(c, "read")
      BY <2>1, JoinLine
    <3>3. CASE r.task = c
      BY <2>1, <3>3
    <3>4. CASE r.task # c
      <4>1. r \in DOMAIN line["nodes"] /\ q \in DOMAIN line["nodes"]
        BY <2>2, <3>1, <3>2, <3>4
      <4>2. r.task \in Callers /\ pc[r.task] = "rebuilding"
        BY <2>2, <4>1 DEF AskedOnce
      <4>3. r.task \in InLine(line'["nodes"])
        BY DEF InLine
      <4> QED BY <1>3, <4>2, <4>3
    <3> QED BY <3>3, <3>4
  <2> QED BY <2>2 DEF AskedOnce
<1> QED BY <1>1, <1>2, <1>4, <1>5

-----------------------------------------------------------------------------
LEMMA HoldingStep ==
  ASSUME Shape, Holding, [Next]_vars
  PROVE  Holding'
<1> USE DEF Locks
<1>1. Steps
  BY NextSteps
<1>2. ASSUME NEW d \in Callers, NEW u, u # d, pc'[d] = pc[d],
             \/ line'["nodes"] = line["nodes"]
             \/ line'["nodes"] = Leave(line["nodes"], u)
             \/ \E mode : line'["nodes"] = Join(line["nodes"], u, mode),
             pc'[d] \in {"inserting", "erasing"}
      PROVE  Granted(line'["nodes"], d, "write")
  <2>1. Granted(line["nodes"], d, "write")
    BY <1>2 DEF Holding
  <2> QED BY <1>2, <2>1, GrantedStays
<1>3. ASSUME NEW c \in Callers, CallerSteps(c) PROVE Holding'
  <2>1. \/ line'["nodes"] = line["nodes"]
        \/ line'["nodes"] = Leave(line["nodes"], c)
        \/ \E mode : line'["nodes"] = Join(line["nodes"], c, mode)
    <3>1. CASE Ends(c)
      BY <3>1, LeaveLines DEF Ends, Finish
    <3>2. CASE Searches(c)
      BY <3>2 DEF Searches, SearchHit, SearchNext, SearchFail
    <3>3. CASE AsksNodes(c) \/ Rebuilds(c)
      BY <3>3, AskLine DEF AsksNodes, Rebuilds
    <3>4. CASE AsksRing(c) \/ AsksHealth(c) \/ Edits(c)
      BY <3>4, AskLine DEF AsksRing, AsksHealth, Edits
    <3> QED BY <1>3, <3>1, <3>2, <3>3, <3>4 DEF CallerSteps
  <2>2. \A d \in Callers : d # c => pc'[d] = pc[d]
    BY <1>3, OthersUnmoved DEF Unmoved
  <2>3. ASSUME pc'[c] \in {"inserting", "erasing"}
        PROVE  Granted(line'["nodes"], c, "write")
    <3>1. ~Ends(c) /\ ~Rebuilds(c)
      BY <2>3 DEF Ends, Finish, Rebuilds, Goto, Shape
    <3>2. ~AsksRing(c) /\ ~AsksHealth(c) /\ ~AsksNodes(c)
      BY <2>3 DEF AsksRing, AsksHealth, AsksNodes, Goto, Shape
    <3>3. ~Searches(c)
      BY <2>3 DEF Searches, SearchHit, SearchNext, SearchFail, Searching, Goto, Shape
    <3>4. Edits(c)
      BY <1>3, <3>1, <3>2, <3>3 DEF CallerSteps
    <3> QED BY <3>4, AskLine DEF Edits, Has
  <2> QED BY <1>2, <2>1, <2>2, <2>3 DEF Holding
<1>4. ASSUME NEW l \in Loops, StartHealthChecks(l) \/ Round(l) PROVE Holding'
  <2>1. l \notin Callers
    BY TasksAssumption
  <2>2. \A d \in Callers : pc'[d] = pc[d]
    BY <1>4, <2>1 DEF StartHealthChecks, Round, Goto, Shape
  <2>3. \/ line'["nodes"] = Leave(line["nodes"], l)
        \/ line'["nodes"] = Join(line["nodes"], l, "read")
    BY <1>4, AskLine DEF StartHealthChecks, Round, Shape
  <2> QED BY <1>2, <2>1, <2>2, <2>3 DEF Holding
<1>5. ASSUME NEW probe, NEW result, Answer(probe, result) \/ Record(probe)
      PROVE  Holding'
  <2>1. pc' = pc /\ line'["nodes"] = line["nodes"]
    BY <1>5, AskLine DEF Answer, Record, Shape
  <2> QED BY <2>1 DEF Holding
<1>6. CASE UNCHANGED vars
  BY <1>6 DEF vars, Holding
<1> QED BY <1>1, <1>3, <1>4, <1>5, <1>6 DEF Steps

LEMMA SpawnedOnceStep ==
  ASSUME Shape, Live, SpawnedOnce, [Next]_vars
  PROVE  SpawnedOnce'
<1>1. Steps
  BY NextSteps
<1>2. ASSUME NEW c \in Callers, CallerSteps(c) PROVE SpawnedOnce'
  <2>1. probes' = probes
    BY <1>2 DEF CallerSteps, Ends, AsksRing, AsksHealth, Searches, SearchHit,
       SearchNext, SearchFail, AsksNodes, Edits, Rebuilds
  <2>2. (\E label : Goto(c, label)) \/ pc' = pc
    BY <1>2 DEF CallerSteps, Ends, Finish, AsksRing, AsksHealth, Searches, SearchHit,
       SearchNext, SearchFail, AsksNodes, Edits, Rebuilds
  <2>3. \A l \in Loops : pc'[l] = pc[l]
    BY <2>2, TasksAssumption DEF Goto, Shape
  <2> QED BY <2>1, <2>3 DEF SpawnedOnce
<1>3. ASSUME NEW l \in Loops, StartHealthChecks(l) PROVE SpawnedOnce'
  BY <1>3 DEF StartHealthChecks, Goto, Shape, SpawnedOnce
<1>4. ASSUME NEW l \in Loops, Round(l) PROVE SpawnedOnce'
  <2> DEFINE spawned == {[loop |-> l, place |-> k, id |-> nodes[k], result |-> "pending"] :
                           k \in Places}
  <2>1. /\ pc[l] = "ticking" /\ pc'[l] = "blocked"
        /\ \A other \in Loops : other # l => pc'[other] = pc[other]
        /\ probes' = probes \cup spawned
    BY <1>4 DEF Round, Goto, Shape
  <2>2. \A p \in spawned : p.loop = l /\ p.place \in 1 .. MaxNodes
    BY DEF Places
  <2>3. \A p, q \in spawned : p.place = q.place => p = q
    OBVIOUS
  <2>4. \A p \in probes : p.loop # l
    BY <2>1 DEF SpawnedOnce
  <2> HIDE DEF spawned
  <2> QED BY <2>1, <2>2, <2>3, <2>4 DEF SpawnedOnce
<1>5. ASSUME NEW probe \in probes, Record(probe) PROVE SpawnedOnce'
  BY <1>5 DEF Record, SpawnedOnce
<1>6. ASSUME NEW probe \in probes, NEW result, Answer(probe, result) PROVE SpawnedOnce'
  <2> DEFINE answered == [probe EXCEPT !.result = result]
  <2>1. /\ probes' = (probes \ {probe}) \cup {answered}
        /\ pc' = pc
    BY <1>6 DEF Answer
  <2>2. answered.loop = probe.loop /\ answered.place = probe.place
    BY DEF Live, ProbesTyped
  <2> HIDE DEF answered
  <2> QED BY <2>1, <2>2 DEF SpawnedOnce
<1>7. CASE UNCHANGED vars
  BY <1>7 DEF vars, SpawnedOnce
<1> QED BY <1>1, <1>2, <1>3, <1>4, <1>5, <1>6, <1>7 DEF Steps

-----------------------------------------------------------------------------
LockInv ==
  /\ Shape /\ Live /\ SpawnedOnce /\ RingReads /\ Holding
  /\ AskedOnce("ring") /\ AskedOnce("health") /\ AskedOnce("nodes")

LEMMA InitLockInv == ASSUME Init PROVE LockInv
<1>1. Shape /\ Live
  BY InitShape, InitLive
<1>2. DOMAIN Nobody = {}
  BY DEF Nobody
<1>3. \A lock \in Locks : AskedOnce(lock)
  BY <1>2 DEF Init, AskedOnce, Locks
<1>4. SpawnedOnce /\ RingReads /\ Holding
  BY <1>2 DEF Init, SpawnedOnce, RingReads, Holding
<1> QED BY <1>1, <1>3, <1>4 DEF LockInv, Locks

LEMMA LockInvStep ==
  ASSUME LockInv, [Next]_vars
  PROVE  LockInv'
<1>1. Shape' /\ Live'
  BY ShapeStep, LiveStep DEF LockInv
<1>2. SpawnedOnce' /\ RingReads' /\ Holding'
  BY SpawnedOnceStep, RingReadsStep, HoldingStep DEF LockInv
<1>3. AskedOnce("ring")' /\ AskedOnce("health")' /\ AskedOnce("nodes")'
  BY AskedOnceStep DEF LockInv
<1> QED BY <1>1, <1>2, <1>3 DEF LockInv

(* t has asked for the lock and is not served. *)
WaitsAt(t, lock) ==
  \E mode : Request(t, mode) \in DOMAIN line[lock] /\ ~Granted(line[lock], t, mode)

LEMMA WaitsSomewhere ==
  ASSUME Shape, NEW t, WaitsForLock(t)
  PROVE  WaitsAt(t, "ring") \/ WaitsAt(t, "health") \/ WaitsAt(t, "nodes")
<1>1. DOMAIN line = Locks
  BY DEF Shape
<1> QED BY <1>1 DEF WaitsForLock, WaitsAt, Has, Locks

LEMMA WaitsInLine ==
  ASSUME NEW t, NEW lock, WaitsAt(t, lock)
  PROVE  t \in InLine(line[lock])
<1>1. \A mode : Request(t, mode).task = t
  BY DEF Request
<1> QED BY <1>1 DEF WaitsAt, InLine

LEMMA RingNeverWaits ==
  ASSUME RingReads, NEW t, WaitsAt(t, "ring")
  PROVE  FALSE
<1>1. \A mode : Request(t, mode).mode = mode
  BY DEF Request
<1> QED BY <1>1 DEF RingReads, WaitsAt, Granted

(* Who is first is served, unless it is at rebuild_ring. *)
LEMMA FirstIsServed ==
  ASSUME NEW lock, AskedOnce(lock), NEW first \in First(line[lock]),
         WaitsAt(first.task, lock)
  PROVE  lock = "nodes" /\ Stuck(first.task)
<1>1. PICK mode : /\ Request(first.task, mode) \in DOMAIN line[lock]
                  /\ ~Granted(line[lock], first.task, mode)
  BY DEF WaitsAt
<1>2. first \in DOMAIN line[lock] /\ line[lock][first] = {}
  BY DEF First
<1>3. Request(first.task, mode).task = first.task
  BY DEF Request
<1>4. Request(first.task, mode) # first
  BY <1>1, <1>2 DEF Granted
<1> QED BY <1>1, <1>2, <1>3, <1>4 DEF AskedOnce, Stuck

LEMMA OthersDoNotBlock == ASSUME LockInv PROVE OnlyUpdatesAndRoundsBlock
<1>1. Shape /\ RingLive /\ NodesLive /\ HealthLive /\ RingReads
  BY DEF LockInv, Live
<1>2. \A u \in Checks : u \notin Callers \cup Loops
  BY ChecksApart DEF LockInv, Checks
<1>3. \A c \in Callers : c \notin Loops
  BY TasksAssumption
<1>4. ASSUME NEW first \in First(line["health"]), WaitsForLock(first.task)
      PROVE  Stuck(first.task)
  <2> DEFINE t == first.task
  <2>1. t \in InLine(line["health"])
    BY DEF First, InLine
  <2>2. WaitsAt(t, "nodes")
    BY <1>1, <1>4, WaitsSomewhere, RingNeverWaits, FirstIsServed DEF LockInv
  <2>3. t \in InLine(line["nodes"])
    BY <2>2, WaitsInLine
  <2>4. t \in Callers /\ pc[t] \in {"inserting", "erasing", "rebuilding"}
    BY <1>1, <1>2, <1>3, <2>1, <2>3 DEF HealthLive, NodesLive, AtHealth, AtNodes
  <2>5. CASE pc[t] \in {"inserting", "erasing"}
    <3>1. Granted(line["nodes"], t, "write")
      BY <2>4, <2>5 DEF LockInv, Holding
    <3>2. PICK mode : /\ Request(t, mode) \in DOMAIN line["nodes"]
                      /\ ~Granted(line["nodes"], t, mode)
      BY <2>2 DEF WaitsAt
    <3>3. Request(t, mode).task = t /\ Request(t, "write").task = t
      BY DEF Request
    <3>4. Request(t, mode) = Request(t, "write")
      BY <2>5, <3>1, <3>2, <3>3 DEF LockInv, AskedOnce, Granted
    <3>5. mode = "write"
      BY <3>4 DEF Request
    <3> QED BY <3>1, <3>2, <3>5
  <2> QED BY <2>4, <2>5 DEF Stuck
<1>5. ASSUME NEW first \in First(line["nodes"]),
             WaitsForLock(first.task), ~Stuck(first.task)
      PROVE  first.task \in InLine(line["health"])
  BY <1>1, <1>5, WaitsSomewhere, RingNeverWaits, WaitsInLine, FirstIsServed DEF LockInv
<1>6. ASSUME NEW first \in First(line["ring"])
      PROVE  CanGoOn(first.task) \/ first.task \in InLine(line["health"])
  <2> DEFINE t == first.task
  <2>1. t \in InLine(line["ring"])
    BY DEF First, InLine
  <2>2. t \in Callers /\ pc[t] \in AtRing
    BY <1>1, <2>1 DEF RingLive
  <2>3. t \notin InLine(line["nodes"])
    BY <1>1, <1>3, <2>2 DEF NodesLive, AtRing, AtNodes
  <2>4. WaitsForLock(t) => t \in InLine(line["health"])
    BY <1>1, <2>3, WaitsSomewhere, RingNeverWaits, WaitsInLine
  <2> QED BY <2>2, <2>4 DEF CanGoOn, Starved
<1>7. ASSUME NEW c \in Callers, pc[c] = "getting", WaitsForLock(c)
      PROVE  FALSE
  <2>1. c \in InLine(line["health"]) \/ c \in InLine(line["nodes"])
    BY <1>1, <1>7, WaitsSomewhere, RingNeverWaits, WaitsInLine
  <2> QED BY <1>1, <1>2, <1>3, <1>7, <2>1 DEF HealthLive, NodesLive, AtHealth, AtNodes
<1> QED BY <1>4, <1>5, <1>6, <1>7 DEF OnlyUpdatesAndRoundsBlock, CanGoOn

(* No two tasks wait for each other: only an update stuck in rebuild_ring, *)
(* and a loop or a check that was given its lock when no worker thread was *)
(* left, keep a lock for good; nothing keeps a get waiting for one         *)
(* (health.rs 136-223, 255-269, 308).                                      *)
THEOREM HealthOnlyUpdatesAndRoundsBlock == Spec => []OnlyUpdatesAndRoundsBlock
BY InitLockInv, LockInvStep, OthersDoNotBlock, PTL DEF Spec
-----------------------------------------------------------------------------
(* The node list.  Every rank is that of one place.                        *)
LEMMA RankOnto ==
  ASSUME NEW n \in Nat, NEW places \in SUBSET (1 .. n)
  PROVE  /\ IsFiniteSet(places)
         /\ Cardinality(places) \in Nat
         /\ \A i \in 1 .. Cardinality(places) : \E k \in places : Rank(places, k) = i
<1>1. IsFiniteSet(1 .. n)
  BY FS_Interval
<1>2. IsFiniteSet(places)
  BY <1>1, FS_Subset
<1>3. PICK m \in Nat : m = Cardinality(places)
  BY <1>2, FS_CardinalityType
<1> DEFINE upto(k) == {j \in places : j <= k}
           rank == [k \in places |-> Cardinality(upto(k))]
<1>4. ASSUME NEW k \in places
      PROVE  /\ IsFiniteSet(upto(k)) /\ Cardinality(upto(k)) \in Nat
             /\ Cardinality(upto(k)) <= m /\ Cardinality(upto(k)) # 0
  <2>1. upto(k) \in SUBSET places /\ k \in upto(k)
    OBVIOUS
  <2> HIDE DEF upto
  <2>2. IsFiniteSet(upto(k)) /\ Cardinality(upto(k)) <= Cardinality(places)
    BY <1>2, <2>1, FS_Subset
  <2>3. Cardinality(upto(k)) \in Nat
    BY <2>2, FS_CardinalityType
  <2>4. Cardinality(upto(k)) # 0
    BY <2>1, <2>2, FS_EmptySet
  <2> QED BY <1>3, <2>2, <2>3, <2>4
<1>5. ASSUME NEW k \in places, NEW l \in places, k < l
      PROVE  Cardinality(upto(k)) # Cardinality(upto(l))
  <2>5. k \in Int /\ l \in Int /\ \A j \in places : j \in Int
    OBVIOUS
  <2>4. ~(l <= k) /\ l <= l /\ \A j \in places : j <= k => j <= l
    BY <1>5, <2>5
  <2>1. upto(k) \in SUBSET upto(l) /\ l \in upto(l) /\ l \notin upto(k)
    BY <2>4
  <2>2. upto(k) # upto(l)
    BY <2>1
  <2>3. IsFiniteSet(upto(l))
    BY <1>4
  <2> HIDE DEF upto
  <2> QED BY <2>1, <2>2, <2>3, FS_Subset
<1>6. rank \in [places -> 1 .. m]
  <2>1. \A k \in places : Cardinality(upto(k)) \in 1 .. m
    <3> HIDE DEF upto
    <3> QED BY <1>4
  <2> QED BY <2>1
<1>7. \A k, l \in places : rank[k] = rank[l] => k = l
  <2>1. \A k, l \in places : k # l => k < l \/ l < k
    OBVIOUS
  <2> HIDE DEF upto
  <2> QED BY <1>5, <2>1
<1>8. rank \in Injection(places, 1 .. m)
  BY <1>6, <1>7 DEF Injection, IsInjective
<1>9. IsFiniteSet(1 .. m) /\ Cardinality(1 .. m) = m
  BY FS_Interval
<1>10. rank \in Surjection(places, 1 .. m)
  BY <1>3, <1>8, <1>9, FS_Injection
<1>11. \A i \in 1 .. m : \E k \in places : rank[k] = i
  BY <1>10 DEF Surjection
<1>12. \A k \in places : rank[k] = Rank(places, k)
  BY DEF Rank
<1> HIDE DEF rank
<1> QED BY <1>2, <1>3, <1>11, <1>12

(* The places of an id. *)
PlacesOf(s, id) == {k \in DOMAIN s : s[k] = id}

LEMMA PlacesOfFinite ==
  ASSUME NEW S, NEW s \in Seq(S), NEW id
  PROVE  /\ IsFiniteSet(PlacesOf(s, id))
         /\ Copies(s, id) = Cardinality(PlacesOf(s, id))
         /\ Copies(s, id) \in Nat
<1>1. Len(s) \in Nat /\ DOMAIN s = 1 .. Len(s)
  OBVIOUS
<1>2. PlacesOf(s, id) \in SUBSET (1 .. Len(s))
  BY <1>1 DEF PlacesOf
<1>3. IsFiniteSet(PlacesOf(s, id))
  <2>1. PICK n \in Nat : n = Len(s)
    BY <1>1
  <2>2. IsFiniteSet(1 .. n)
    BY FS_Interval
  <2> QED BY <1>2, <2>1, <2>2, FS_Subset
<1> QED BY <1>3, FS_CardinalityType DEF Copies, PlacesOf

(* What retain leaves was there before, and no id gains a place.           *)
LEMMA WithoutKeeps ==
  ASSUME NEW S, NEW s \in Seq(S), NEW x, NEW id
  PROVE  Without(s, x) \in Seq(S) /\ Copies(Without(s, x), id) <= Copies(s, id)
<1> DEFINE kept == {k \in DOMAIN s : s[k] # x}
<1>1. PICK n \in Nat : n = Len(s) /\ DOMAIN s = 1 .. n
  OBVIOUS
<1>2. kept \in SUBSET (1 .. n)
  BY <1>1
<1>a. \A k \in kept : s[k] \in S /\ k \in DOMAIN s
  BY <1>1
<1>w. Without(s, x) =
        [i \in 1 .. Cardinality(kept) |-> s[CHOOSE k \in kept : Rank(kept, k) = i]]
  BY DEF Without
<1> HIDE DEF kept
<1>3. PICK m \in Nat : m = Cardinality(kept)
  BY <1>1, <1>2, RankOnto
<1> DEFINE place(i) == CHOOSE k \in kept : Rank(kept, k) = i
<1>4. \A i \in 1 .. m : place(i) \in kept /\ Rank(kept, place(i)) = i
  BY <1>1, <1>2, <1>3, RankOnto
<1>5. Without(s, x) = [i \in 1 .. m |-> s[place(i)]]
  BY <1>w, <1>3
<1> HIDE DEF place
<1>6. Without(s, x) \in Seq(S)
  <2>1. \A i \in 1 .. m : s[place(i)] \in S
    BY <1>4, <1>a
  <2> QED BY <1>5, <2>1
<1>7. PlacesOf(Without(s, x), id) = {i \in 1 .. m : s[place(i)] = id}
  BY <1>5 DEF PlacesOf
<1> DEFINE from == [i \in PlacesOf(Without(s, x), id) |-> place(i)]
<1>8. from \in Injection(PlacesOf(Without(s, x), id), PlacesOf(s, id))
  <2>1. \A i \in PlacesOf(Without(s, x), id) : place(i) \in PlacesOf(s, id)
    BY <1>4, <1>7, <1>a DEF PlacesOf
  <2>2. \A i, j \in PlacesOf(Without(s, x), id) : place(i) = place(j) => i = j
    BY <1>4, <1>7
  <2> QED BY <2>1, <2>2 DEF Injection, IsInjective
<1>9. Cardinality(PlacesOf(Without(s, x), id)) <= Cardinality(PlacesOf(s, id))
  <2>1. IsFiniteSet(PlacesOf(s, id))
    BY PlacesOfFinite
  <2> QED BY <1>8, <2>1, FS_Injection
<1> QED BY <1>6, <1>9, PlacesOfFinite

LEMMA AppendKeeps ==
  ASSUME NEW S, NEW s \in Seq(S), NEW x \in S, NEW id, id # x
  PROVE  Append(s, x) \in Seq(S) /\ Copies(Append(s, x), id) = Copies(s, id)
<1>1. Append(s, x) \in Seq(S)
  OBVIOUS
<1>2. PlacesOf(Append(s, x), id) = PlacesOf(s, id)
  BY DEF PlacesOf
<1> QED BY <1>1, <1>2, PlacesOfFinite
-----------------------------------------------------------------------------
(* What an update was called with, while it needs it.                      *)
Named == {"adding", "removing", "inserting", "erasing"}

ArgTyped ==
  /\ arg = [c \in Callers |-> arg[c]]
  /\ \A c \in Callers : pc[c] \in Named => arg[c] \in UpdateIds

Keeps(c) ==
  /\ arg' = arg
  /\ \E label : Goto(c, label) /\ (label \in Named => pc[c] \in Named)

Takes(c) ==
  \/ \E label : \E id \in UpdateIds : Goto(c, label) /\ arg' = [arg EXCEPT ![c] = id]
  \/ Goto(c, "idle") /\ arg' = [arg EXCEPT ![c] = None]

LEMMA ArgMoves ==
  ASSUME [Next]_vars
  PROVE  \/ \E c \in Callers : Keeps(c) \/ Takes(c)
         \/ arg' = arg /\ \A c \in Callers : pc[c] = pc'[c] \/ ~Shape
<1>1. ASSUME NEW c \in Callers, Call(c) PROVE Keeps(c) \/ Takes(c)
  <2>1. CASE Get(c)
    BY <2>1 DEF Get, Keeps, Named
  <2>2. CASE HealthStatus(c)
    BY <2>2 DEF HealthStatus, Keeps, Named
  <2>3. CASE Stats(c)
    BY <2>3 DEF Stats, Keeps, Named
  <2>4. CASE \E h \in Hashes : GetHealthy(c, h)
    BY <2>4 DEF GetHealthy, Keeps, Named
  <2>5. CASE \E id \in UpdateIds : AddNode(c, id) \/ RemoveNode(c, id) \/ UpdateWeight(c, id)
    BY <2>5 DEF AddNode, RemoveNode, UpdateWeight, Update, Takes
  <2> QED BY <1>1, <2>1, <2>2, <2>3, <2>4, <2>5 DEF Call
<1>2. ASSUME NEW c \in Callers, Proceed(c) \/ Cancel(c)
      PROVE  Keeps(c) \/ Takes(c) \/ (pc' = pc /\ arg' = arg)
  <2>1. CASE GetReturn(c) \/ GetHealthyReturn(c) \/ ReadReturn(c) \/ NodeNotFound(c) \/ Cancel(c)
    BY <2>1 DEF GetReturn, GetHealthyReturn, ReadReturn, NodeNotFound, Cancel, Finish, Takes
  <2>2. CASE EnterHealth(c) \/ StatsHealth(c)
    BY <2>2 DEF EnterHealth, StatsHealth, Keeps, Named
  <2>3. CASE SearchHit(c) \/ SearchFail(c)
    BY <2>3 DEF SearchHit, SearchFail, Keeps, Named
  <2>4. CASE SearchNext(c)
    BY <2>4 DEF SearchNext
  <2>5. CASE Push(c)
    BY <2>5 DEF Push, Keeps, Named
  <2>6. CASE Retain(c)
    BY <2>6 DEF Retain, Keeps, Named
  <2>7. CASE Insert(c) \/ Erase(c) \/ Reweigh(c)
    BY <2>7 DEF Insert, Erase, Reweigh, Keeps, Named
  <2> QED BY <1>2, <2>1, <2>2, <2>3, <2>4, <2>5, <2>6, <2>7 DEF Proceed
<1>3. ASSUME NEW l \in Loops, StartHealthChecks(l) \/ Round(l)
      PROVE  arg' = arg /\ \A c \in Callers : pc[c] = pc'[c] \/ ~Shape
  BY <1>3, TasksAssumption DEF StartHealthChecks, Round, Goto, Shape
<1>4. ASSUME NEW probe, NEW result, Answer(probe, result) \/ Record(probe)
      PROVE  arg' = arg /\ pc' = pc
  BY <1>4 DEF Answer, Record
<1>5. CASE UNCHANGED vars
  BY <1>5 DEF vars
<1> QED BY <1>1, <1>2, <1>3, <1>4, <1>5 DEF Next, Recording

LEMMA ArgTypedStep ==
  ASSUME Shape, ArgTyped, [Next]_vars
  PROVE  ArgTyped'
<1>1. ASSUME NEW c \in Callers, Keeps(c) PROVE ArgTyped'
  BY <1>1 DEF Keeps, Goto, ArgTyped, Shape
<1>2. ASSUME NEW c \in Callers, Takes(c) PROVE ArgTyped'
  <2>1. ASSUME NEW label, NEW id \in UpdateIds,
               Goto(c, label), arg' = [arg EXCEPT ![c] = id]
        PROVE  ArgTyped'
    BY <2>1 DEF Goto, ArgTyped, Shape
  <2>2. ASSUME Goto(c, "idle"), arg' = [arg EXCEPT ![c] = None]
        PROVE  ArgTyped'
    BY <2>2 DEF Goto, ArgTyped, Shape, Named
  <2> QED BY <1>2, <2>1, <2>2 DEF Takes
<1> QED BY <1>1, <1>2, ArgMoves DEF ArgTyped

(* How the node list changes. *)
LEMMA NodesMove ==
  ASSUME [Next]_vars
  PROVE  \/ nodes' = nodes
         \/ \E c \in Callers : /\ pc[c] \in Named
                              /\ \/ nodes' = Append(nodes, arg[c])
                                 \/ nodes' = Without(nodes, arg[c])
<1>1. ASSUME NEW c \in Callers, Call(c) PROVE nodes' = nodes
  BY <1>1 DEF Call, Get, HealthStatus, Stats, GetHealthy, AddNode, RemoveNode,
              UpdateWeight, Update
<1>2. ASSUME NEW c \in Callers, Push(c) \/ Retain(c)
      PROVE  /\ pc[c] \in Named
             /\ nodes' = Append(nodes, arg[c]) \/ nodes' = Without(nodes, arg[c])
  BY <1>2 DEF Push, Retain, Named
<1>3. ASSUME NEW c \in Callers, Proceed(c) \/ Cancel(c), ~(Push(c) \/ Retain(c))
      PROVE  nodes' = nodes
  BY <1>3 DEF Proceed, Cancel, GetReturn, StatsHealth, ReadReturn, EnterHealth, SearchHit,
              SearchNext, SearchFail, GetHealthyReturn, Insert, Erase, Reweigh, NodeNotFound
<1>4. ASSUME NEW l \in Loops, StartHealthChecks(l) \/ Round(l) PROVE nodes' = nodes
  BY <1>4 DEF StartHealthChecks, Round
<1>5. ASSUME NEW probe, NEW result, Answer(probe, result) \/ Record(probe)
      PROVE  nodes' = nodes
  BY <1>5 DEF Answer, Record
<1> QED BY <1>1, <1>2, <1>3, <1>4, <1>5 DEF Next, Recording, vars

(* An id that is not updated is in the list at most as often as in the ring. *)
ListKept ==
  /\ nodes \in Seq(Ids)
  /\ \A id \in Ids \ UpdateIds : Copies(nodes, id) <= Copies(RingIds, id)

LEMMA ListKeptStep ==
  ASSUME ArgTyped, ListKept, [Next]_vars
  PROVE  ListKept'
<1>1. ASSUME NEW c \in Callers, pc[c] \in Named, nodes' = Append(nodes, arg[c])
      PROVE  ListKept'
  <2>1. arg[c] \in UpdateIds /\ arg[c] \in Ids
    BY <1>1, TasksAssumption DEF ArgTyped
  <2>2. nodes \in Seq(Ids)
    BY DEF ListKept
  <2>3. \A id : id # arg[c] => /\ nodes' \in Seq(Ids)
                               /\ Copies(nodes', id) = Copies(nodes, id)
    BY <1>1, <2>1, <2>2, AppendKeeps
  <2>4. nodes' \in Seq(Ids)
    BY <1>1, <2>1, <2>2
  <2> QED BY <2>1, <2>3, <2>4 DEF ListKept, Copies
<1>2. ASSUME NEW c \in Callers, pc[c] \in Named, nodes' = Without(nodes, arg[c])
      PROVE  ListKept'
  <2>1. nodes \in Seq(Ids)
    BY DEF ListKept
  <2>2. \A id : nodes' \in Seq(Ids) /\ Copies(nodes', id) <= Copies(nodes, id)
    BY <1>2, <2>1, WithoutKeeps
  <2>3. ASSUME NEW id \in Ids \ UpdateIds
        PROVE  Copies(nodes', id) <= Copies(RingIds, id)
    <3>1. PICK x \in Nat : x = Copies(nodes', id)
      BY <2>2, PlacesOfFinite
    <3>2. PICK y \in Nat : y = Copies(nodes, id)
      BY <2>1, PlacesOfFinite
    <3>3. PICK z \in Nat : z = Copies(RingIds, id)
      BY RingAssumption, PlacesOfFinite
    <3>4. x <= y /\ y <= z
      BY <2>2, <3>1, <3>2, <3>3 DEF ListKept
    <3>5. x <= z
      BY <3>4
    <3> QED BY <3>1, <3>3, <3>5
  <2> QED BY <2>2, <2>3 DEF ListKept, Copies
<1>3. CASE nodes' = nodes
  BY <1>3 DEF ListKept, Copies
<1> QED BY <1>1, <1>2, <1>3, NodesMove
-----------------------------------------------------------------------------
(* The results a node can have.  Each round of a loop is worth as many as  *)
(* the node has entries; a check that is under way is worth one, and so is *)
(* a success that was counted.                                             *)
Pending(id) == {p \in probes : p.id = id}

Worth(id) == Cardinality(Blocked) * Copies(RingIds, id)

Quota(id) ==
  /\ IsFiniteSet(Pending(id))
  /\ health[id] # None =>
       /\ health[id].successes + Cardinality(Pending(id)) <= Worth(id)
       /\ health[id].status = "Healthy" => HealthyThreshold <= Worth(id)

Quotas ==
  /\ IsFiniteSet(Blocked)
  /\ \A id \in Ids \ UpdateIds : Quota(id)

(* As long as no loop is blocked and the checks of a node are no more, its *)
(* quota stands.                                                           *)
LEMMA QuotaStands ==
  ASSUME Quotas, NEW id \in Ids \ UpdateIds,
         Blocked' = Blocked, health'[id] = health[id], Series,
         IsFiniteSet(Pending(id)'), Cardinality(Pending(id)') <= Cardinality(Pending(id))
  PROVE  Quota(id)'
<1>1. IsFiniteSet(Blocked) /\ Quota(id)
  BY DEF Quotas
<1>2. PICK b \in Nat : b = Cardinality(Blocked)
  BY <1>1, FS_CardinalityType
<1>3. PICK o \in Nat : o = Copies(RingIds, id)
  BY RingAssumption, PlacesOfFinite
<1>4. PICK p \in Nat : p = Cardinality(Pending(id))
  BY <1>1, FS_CardinalityType DEF Quota
<1>5. PICK q \in Nat : q = Cardinality(Pending(id)')
  BY FS_CardinalityType
<1>6. PICK w \in Nat : w = b * o
  OBVIOUS
<1>7. Worth(id) = w /\ Worth(id)' = w
  BY <1>2, <1>3, <1>6 DEF Worth, Copies
<1>8. ASSUME health[id] # None
      PROVE  health[id].successes + q <= w
  <2>1. PICK n \in Nat : n = health[id].successes
    BY <1>8 DEF Series, HealthTyped, NodeHealth
  <2>2. n + p <= w
    BY <1>1, <1>4, <1>7, <1>8, <2>1 DEF Quota
  <2>3. n + q <= w
    BY <1>4, <1>5, <2>2
  <2> QED BY <2>1, <2>3
<1> QED BY <1>1, <1>5, <1>7, <1>8 DEF Quota

LEMMA BlockedSame ==
  ASSUME \A l \in Loops : pc'[l] = pc[l]
  PROVE  Blocked' = Blocked
BY DEF Blocked

LEMMA PendingFinite ==
  ASSUME Quotas, NEW id \in Ids \ UpdateIds
  PROVE  IsFiniteSet(Pending(id)) /\ Cardinality(Pending(id)) \in Nat
BY FS_CardinalityType DEF Quotas, Quota

LEMMA CallerQuota ==
  ASSUME Shape, Series, ArgTyped, Quotas, NEW c \in Callers, CallerSteps(c)
  PROVE  Quotas'
<1>1. probes' = probes
  BY DEF CallerSteps, Ends, AsksRing, AsksHealth, Searches, SearchHit,
     SearchNext, SearchFail, AsksNodes, Edits, Rebuilds
<1>2. \A l \in Loops : pc'[l] = pc[l]
  <2>1. (\E label : Goto(c, label)) \/ pc' = pc
    BY DEF CallerSteps, Ends, Finish, AsksRing, AsksHealth, Searches, SearchHit,
       SearchNext, SearchFail, AsksNodes, Edits, Rebuilds
  <2> QED BY <2>1, TasksAssumption DEF Goto, Shape
<1>3. ASSUME NEW id \in Ids \ UpdateIds PROVE health'[id] = health[id]
  <2>1. CASE Rebuilds(c)
    <3>1. \/ health' = health
          \/ \E h : health' = [health EXCEPT ![arg[c]] = h] /\ pc[c] \in Named
      BY <2>1 DEF Rebuilds, Named
    <3>2. pc[c] \in Named => arg[c] # id
      BY DEF ArgTyped
    <3> QED BY <3>1, <3>2 DEF Series, HealthTyped
  <2>2. CASE ~Rebuilds(c)
    BY <2>2 DEF CallerSteps, Ends, AsksRing, AsksHealth, Searches, SearchHit,
       SearchNext, SearchFail, AsksNodes, Edits
  <2> QED BY <2>1, <2>2
<1>4. Blocked' = Blocked
  BY <1>2, BlockedSame
<1>5. ASSUME NEW id \in Ids \ UpdateIds PROVE Quota(id)'
  <2>1. Pending(id)' = Pending(id)
    BY <1>1 DEF Pending
  <2>2. PICK p \in Nat : p = Cardinality(Pending(id))
    BY PendingFinite
  <2>3. IsFiniteSet(Pending(id)')
    BY <2>1, PendingFinite
  <2>4. Cardinality(Pending(id)') <= Cardinality(Pending(id))
    BY <2>1, <2>2
  <2> QED BY <1>3, <1>4, <2>3, <2>4, QuotaStands
<1> QED BY <1>4, <1>5 DEF Quotas

LEMMA StartQuota ==
  ASSUME Shape, Series, Quotas, NEW l \in Loops, StartHealthChecks(l)
  PROVE  Quotas'
<1>1. Blocked' = Blocked
  BY DEF StartHealthChecks, Goto, Shape, Blocked
<1>2. ASSUME NEW id \in Ids \ UpdateIds PROVE Quota(id)'
  <2>1. Pending(id)' = Pending(id) /\ health' = health
    BY DEF StartHealthChecks, Pending
  <2>2. PICK p \in Nat : p = Cardinality(Pending(id))
    BY PendingFinite
  <2>3. IsFiniteSet(Pending(id)')
    BY <2>1, PendingFinite
  <2>4. Cardinality(Pending(id)') <= Cardinality(Pending(id))
    BY <2>1, <2>2
  <2> QED BY <1>1, <2>1, <2>3, <2>4, QuotaStands
<1> QED BY <1>1, <1>2 DEF Quotas

(* A check that is answered is one of the same node. *)
LEMMA AnswerQuota ==
  ASSUME Live, Series, Quotas, NEW probe \in probes, NEW result, Answer(probe, result)
  PROVE  Quotas'
<1> DEFINE answered == [probe EXCEPT !.result = result]
<1>1. probes' = (probes \ {probe}) \cup {answered} /\ pc' = pc /\ health' = health
  BY DEF Answer
<1>2. answered.id = probe.id
  BY DEF Live, ProbesTyped
<1> HIDE DEF answered
<1>3. Blocked' = Blocked
  BY <1>1 DEF Blocked
<1>4. ASSUME NEW id \in Ids \ UpdateIds PROVE Quota(id)'
  <2>1. PICK p \in Nat : p = Cardinality(Pending(id))
    BY PendingFinite
  <2>2. IsFiniteSet(Pending(id))
    BY PendingFinite
  <2>3. CASE probe.id # id
    <3>1. Pending(id)' = Pending(id)
      BY <1>1, <1>2, <2>3 DEF Pending
    <3>2. Cardinality(Pending(id)') <= Cardinality(Pending(id))
      BY <2>1, <3>1
    <3> QED BY <1>1, <1>3, <2>2, <3>1, <3>2, QuotaStands
  <2>4. CASE probe.id = id
    <3> DEFINE others == Pending(id) \ {probe}
    <3>1. Pending(id)' = others \cup {answered} /\ probe \in Pending(id)
      BY <1>1, <1>2, <2>4 DEF Pending
    <3>2. IsFiniteSet(others) /\ Cardinality(others) = p - 1
      BY <2>1, <2>2, <3>1, FS_RemoveElement
    <3> HIDE DEF others
    <3>3. /\ IsFiniteSet(others \cup {answered})
          /\ \/ Cardinality(others \cup {answered}) = Cardinality(others)
             \/ Cardinality(others \cup {answered}) = Cardinality(others) + 1
      BY <3>2, FS_AddElement
    <3>4. IsFiniteSet(Pending(id)')
      BY <3>1, <3>3
    <3>5. Cardinality(Pending(id)') <= Cardinality(Pending(id))
      BY <2>1, <3>1, <3>2, <3>3
    <3> QED BY <1>1, <1>3, <3>4, <3>5, QuotaStands
  <2> QED BY <2>3, <2>4
<1> QED BY <1>3, <1>4 DEF Quotas

(* A check that ends is worth one success at most. *)
LEMMA RecordQuota ==
  ASSUME Series, Quotas, NEW probe \in probes, Record(probe)
  PROVE  Quotas'
<1>1. /\ probes' = probes \ {probe} /\ pc' = pc
      /\ health' = [health EXCEPT ![probe.id] =
                      IF @ = None THEN None ELSE Outcome(probe, @)]
  BY DEF Record
<1>2. Blocked' = Blocked
  BY <1>1 DEF Blocked
<1>3. ASSUME NEW id \in Ids \ UpdateIds PROVE Quota(id)'
  <2>1. PICK p \in Nat : p = Cardinality(Pending(id))
    BY PendingFinite
  <2>2. IsFiniteSet(Pending(id)) /\ Quota(id) /\ IsFiniteSet(Blocked)
    BY PendingFinite DEF Quotas
  <2>3. Pending(id)' = Pending(id) \ {probe}
    BY <1>1 DEF Pending
  <2>4. /\ IsFiniteSet(Pending(id)')
        /\ probe \in Pending(id) => Cardinality(Pending(id)') = p - 1
        /\ probe \notin Pending(id) => Cardinality(Pending(id)') = p
    BY <2>1, <2>2, <2>3, FS_RemoveElement
  <2>5. PICK q \in Nat : q = Cardinality(Pending(id)')
    BY <2>4, FS_CardinalityType
  <2>6. CASE health'[id] = health[id]
    <3>1. q <= p
      BY <2>4, <2>5
    <3>2. Cardinality(Pending(id)') <= Cardinality(Pending(id))
      BY <2>1, <2>5, <3>1
    <3> QED BY <1>2, <2>4, <2>6, <3>2, QuotaStands
  <2>7. CASE health'[id] # health[id]
    <3>1. /\ probe.id = id /\ health[id] # None
          /\ health'[id] = Outcome(probe, health[id])
      BY <1>1, <2>7 DEF Series, HealthTyped
    <3>2. q = p - 1
      <4>1. probe \in Pending(id)
        BY <3>1 DEF Pending
      <4> QED BY <2>4, <2>5, <4>1
    <3>3. PICK b \in Nat : b = Cardinality(Blocked)
      BY <2>2, FS_CardinalityType
    <3>4. PICK o \in Nat : o = Copies(RingIds, id)
      BY RingAssumption, PlacesOfFinite
    <3>5. PICK w \in Nat : w = b * o
      OBVIOUS
    <3>6. Worth(id) = w /\ Worth(id)' = w
      BY <1>2, <3>3, <3>4, <3>5 DEF Worth, Copies
    <3>7. PICK n \in Nat : n = health[id].successes
      BY <3>1 DEF Series, HealthTyped, NodeHealth
    <3>8. n + p <= w /\ (health[id].status = "Healthy" => HealthyThreshold <= w)
      BY <2>1, <2>2, <3>1, <3>6, <3>7 DEF Quota
    <3>9. CASE health'[id] = Succeeded(health[id])
      <4>1. /\ health'[id].successes = n + 1
            /\ health'[id].status = "Healthy"
                 => n + 1 >= HealthyThreshold \/ health[id].status = "Healthy"
        BY <3>7, <3>9 DEF Succeeded
      <4>2. n + 1 + q <= w
        BY <3>2, <3>8
      <4>3. n + 1 >= HealthyThreshold => HealthyThreshold <= w
        BY <4>2, HealthConfigAssumption
      <4> QED BY <2>4, <2>5, <3>6, <3>8, <4>1, <4>2, <4>3 DEF Quota
    <3>10. CASE health'[id] = Failed(health[id])
      <4>1. /\ health'[id].successes = 0
            /\ health'[id].status = "Healthy" => health[id].status = "Healthy"
        BY <3>10 DEF Failed
      <4>2. 0 + q <= w
        BY <3>2, <3>8
      <4> QED BY <2>4, <2>5, <3>6, <3>8, <4>1, <4>2 DEF Quota
    <3> QED BY <3>1, <3>9, <3>10 DEF Outcome
  <2> QED BY <2>6, <2>7
<1> QED BY <1>2, <1>3 DEF Quotas

LEMMA RoundQuota ==
  ASSUME Shape, Series, ListKept, Quotas, NEW l \in Loops, Round(l)
  PROVE  Quotas'
<1> DEFINE check(k) == [loop |-> l, place |-> k, id |-> nodes[k], result |-> "pending"]
           spawned(id) == {check(k) : k \in {k \in Places : nodes[k] = id}}
<1>1. /\ pc[l] = "ticking" /\ pc'[l] = "blocked"
      /\ \A other \in Loops : other # l => pc'[other] = pc[other]
      /\ health' = health
  BY DEF Round, Goto, Shape
<1>2. l \notin Blocked /\ Blocked' = Blocked \cup {l} /\ IsFiniteSet(Blocked)
  BY <1>1 DEF Blocked, Quotas
<1>3. PICK b \in Nat : b = Cardinality(Blocked)
  BY <1>2, FS_CardinalityType
<1>4. IsFiniteSet(Blocked') /\ Cardinality(Blocked') = b + 1
  BY <1>2, <1>3, FS_AddElement
<1>5. ASSUME NEW id \in Ids \ UpdateIds PROVE Quota(id)'
  <2>1. PICK p \in Nat : p = Cardinality(Pending(id))
    BY PendingFinite
  <2>2. IsFiniteSet(Pending(id)) /\ Quota(id)
    BY PendingFinite DEF Quotas
  <2>3. Pending(id)' = Pending(id) \cup spawned(id)
    BY DEF Round, Pending
  <2>4. nodes \in Seq(Ids)
    BY DEF ListKept
  <2>5. PICK o \in Nat : o = Copies(RingIds, id)
    BY RingAssumption, PlacesOfFinite
  <2>6. PICK m \in Nat : m = Copies(nodes, id)
    BY <2>4, PlacesOfFinite
  <2>7. m <= o
    BY <2>5, <2>6 DEF ListKept
  <2>8. IsFiniteSet(spawned(id)) /\ Cardinality(spawned(id)) <= m
    <3> DEFINE here == {k \in Places : nodes[k] = id}
    <3>1. here \in SUBSET PlacesOf(nodes, id)
      BY DEF Places, PlacesOf
    <3>2. IsFiniteSet(PlacesOf(nodes, id)) /\ Cardinality(PlacesOf(nodes, id)) = m
      BY <2>4, <2>6, PlacesOfFinite
    <3>3. spawned(id) = {check(k) : k \in here}
      OBVIOUS
    <3> HIDE DEF here
    <3>4. IsFiniteSet(here) /\ Cardinality(here) <= m
      BY <3>1, <3>2, FS_Subset
    <3> DEFINE made == [k \in here |-> check(k)]
    <3>5. made \in Surjection(here, spawned(id))
      BY <3>3 DEF Surjection
    <3> HIDE DEF made, spawned
    <3>6. IsFiniteSet(spawned(id)) /\ Cardinality(spawned(id)) <= Cardinality(here)
      BY <3>4, <3>5, FS_Surjection
    <3>7. PICK h \in Nat : h = Cardinality(here)
      BY <3>4, FS_CardinalityType
    <3>8. PICK n \in Nat : n = Cardinality(spawned(id))
      BY <3>6, FS_CardinalityType
    <3>9. n <= m
      BY <3>4, <3>6, <3>7, <3>8
    <3> QED BY <3>6, <3>8, <3>9
  <2> HIDE DEF spawned
  <2>9. PICK s \in Nat : s = Cardinality(spawned(id))
    BY <2>8, FS_CardinalityType
  <2>10. PICK i \in Nat : i = Cardinality(Pending(id) \cap spawned(id))
    BY <2>2, FS_Intersection, FS_CardinalityType
  <2>11. IsFiniteSet(Pending(id)') /\ Cardinality(Pending(id)') = p + s - i
    BY <2>1, <2>2, <2>3, <2>8, <2>9, <2>10, FS_Union
  <2>12. PICK q \in Nat : q = Cardinality(Pending(id)')
    BY <2>11, FS_CardinalityType
  <2>13. q <= p + o
    BY <2>7, <2>8, <2>9, <2>11, <2>12
  <2>14. PICK w \in Nat : w = b * o
    OBVIOUS
  <2>15. (b + 1) * o = w + o
    BY <2>14
  <2>16. Worth(id) = w /\ Worth(id)' = w + o
    BY <1>3, <1>4, <2>5, <2>14, <2>15 DEF Worth, Copies
  <2>17. ASSUME health[id] # None
         PROVE  health'[id].successes + q <= w + o
    <3>1. PICK n \in Nat : n = health[id].successes
      BY <2>17 DEF Series, HealthTyped, NodeHealth
    <3>2. n + p <= w
      BY <2>1, <2>2, <2>16, <2>17, <3>1 DEF Quota
    <3>3. n + q <= w + o
      BY <2>13, <3>2
    <3> QED BY <1>1, <3>1, <3>3
  <2>18. ASSUME health[id] # None, health[id].status = "Healthy"
         PROVE  HealthyThreshold <= w + o
    <3>1. HealthyThreshold <= w
      BY <2>2, <2>16, <2>18 DEF Quota
    <3> QED BY <3>1, HealthConfigAssumption
  <2> QED BY <1>1, <2>11, <2>12, <2>16, <2>17, <2>18 DEF Quota
<1> QED BY <1>4, <1>5 DEF Quotas

LEMMA QuotasStep ==
  ASSUME Shape, Live, Series, ArgTyped, ListKept, Quotas, [Next]_vars
  PROVE  Quotas'
<1>1. Steps
  BY NextSteps
<1>2. CASE UNCHANGED vars
  <2>1. /\ Blocked' = Blocked /\ health' = health
        /\ \A id : Pending(id)' = Pending(id)
    BY <1>2 DEF vars, Blocked, Pending
  <2> QED BY <2>1 DEF Quotas, Quota, Worth, Copies
<1> QED BY <1>1, <1>2, CallerQuota, StartQuota, RoundQuota, AnswerQuota, RecordQuota
        DEF Steps

LEMMA InitQuotas ==
  ASSUME Init
  PROVE  ArgTyped /\ ListKept /\ Quotas
<1>1. ArgTyped
  BY DEF Init, ArgTyped, Named
<1>2. ListKept
  <2>1. \A id : Copies(RingIds, id) \in Nat
    BY RingAssumption, PlacesOfFinite
  <2> QED BY <2>1, RingAssumption DEF Init, ListKept
<1>3. Blocked = {} /\ \A id : Pending(id) = {}
  BY DEF Init, Blocked, Pending
<1>4. IsFiniteSet({}) /\ Cardinality({}) = 0
  BY FS_EmptySet
<1>5. ASSUME NEW id \in Ids PROVE Quota(id)
  <2>1. PICK o \in Nat : o = Copies(RingIds, id)
    BY RingAssumption, PlacesOfFinite
  <2>2. Worth(id) = 0
    BY <1>3, <1>4, <2>1 DEF Worth
  <2>3. health[id] # None => health[id].successes = 0 /\ health[id].status = "Unknown"
    BY DEF Init, Initial, Fresh
  <2> QED BY <1>3, <1>4, <2>2, <2>3 DEF Quota
<1> QED BY <1>1, <1>2, <1>3, <1>4, <1>5 DEF Quotas

(* A node no update touches is Healthy only after enough loops were        *)
(* started, as each is worth one result for every entry the node has:      *)
(* start_health_checks once, with a healthy_threshold above one, makes no  *)
(* node healthy that is listed once (health.rs 24-31, 254-309).            *)
THEOREM HealthNeedsLoops == Spec => []HealthyNeedsLoops
<1> DEFINE Inv == Shape /\ Live /\ Series /\ ArgTyped /\ ListKept /\ Quotas
<1>1. Init => Inv
  BY InitShape, InitLive, InitSeries, InitQuotas
<1>2. Inv /\ [Next]_vars => Inv'
  BY ShapeStep, LiveStep, SeriesStep, ArgTypedStep, ListKeptStep, QuotasStep
<1>3. Inv => HealthyNeedsLoops
  <2> SUFFICES ASSUME Inv, NEW id \in Ids \ UpdateIds, Healthy(id)
               PROVE  Worth(id) >= HealthyThreshold
    BY DEF HealthyNeedsLoops, Worth
  <2>1. PICK b \in Nat : b = Cardinality(Blocked)
    BY FS_CardinalityType DEF Quotas
  <2>2. PICK o \in Nat : o = Copies(RingIds, id)
    BY RingAssumption, PlacesOfFinite
  <2>3. PICK w \in Nat : w = Worth(id)
    BY <2>1, <2>2 DEF Worth
  <2>4. HealthyThreshold <= w
    BY <2>3 DEF Quotas, Quota, Healthy
  <2> QED BY <2>3, <2>4, HealthConfigAssumption
<1> QED BY <1>1, <1>2, <1>3, PTL DEF Spec
=============================================================================
