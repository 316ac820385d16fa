------------------------------ MODULE BoundedGetN ------------------------------
(***************************************************************************)
(* BoundedRing::get_n and the ring built with `disabled()`                 *)
(* (shardring/src/bounded.rs): the two ways a caller is given a node that  *)
(* nothing was counted for, and get_n also the way to be counted without   *)
(* being told.                                                             *)
(*                                                                         *)
(* get_n calls get in a loop, for the same key.  Each call counts a        *)
(* request, which in the model takes a token of Routed; the lock is free   *)
(* between two calls.  Nodes the loop did not reach are appended without a *)
(* call of get.  The caller uses the nodes of the result and releases each *)
(* of them once.                                                           *)
(***************************************************************************)
EXTENDS BoundedRing, SequencesExt

CONSTANTS
  Counts,           \* the values of n a caller may ask for
  MaxOwed,          \* bound: nodes given out uncounted and not yet released
  MaxStolen         \* bound: releases of such nodes

ASSUME CountsAssumption ==
  Counts \subseteq Nat /\ MaxOwed \in Nat /\ MaxStolen \in Nat

VARIABLES
  enabled,          \* config.enabled
  call,             \* call[w]: the get_n that w is in
  untold,           \* requests counted on a node that no caller knows of
  owed,             \* owed[n]: callers that were given n, uncounted
  stolen            \* stolen[n]: how many of those have released n

getNVars == <<enabled, call, untold, owed, stolen>>
allVars == <<vars, getNVars>>

NoCall ==
  [phase |-> "none", n |-> 0, hash |-> 0, probe |-> 0, result |-> <<>>,
   tail |-> <<>>, mine |-> {}, always |-> {}]

GetNInit ==
  /\ Init
  /\ enabled \in BOOLEAN
  /\ call = [w \in Workers |-> NoCall]
  /\ untold = {}
  /\ owed = [n \in Nodes |-> 0]
  /\ stolen = [n \in Nodes |-> 0]

InGetN(w) == call[w].phase # "none"

(* In the loop of get_n, and not inside a call of get. *)
Looping(w) == pc[w] = "idle" /\ call[w].phase = "probes"

Record(w, record) ==
  /\ call' = [call EXCEPT ![w] = record]
  /\ UNCHANGED enabled

(* The call comes to its end; of its locals only the result is needed. *)
Ends(w, phase, result) ==
  Record(w, [NoCall EXCEPT !.phase = phase, !.result = result,
                           !.n = call[w].n, !.always = call[w].always])

FreeRouted == {r \in Routed : Free(r) /\ held[r] = None}

(* The bound on tokens: every get of a call finds one. *)
TokensLeft == Cardinality(FreeRouted) >= MaxProbes

(* The bound on what is given out uncounted, before n more nodes are. *)
RoomToOwe(n) == MapThenSumSet(LAMBDA m : owed[m], Nodes) + n <= MaxOwed

Owe(given) == owed' = [m \in Nodes |-> IF m \in given THEN owed[m] + 1 ELSE owed[m]]

-----------------------------------------------------------------------------
StartGetN(w, n, h) ==
  /\ enabled /\ pc[w] = "idle" /\ ~InGetN(w)
  /\ TokensLeft /\ RoomToOwe(Min({n, NumNodes}) - 1)   \* a probe finds one
  /\ Record(w, [NoCall EXCEPT !.phase = "probes", !.n = n, !.hash = h,
                              !.always = up \cap Nodes])
  /\ UNCHANGED <<vars, untold, owed, stolen>>

(* The condition of the while loop. *)
LoopsOn(w) == Len(call[w].result) < call[w].n /\ call[w].probe < MaxProbes

GetNProbe(w, r) ==
  /\ Looping(w) /\ LoopsOn(w)
  /\ Get(w, r, call[w].hash)
  /\ UNCHANGED getNVars

(* get returns in the loop: a node the result already has is dropped, but  *)
(* the request was counted.                                                *)
GetNCounted(w) ==
  /\ call[w].phase = "probes" /\ pc[w] = "counting"
  /\ AddTotal(w)
  /\ LET repeated == pick[w] \in ToSet(call[w].result)
     IN  /\ Record(w, [call[w] EXCEPT
                         !.probe = @ + 1,
                         !.result = IF repeated THEN @ ELSE Append(@, pick[w]),
                         !.mine = @ \cup {job[w]}])
         /\ untold' = IF repeated THEN untold \cup {job[w]} ELSE untold
  /\ UNCHANGED <<owed, stolen>>

(* `self.get(key)?`: the nodes collected so far are lost. *)
GetNFails(w) ==
  /\ call[w].phase = "probes"
  /\ ScanEmpty(w)
  /\ Ends(w, "failed", <<>>)
  /\ untold' = untold \cup call[w].mine
  /\ UNCHANGED <<owed, stolen>>

GetNFull(w) ==
  /\ Looping(w) /\ Len(call[w].result) = call[w].n
  /\ Ends(w, "done", call[w].result)
  /\ UNCHANGED <<vars, untold, owed, stolen>>

(* Faulty: get_n returns what the probes found. *)
GetNNoTail(w) ==
  /\ Looping(w) /\ ~LoopsOn(w)
  /\ Ends(w, "done", call[w].result)
  /\ UNCHANGED <<vars, untold, owed, stolen>>

(* Lines 188-195, node by node: the probe field counts the nodes from here. *)
GetNTail(w) ==
  /\ Looping(w) /\ ~LoopsOn(w) /\ Len(call[w].result) < call[w].n
  /\ Record(w, [call[w] EXCEPT !.phase = "tail", !.probe = 0, !.hash = 0, !.mine = {}])
  /\ UNCHANGED <<vars, untold, owed, stolen>>

(* Faulty: the tail lists healthy nodes the loop has found as well. *)
EligibleAgain(w, n) == n \in up

Eligible(w, n) == n \in up /\ n \notin ToSet(call[w].result)

(* The read lock is taken and dropped for every node of the filter. *)
GetNFilter(w) ==
  /\ call[w].phase = "tail" /\ call[w].probe < NumNodes
  /\ LET n == call[w].probe
     IN  Record(w, [call[w] EXCEPT
                      !.probe = @ + 1,
                      !.tail = IF Eligible(w, n) THEN Append(@, n) ELSE @])
  /\ UNCHANGED <<vars, untold, owed, stolen>>

(* The nodes the last loop appends. *)
Appended(w) ==
  SubSeq(call[w].tail, 1, Min({Len(call[w].tail), call[w].n - Len(call[w].result)}))

GetNAppend(w) ==
  /\ call[w].phase = "tail" /\ call[w].probe = NumNodes
  /\ Ends(w, "done", call[w].result \o Appended(w))
  /\ Owe(ToSet(Appended(w)))
  /\ UNCHANGED <<vars, untold, stolen>>

(* get_n returns, with a result or EmptyRing. *)
GetNReturn(w) ==
  /\ call[w].phase \in {"done", "failed"}
  /\ Record(w, NoCall)
  /\ UNCHANGED <<vars, untold, owed, stolen>>

-----------------------------------------------------------------------------
(* Without `enabled`: CompactRing::get and CompactRing::get_n.  The first  *)
(* of the distinct nodes clockwise from h, `count` of them at most.        *)
Offset(h, n) ==
  Min({k \in 0 .. Len(Points) - 1 :
         PointAt(Points, (StartIndex(Points, h) + k) % Len(Points)).node = n})

Clockwisest(h, count) ==
  LET placed == {pt.node : pt \in ToSet(Points)}
  IN  {n \in placed :
         Cardinality({m \in placed : Offset(h, m) < Offset(h, n)}) < count}

(* The call changes nothing of the ring; its caller has the nodes. *)
DisabledGetN(w, n, h) ==
  /\ ~enabled /\ pc[w] = "idle"
  /\ RoomToOwe(Min({n, NumNodes}))
  /\ Owe(Clockwisest(h, n))
  /\ UNCHANGED <<vars, enabled, call, untold, stolen>>

DisabledGet(w, h) ==
  /\ ~enabled /\ pc[w] = "idle"
  /\ RoomToOwe(1)
  /\ Owe({OwnerIndex(Points, h)})
  /\ UNCHANGED <<vars, enabled, call, untold, stolen>>

-----------------------------------------------------------------------------
(* The operations of BoundedRing outside get_n.  Nobody releases a request *)
(* that no caller knows of.                                                *)
GetAlone(w) ==
  /\ enabled /\ ~InGetN(w)
  /\ GetSome(w)
  /\ UNCHANGED getNVars

(* A step of get, acquire or release in which get_n records nothing. *)
ProceedQuietly(w) ==
  /\ \/ ProbeAccept(w) \/ ProbeNext(w) \/ FallBack(w)
     \/ ScanBetter(w) \/ ScanNext(w) \/ ScanFound(w)
     \/ AddLoad(w) \/ DropTotal(w)
     \/ ~InGetN(w) /\ (ScanEmpty(w) \/ AddTotal(w))
  /\ UNCHANGED getNVars

AcquireAlone(w, r, n) ==
  /\ ~InGetN(w)
  /\ Acquire(w, r, n)
  /\ UNCHANGED getNVars

ReleaseKnown(w, r) ==
  /\ ~InGetN(w) /\ r \notin untold
  /\ Release(w, r)
  /\ UNCHANGED getNVars

(* Faulty: release lowers the node's load and leaves the total. *)
LowerOwed(w, n) ==
  /\ load' = [load EXCEPT ![n] = (@ - 1) % LoadRange]
  /\ UNCHANGED <<total, up, held, pc, job, start, at, cap, pick, low>>

(* release of a node that was never counted: fetch_sub wraps. *)
Lower(w, n) ==
  /\ load' = [load EXCEPT ![n] = (@ - 1) % LoadRange]
  /\ pc' = [pc EXCEPT ![w] = "dropping"]
  /\ UNCHANGED <<total, up, held, job, start, at, cap, pick, low>>

ReleaseOwed(w, n) ==
  /\ pc[w] = "idle" /\ ~InGetN(w)
  /\ owed[n] > 0
  /\ MapThenSumSet(LAMBDA m : stolen[m], Nodes) < MaxStolen
  /\ Lower(w, n)
  /\ owed' = [owed EXCEPT ![n] = @ - 1]
  /\ stolen' = [stolen EXCEPT ![n] = @ + 1]
  /\ UNCHANGED <<enabled, call, untold>>

(* set_healthy, in whatever call of get_n the workers are. *)
SetHealthyAnyTime(id, healthy) ==
  /\ SetHealthy(id, healthy)
  /\ call' = [w \in Workers |->
                IF InGetN(w) THEN [call[w] EXCEPT !.always = @ \cap up']
                             ELSE NoCall]
  /\ UNCHANGED <<enabled, untold, owed, stolen>>

GetNStep(w) ==
  \/ \E n \in Counts, h \in Hashes : StartGetN(w, n, h)
  \/ \E r \in Routed : GetNProbe(w, r)
  \/ GetNCounted(w) \/ GetNFails(w) \/ GetNFull(w)
  \/ GetNTail(w) \/ GetNFilter(w) \/ GetNAppend(w) \/ GetNReturn(w)
  \/ \E n \in Counts, h \in Hashes : DisabledGetN(w, n, h)
  \/ \E h \in Hashes : DisabledGet(w, h)

GetNNext ==
  \/ \E w \in Workers : GetNStep(w) \/ GetAlone(w) \/ ProceedQuietly(w)
  \/ \E w \in Workers, r \in Manual, n \in Nodes : AcquireAlone(w, r, n)
  \/ \E w \in Workers, r \in Requests : ReleaseKnown(w, r)
  \/ \E w \in Workers, n \in Nodes : ReleaseOwed(w, n)
  \/ \E id \in Nodes \cup Strangers, healthy \in BOOLEAN :
       SetHealthyAnyTime(id, healthy)

GetNSpec == GetNInit /\ [][GetNNext]_allVars

-----------------------------------------------------------------------------
(* BoundedRing::stats, of a caller that nothing interrupts: the nodes it   *)
(* reports as overloaded.                                                  *)
Overloaded == {n \in up \cap Nodes : load[n] > MaxLoad}

(* get_n comes back with n nodes or with every node that was up throughout *)
(* the call, however the loop of probes ended, none of them twice and no   *)
(* more than n, although the lock is given back between its steps, so that *)
(* nodes the loop has found go down and come up again before the tail      *)
(* looks at each node anew.  It fails only if no node was up throughout,   *)
(* on a ring whose counters were never lowered for a node that was not     *)
(* counted: a load that wrapped to u64::MAX makes the fallback pass over   *)
(* the node (bounded.rs 176-205, 208-225).                                 *)
GetNComplete ==
  \A w \in Workers :
    /\ call[w].phase = "done" =>
         /\ IsInjective(call[w].result)
         /\ Len(call[w].result) <= call[w].n
         /\ \/ Len(call[w].result) = call[w].n
            \/ call[w].always \subseteq ToSet(call[w].result)
    /\ call[w].phase = "failed" /\ (\A n \in Nodes : stolen[n] = 0)
         => call[w].always = {}

(* The counters are off by exactly the releases of nodes that were given   *)
(* out uncounted, modulo 2^64, and by nothing else; what get_n counted     *)
(* without telling its caller stays in them for good.  So a counter wraps  *)
(* below zero only on a disabled ring or after a release of a node from    *)
(* the tail of get_n (bounded.rs 59-71, 128-130, 180-203).                 *)
CountersExplained ==
  LET taken(S) == MapThenSumSet(LAMBDA n : stolen[n], S)
      notYet == Cardinality({w \in Workers : pc[w] = "dropping" /\ job[w] = None})
  IN  /\ \A n \in Nodes :
           load[n] = (Cardinality(CountedOn(n)) - stolen[n]) % LoadRange
      /\ total = (Cardinality(CountedInTotal) - taken(Nodes) + notYet) % LoadRange

(* A request that get places, in get_n or alone, leaves its node within    *)
(* the bound of the paper the load factor comes from: at most factor times *)
(* the mean, rounded up, with the request counted.  For one thread at a    *)
(* time, with releases, acquires and health changes between the calls, and *)
(* while no node that was not counted has been released (bounded.rs        *)
(* 141-168, 180-186).                                                      *)
WithinBoundUnlessStolen ==
  [][(\A n \in Nodes : stolen[n] = 0) => \A w \in Workers :
       pc[w] = "counting" /\ pc'[w] = "idle"
         => load'[pick[w]] <= BoundOn(total')]_allVars

(* With one thread, get settles on the first probed node that is healthy   *)
(* and that stats would not report as overloaded; if there is none, on the *)
(* least loaded of all, and among those on the first in the node list      *)
(* (bounded.rs 145-168, 208-225, 250-280).                                 *)
PickIsFirstWithRoom ==
  \A w \in Workers : pc[w] = "adding" =>
    LET rooms == {k \in 0 .. MaxProbes - 1 : Probed(w, k) \in up \ Overloaded}
    IN  IF rooms # {} THEN pick[w] = Probed(w, Min(rooms))
        ELSE \A n \in up \cap Nodes :
               load[pick[w]] < load[n] \/ (load[pick[w]] = load[n] /\ pick[w] <= n)
=============================================================================
