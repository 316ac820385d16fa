----------------------------- MODULE BoundedReadme -----------------------------
(***************************************************************************)
(* A program that uses BoundedRing as the READMEs show: get a node, then   *)
(* `acquire` it to count the in-flight work, and `release` it when the     *)
(* work is done.  get has already counted the request by then.             *)
(***************************************************************************)
EXTENDS BoundedRing

VARIABLE noted      \* the requests the program has called acquire for

readmeVars == <<vars, noted>>

ReadmeInit == Init /\ noted = {}

GetNode(w) == GetSome(w) /\ UNCHANGED noted

Continue(w) == Proceed(w) /\ UNCHANGED noted

(* `bounded.acquire(&node)`, once for the node of the request. *)
AcquireHeld(w, r) ==
  /\ pc[w] = "idle"
  /\ Free(r) /\ held[r] # None /\ r \notin noted
  /\ noted' = noted \cup {r}
  /\ load' = [load EXCEPT ![held[r]] = (@ + 1) % LoadRange]
  /\ pc' = [pc EXCEPT ![w] = "acquiring"]
  /\ job' = [job EXCEPT ![w] = r]
  /\ pick' = [pick EXCEPT ![w] = held[r]]
  /\ UNCHANGED <<total, up, held, start, at, cap, low>>

(* `bounded.release(&node)` *)
ReleaseHeld(w, r) ==
  /\ r \in noted
  /\ Release(w, r)
  /\ noted' = noted \ {r}

ReadmeNext ==
  \E w \in Workers :
    \/ GetNode(w)
    \/ Continue(w)
    \/ \E r \in Routed : AcquireHeld(w, r) \/ ReleaseHeld(w, r)

ReadmeSpec == ReadmeInit /\ [][ReadmeNext]_readmeVars

(* When no work is in flight the loads are those of an idle ring, as a     *)
(* count of the in-flight work is (shardring/README.md 76-79).             *)
IdleMeansUnloaded ==
  (/\ \A w \in Workers : pc[w] = "idle"
   /\ \A r \in Requests : held[r] = None)
  => \A n \in Nodes : load[n] = 0
=============================================================================
