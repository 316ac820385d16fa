------------------------------ MODULE FairRwLock ------------------------------
(***************************************************************************)
(* tokio::sync::RwLock as HealthAwareRing uses it: a fair lock.  Requests  *)
(* are served in the order in which they are made, readers together.  The  *)
(* state of a lock is the line of its requests, the served ones included:  *)
(* a function from each to those that are ahead of it.  To drop a guard,   *)
(* or the future that waits for one, is to leave the line.  Nothing stops  *)
(* a task from queueing behind itself.                                     *)
(***************************************************************************)
EXTENDS Naturals

Request(task, mode) == [task |-> task, mode |-> mode]

Nobody == [r \in {} |-> {}]

Join(line, task, mode) ==
  [r \in DOMAIN line \cup {Request(task, mode)} |->
     IF r \in DOMAIN line THEN line[r] ELSE DOMAIN line]

Leave(line, task) ==
  [r \in {q \in DOMAIN line : q.task # task} |-> {q \in line[r] : q.task # task}]

(* A writer is served when it is the first of the line, a reader when only *)
(* readers are ahead of it.                                                *)
Granted(line, task, mode) ==
  /\ Request(task, mode) \in DOMAIN line
  /\ \A ahead \in line[Request(task, mode)] : mode = "read" /\ ahead.mode = "read"

(* The tasks that are in the line, and those nobody is ahead of. *)
InLine(line) == {r.task : r \in DOMAIN line}

First(line) == {r \in DOMAIN line : line[r] = {}}
=============================================================================
